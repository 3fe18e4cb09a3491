------------------- MODULE AuthenticationExperienceProofs -------------------
(***************************************************************************)
(* Proofs about the sign-in of the browser application, for every bound of *)
(* sessions, attempts, calls, events and reloads.                          *)
(*                                                                         *)
(* A session the user has signed out of stays gone because nothing in the  *)
(* tab still names it: answers of the authority bring new sessions, and    *)
(* the session a restoration asks for is neither the one in use nor one    *)
(* that a sign-out is about (RestoredOnce).                                *)
(***************************************************************************)
EXTENDS AuthenticationExperience, TLAPS

NoSession == Sessions \cup {None}

(* What was issued is a session, and not None.                             *)
LEMMA IssuedSessions == Issued \subseteq Sessions /\ None \notin Issued
BY ConstantsAssumption DEF Issued

(* render leaves the session and its storage alone, or clears both when    *)
(* there is a session; on a route that needs authentication it leaves      *)
(* nothing protected on the page of a user without a session.              *)
LEMMA RenderEffect ==
  ASSUME NEW r, NEW held \in NoSession, NEW kept, NEW asked, NEW under,
         Render(r, held, kept, asked, under)
  PROVE  /\ \/ session' = held /\ stored' = kept
            \/ session' = None /\ stored' = None /\ held # None
         /\ under \in Pages => page' \in Pages
         /\ r \in AuthRoutes /\ session' = None => page' \notin Protected
         /\ r \notin AuthRoutes => session' = held
<1> USE DEF AuthRoutes
<1> DEFINE forms == Forms \cup {"refused"}
<1>1. SignInPage(r, asked) \in forms
  BY DEF SignInPage, Forms
<1>2. forms \subseteq Pages /\ forms \cap Protected = {}
  BY DEF Forms, Pages, Protected, Workspaces, Features
<1>3. SessionPage(r, held) \in Pages
  BY DEF SessionPage, WorkspacePage, FeaturePage, Pages, Protected, Workspaces, Features
<1>5. CASE r \notin AuthRoutes
  BY <1>5 DEF Render
<1>6. CASE r \in AuthRoutes /\ ~ HasPage(r, held)
  <2>1. /\ session' = None /\ stored' = IF held = None THEN kept ELSE None
        /\ page' = SignInPage(r, asked)
    BY <1>6 DEF Render, Cleared
  <2>2. page' \in Pages /\ page' \notin Protected
    BY <1>1, <1>2, <2>1
  <2>3. QED
    BY <1>6, <2>1, <2>2
<1>7. CASE r \in AuthRoutes /\ HasPage(r, held)
  BY <1>3, <1>7 DEF Render, HasPage
<1>4. QED
  BY <1>5, <1>6, <1>7

(* The forms and the pages of the shell are pages, and not protected.      *)
LEMMA OpenPages ==
  /\ \A r, asked : SignInPage(r, asked) \in Pages \ Protected
  /\ \A r \in Routes : ShellPage(r) \in Pages \ Protected
<1>1. ASSUME NEW r, NEW asked PROVE SignInPage(r, asked) \in Pages \ Protected
  BY DEF SignInPage, Pages, Forms, Protected, Workspaces, Features
<1>2. ASSUME NEW r \in Routes PROVE ShellPage(r) \in Pages \ Protected
  BY DEF ShellPage, Pages, Routes, AuthRoutes, Protected, Workspaces, Features
<1>3. QED
  BY <1>1, <1>2

(* The calls that are sent, and the record of a place without one.         *)
LEMMA CallTypes ==
  ASSUME TypeOK
  PROVE  /\ Free \in CallRecords /\ Free.kind = "none" /\ Free.session = None
         /\ \A k \in {"guest", "developer", "enigma"} : \A a \in Attempts \cup {None} :
               /\ Submission(k, a) \in CallRecords /\ Submission(k, a).kind = k
               /\ Submission(k, a).session = None
         /\ \A k \in {"restore", "logout"} : \A s \in Sessions :
               /\ AboutSession(k, s) \in CallRecords /\ AboutSession(k, s).kind = k
               /\ AboutSession(k, s).session = s
<1>1. Free \in CallRecords /\ Free.kind = "none" /\ Free.session = None
  BY DEF Free, CallRecords, Routes, AuthRoutes, Runtimes
<1>2. ASSUME NEW k \in {"guest", "developer", "enigma"}, NEW a \in Attempts \cup {None}
      PROVE  /\ Submission(k, a) \in CallRecords /\ Submission(k, a).kind = k
             /\ Submission(k, a).session = None
  BY DEF Submission, CallRecords, Runtimes, TypeOK
<1>3. ASSUME NEW k \in {"restore", "logout"}, NEW s \in Sessions
      PROVE  /\ AboutSession(k, s) \in CallRecords /\ AboutSession(k, s).kind = k
             /\ AboutSession(k, s).session = s
  BY DEF AboutSession, Free, CallRecords, Routes, AuthRoutes, Runtimes
<1>4. QED
  BY <1>1, <1>2, <1>3

-----------------------------------------------------------------------------
(* What the invariant needs to know of a step: it ends a call, or sends    *)
(* one, or neither, and what it does to the sessions of the tab.           *)

Kept == session' = session /\ stored' = stored
Forgotten == session' = None /\ stored' = None

(* A session is kept or both copies are forgotten, and no call is lost     *)
(* that a stored session waits for.                                        *)
LEMMA FollowsWhenKept ==
  ASSUME StorageFollows, Kept \/ Forgotten,
         \A c \in Calls : call[c].kind = "restore" => call'[c] = call[c]
  PROVE  StorageFollows'
BY DEF StorageFollows, Kept, Forgotten

(* With a call sent nothing else in the tab changes but forgetting.        *)
LEMMA SentCall ==
  ASSUME Inv, NEW new \in CallRecords, new.kind # "restore",
         new.session \in Issued \cup {None},
         new.kind = "logout" => new.session # None /\ new.session = session,
         Send(new),
         UNCHANGED <<session, stored, signedOut, issued>>
  PROVE  call' \in [Calls -> CallRecords] /\ StorageFollows' /\ OnlyIssued' /\ RestoredOnce'
<1> USE DEF Inv
<1>1. PICK c \in Calls : call[c] = Free /\ call' = [call EXCEPT ![c] = new]
  BY DEF Send
<1>2. call' \in [Calls -> CallRecords] /\ call'[c] = new
      /\ \A d \in Calls \ {c} : call'[d] = call[d]
  BY <1>1 DEF TypeOK
<1>3. call[c].kind = "none"
  BY <1>1, CallTypes
<1>4. StorageFollows'
  BY <1>2, <1>3, FollowsWhenKept DEF Kept
<1>5. OnlyIssued'
  BY <1>2 DEF OnlyIssued, Issued
<1>6. RestoredOnce'
  BY <1>2 DEF RestoredOnce
<1>7. QED
  BY <1>2, <1>4, <1>5, <1>6

(* No call is sent or ended: a session is kept or forgotten.              *)
LEMMA CallsUnchanged ==
  ASSUME Inv, Kept \/ Forgotten, UNCHANGED <<call, signedOut, issued>>
  PROVE  StorageFollows' /\ OnlyIssued' /\ RestoredOnce'
<1> USE DEF Inv
<1>1. StorageFollows'
  BY FollowsWhenKept
<1>2. OnlyIssued'
  BY DEF OnlyIssued, Issued, Kept, Forgotten
<1>3. RestoredOnce'
  BY DEF RestoredOnce, OnlyIssued, Kept, Forgotten
<1>4. QED
  BY <1>1, <1>2, <1>3

(* A call has ended: the others are as they were.                          *)
LEMMA EndedCall ==
  ASSUME Inv, NEW c \in Calls, Done(c),
         issued' \in Nat, issued <= issued',
         session' \in Issued' \cup {None}, stored' \in Issued' \cup {None},
         signedOut' \subseteq Issued',
         \A d \in Calls \ {c} : call[d].kind = "restore" =>
             call[d].session # session' /\ call[d].session \notin signedOut'
  PROVE  /\ call' \in [Calls -> CallRecords] /\ OnlyIssued' /\ RestoredOnce'
         /\ \A d \in Calls \ {c} : call'[d] = call[d]
<1> USE DEF Inv
<1>1. /\ call' \in [Calls -> CallRecords] /\ call'[c] = Free
      /\ \A d \in Calls \ {c} : call'[d] = call[d]
  BY CallTypes DEF TypeOK, Done
<1>2. call'[c].kind = "none" /\ call'[c].session = None
  BY <1>1, CallTypes
<1>3. Issued \subseteq Issued'
  BY ConstantsAssumption DEF Issued, Sessions, TypeOK
<1>4. OnlyIssued'
  BY <1>1, <1>2, <1>3 DEF OnlyIssued
<1>5. RestoredOnce'
  BY <1>1, <1>2 DEF RestoredOnce
<1>6. QED
  BY <1>1, <1>4, <1>5

(* A session and its copy that a step sets to the same: nothing is stored  *)
(* that waits for a restoration.                                           *)
LEMMA FollowsWhenTogether ==
  ASSUME session' = stored' PROVE StorageFollows'
BY DEF StorageFollows

(* The answer to a login: a session no one in the tab has seen before.     *)
LEMMA SignInKeeps ==
  ASSUME Inv, SignedOutIsGone, NEW c \in Calls,
         NEW kind \in Kinds, NEW runtime \in Runtimes,
         call[c].kind # "restore", SignIn(c, kind, runtime)
  PROVE  /\ issued' \in 0 .. MaxSessions /\ session' \in NoSession /\ stored' \in NoSession
         /\ page' \in Pages /\ call' \in [Calls -> CallRecords]
         /\ StorageFollows' /\ OnlyIssued' /\ RestoredOnce' /\ SignedOutIsGone'
         /\ session' = None => page' \notin Protected
<1> USE DEF Inv
<1> DEFINE new == [id |-> issued', kind |-> kind, runtime |-> runtime]
<1>1. issued' = issued + 1 /\ issued' \in 1 .. MaxSessions /\ issued \in Nat
  BY ConstantsAssumption DEF SignIn, TypeOK
<1>2. new \in Sessions /\ new \in Issued' /\ new \notin Issued /\ new # None
  BY <1>1, ConstantsAssumption DEF Sessions, Issued
<1>3. Render(call[c].route, new, new, pending', page)
  BY DEF SignIn, Accepted
<1>4. /\ session' = stored' /\ session' \in {new, None}
      /\ page' \in Pages
      /\ session' = None => page' \notin Protected
  <2> HIDE DEF new
  <2>1. page \in Pages
    BY DEF TypeOK
  <2>2. QED
    BY <1>2, <1>3, <2>1, RenderEffect DEF NoSession
<1> HIDE DEF new
<1>5. Issued \subseteq Issued'
  BY <1>1 DEF Issued, Sessions
<1>6. signedOut' = signedOut /\ signedOut \subseteq Issued
  BY DEF SignIn, OnlyIssued
<1>7. \A d \in Calls : call[d].kind = "restore" =>
          call[d].session \in Issued /\ call[d].session \notin signedOut
  BY DEF OnlyIssued, RestoredOnce
<1>8. \A d \in Calls \ {c} : call[d].kind = "restore" =>
          call[d].session # session' /\ call[d].session \notin signedOut'
  BY <1>2, <1>4, <1>6, <1>7, IssuedSessions
<1>9. Done(c)
  BY DEF SignIn
<1>10. call' \in [Calls -> CallRecords] /\ OnlyIssued' /\ RestoredOnce'
  <2>1. session' \in Issued' \cup {None} /\ stored' \in Issued' \cup {None}
    BY <1>2, <1>4
  <2>2. signedOut' \subseteq Issued' /\ issued' \in Nat /\ issued <= issued'
    BY <1>1, <1>5, <1>6
  <2>3. QED
    BY <1>8, <1>9, <2>1, <2>2, EndedCall
<1>11. SignedOutIsGone'
  BY <1>2, <1>4, <1>6, IssuedSessions DEF SignedOutIsGone
<1>12. QED
  BY <1>1, <1>2, <1>4, <1>10, <1>11, FollowsWhenTogether DEF NoSession

-----------------------------------------------------------------------------

AllInv == Inv /\ GuardedRoutes /\ SignedOutIsGone

(* A page that has just been opened: no session, no call.                  *)
LEMMA InitInv == Init => AllInv
<1> SUFFICES ASSUME Init PROVE AllInv
  OBVIOUS
<1> USE ConstantsAssumption DEF Init
<1>1. Free \in CallRecords /\ Free.kind = "none" /\ Free.session = None
  BY DEF Free, CallRecords, Routes, AuthRoutes, Runtimes
<1>2. page \in Pages \ Protected
  BY OpenPages
<1>3. TypeOK
  BY <1>1, <1>2 DEF TypeOK
<1>4. \A c \in Calls : call[c] = Free
  OBVIOUS
<1>5. StorageFollows /\ OnlyIssued /\ RestoredOnce
  BY <1>1, <1>4 DEF StorageFollows, OnlyIssued, RestoredOnce
<1>6. GuardedRoutes /\ SignedOutIsGone
  BY <1>2 DEF GuardedRoutes, SignedOutIsGone
<1>7. QED
  BY <1>3, <1>5, <1>6 DEF AllInv, Inv

(* Every handler, and what the user does, keeps the invariant.             *)
LEMMA NextInv == AllInv /\ [Next]_vars => AllInv'
<1> SUFFICES ASSUME AllInv, [Next]_vars PROVE AllInv'
  OBVIOUS
<1> USE DEF AllInv
<1>0. TypeOK /\ StorageFollows /\ OnlyIssued /\ RestoredOnce
  BY DEF Inv
<1>a. issued \in Nat /\ session \in NoSession /\ stored \in NoSession /\ page \in Pages
  BY <1>0, ConstantsAssumption DEF TypeOK, NoSession
<1>b. /\ session \in Issued \cup {None} /\ stored \in Issued \cup {None}
      /\ signedOut \subseteq Issued
  BY <1>0 DEF OnlyIssued
<1>1. CASE Submit
  <2>1. UNCHANGED <<session, stored, pending, page, route, events, issued, opened,
                    consumed, reloads, signedOut>>
    BY <1>1 DEF Submit, place, authority
  <2>2. PICK k \in {"guest", "developer", "enigma"}, a \in Attempts \cup {None} :
            Send(Submission(k, a))
    BY <1>0, <1>1 DEF Submit, TypeOK
  <2>3. /\ Submission(k, a) \in CallRecords /\ Submission(k, a).kind = k
        /\ Submission(k, a).session = None
    BY <1>0, CallTypes
  <2>4. call' \in [Calls -> CallRecords] /\ StorageFollows' /\ OnlyIssued' /\ RestoredOnce'
    BY <2>1, <2>2, <2>3, SentCall
  <2>5. QED
    BY <1>0, <2>1, <2>4 DEF Inv, TypeOK, GuardedRoutes, SignedOutIsGone
<1>2. CASE FollowLink
  <2>1. UNCHANGED <<session, stored, pending, call, issued, opened, consumed, reloads, signedOut>>
    BY <1>2 DEF FollowLink, authority
  <2>2. PICK r \in Routes : Navigate(r)
    BY <1>2 DEF FollowLink, Links, Kinds, Routes, AuthRoutes
  <2>3. route' \in Routes /\ events' \in 0 .. MaxEvents /\ page' \in Pages \ Protected
    BY <1>0, <2>2, OpenPages, ConstantsAssumption DEF Navigate, TypeOK
  <2>4. StorageFollows' /\ OnlyIssued' /\ RestoredOnce'
    BY <2>1, CallsUnchanged DEF Kept
  <2>5. QED
    BY <1>0, <2>1, <2>3, <2>4 DEF Inv, TypeOK, GuardedRoutes, SignedOutIsGone
<1>3. ASSUME NEW r \in Routes, Dispatch(r), events' \in 0 .. MaxEvents
      PROVE  AllInv'
  <2>1. UNCHANGED <<pending, call, issued, opened, consumed, reloads, signedOut>>
    BY <1>3 DEF Dispatch, authority
  <2>2. route' = r /\ Render(r, session, stored, pending, ShellPage(r))
    BY <1>3 DEF Dispatch
  <2>3. /\ Kept \/ Forgotten
        /\ page' \in Pages
        /\ r \in AuthRoutes /\ session' = None => page' \notin Protected
    BY <1>a, <2>2, RenderEffect, OpenPages DEF Kept, Forgotten
  <2>4. StorageFollows' /\ OnlyIssued' /\ RestoredOnce'
    BY <2>1, <2>3, CallsUnchanged
  <2>5. TypeOK'
    BY <1>0, <1>3, <2>1, <2>2, <2>3 DEF TypeOK, Kept, Forgotten
  <2>6. SignedOutIsGone'
    BY <1>b, <2>1, <2>3, IssuedSessions DEF SignedOutIsGone, Kept, Forgotten
  <2>7. QED
    BY <2>2, <2>3, <2>4, <2>5, <2>6 DEF Inv, GuardedRoutes
<1>4. CASE ChangeHash
  BY <1>0, <1>3, <1>4 DEF ChangeHash, TypeOK
<1>5. CASE HashChanges
  <2>1. Dispatch(route) /\ events' = events - 1 /\ events > 0
    BY <1>5 DEF HashChanges
  <2>2. route \in Routes /\ events' \in 0 .. MaxEvents
    BY <1>0, <2>1, ConstantsAssumption DEF TypeOK
  <2>3. QED
    BY <1>3, <2>1, <2>2
<1>6. CASE Reload
  <2> DEFINE asks == AboutSession("restore", stored)
  <2>1. /\ stored \in Issued /\ stored' = stored /\ session' = None /\ pending' = None
        /\ route' = route /\ events' = 0 /\ reloads' = reloads + 1 /\ reloads < MaxReloads
        /\ UNCHANGED <<issued, opened, consumed, signedOut>>
    BY <1>6, <1>b DEF Reload, authority
  <2>2. page' \in Pages \ Protected
    BY <1>0, <1>6, OpenPages DEF Reload, TypeOK
  <2>3. asks \in CallRecords /\ asks.kind = "restore" /\ asks.session = stored
    BY <1>0, <2>1, CallTypes, IssuedSessions
  <2>4. Free \in CallRecords /\ Free.kind = "none" /\ Free.session = None
    BY <1>0, CallTypes
  <2>5. call' = [c \in Calls |-> IF c = 1 THEN asks ELSE Free]
    BY <1>6 DEF Reload
  <2> HIDE DEF asks
  <2>6. TypeOK'
    BY <1>0, <2>1, <2>2, <2>3, <2>4, <2>5, ConstantsAssumption DEF TypeOK
  <2>7. StorageFollows'
    <3>1. 1 \in Calls
      BY ConstantsAssumption DEF Calls
    <3>2. QED
      BY <2>1, <2>3, <2>5, <3>1 DEF StorageFollows
  <2>8. OnlyIssued'
    BY <1>b, <2>1, <2>3, <2>4, <2>5, IssuedSessions DEF OnlyIssued, Issued
  <2>9. RestoredOnce'
    BY <2>1, <2>3, <2>4, <2>5, IssuedSessions DEF RestoredOnce, SignedOutIsGone
  <2>10. QED
    BY <1>b, <2>1, <2>2, <2>6, <2>7, <2>8, <2>9, IssuedSessions
       DEF Inv, GuardedRoutes, SignedOutIsGone
<1>7. CASE ClickSignOut
  <2>1. UNCHANGED <<issued, opened, consumed, reloads, signedOut>>
    BY <1>7 DEF ClickSignOut, authority
  <2>2. CASE /\ session # None /\ Send(AboutSession("logout", session))
             /\ UNCHANGED <<session, stored, pending, page, place>>
    <3>1. LET new == AboutSession("logout", session)
          IN  new \in CallRecords /\ new.kind = "logout" /\ new.session = session
      BY <1>0, <1>b, <2>2, CallTypes, IssuedSessions
    <3>2. call' \in [Calls -> CallRecords] /\ StorageFollows' /\ OnlyIssued' /\ RestoredOnce'
      BY <1>b, <2>1, <2>2, <3>1, SentCall
    <3>3. QED
      BY <1>0, <2>1, <2>2, <3>2 DEF Inv, TypeOK, GuardedRoutes, SignedOutIsGone, place
  <2>3. CASE session = None /\ SignOutEnds /\ UNCHANGED call
    <3>1. pending' = None /\ session' = None /\ stored' = None /\ Navigate("gateway")
      BY <2>3 DEF SignOutEnds, Cleared
    <3>2. route' \in Routes /\ events' \in 0 .. MaxEvents /\ page' \in Pages \ Protected
      BY <1>0, <3>1, OpenPages, ConstantsAssumption DEF Navigate, TypeOK, Routes
    <3>3. StorageFollows' /\ OnlyIssued' /\ RestoredOnce'
      BY <2>1, <2>3, <3>1, CallsUnchanged DEF Forgotten
    <3>4. QED
      BY <1>0, <1>b, <2>1, <2>3, <3>1, <3>2, <3>3, IssuedSessions
         DEF Inv, TypeOK, GuardedRoutes, SignedOutIsGone
  <2>4. QED
    BY <1>7, <2>2, <2>3 DEF ClickSignOut
<1>8. ASSUME NEW c \in Calls, GuestSignedIn(c) PROVE AllInv'
  <2>1. /\ SignIn(c, "guest", call[c].runtime) /\ call[c].kind = "guest"
        /\ pending' = pending /\ UNCHANGED consumed
    BY <1>8 DEF GuestSignedIn
  <2>2. UNCHANGED <<route, events, opened, reloads, signedOut>>
    BY <2>1 DEF SignIn, place
  <2>3. call[c].runtime \in Runtimes
    BY <1>0 DEF TypeOK, CallRecords
  <2>4. /\ issued' \in 0 .. MaxSessions /\ session' \in NoSession /\ stored' \in NoSession
        /\ page' \in Pages /\ call' \in [Calls -> CallRecords]
        /\ StorageFollows' /\ OnlyIssued' /\ RestoredOnce' /\ SignedOutIsGone'
        /\ session' = None => page' \notin Protected
    BY <2>1, <2>3, SignInKeeps DEF Kinds
  <2>5. QED
    BY <1>0, <2>1, <2>2, <2>4 DEF Inv, TypeOK, GuardedRoutes, NoSession
<1>9. ASSUME NEW c \in Calls, DeveloperSignedIn(c) PROVE AllInv'
  <2>1. /\ SignIn(c, "developer", call[c].attempt.runtime) /\ call[c].kind = "enigma"
        /\ pending' = None /\ call[c].attempt # None
        /\ consumed' = consumed \cup {call[c].attempt}
    BY <1>9 DEF DeveloperSignedIn
  <2>2. UNCHANGED <<route, events, opened, reloads, signedOut>>
    BY <2>1 DEF SignIn, place
  <2>3. call[c].attempt \in Attempts /\ call[c].attempt.runtime \in Runtimes
    BY <1>0, <2>1 DEF TypeOK, CallRecords, Attempts
  <2>4. /\ issued' \in 0 .. MaxSessions /\ session' \in NoSession /\ stored' \in NoSession
        /\ page' \in Pages /\ call' \in [Calls -> CallRecords]
        /\ StorageFollows' /\ OnlyIssued' /\ RestoredOnce' /\ SignedOutIsGone'
        /\ session' = None => page' \notin Protected
    BY <2>1, <2>3, SignInKeeps DEF Kinds
  <2>5. QED
    BY <1>0, <2>1, <2>2, <2>3, <2>4 DEF Inv, TypeOK, GuardedRoutes, NoSession
<1>10. ASSUME NEW c \in Calls, DeveloperChallenged(c) PROVE AllInv'
  <2>1. /\ call[c].kind = "developer" /\ Done(c)
        /\ opened < MaxAttempts /\ opened' = opened + 1
        /\ pending' = [id |-> opened', runtime |-> call[c].runtime]
        /\ Render(call[c].route, session, stored, pending', page)
        /\ UNCHANGED <<route, events, issued, consumed, reloads, signedOut>>
    BY <1>10 DEF DeveloperChallenged, place
  <2>2. call[c].runtime \in Runtimes
    BY <1>0 DEF TypeOK, CallRecords
  <2>3. pending' \in Attempts /\ opened' \in 0 .. MaxAttempts
    BY <1>0, <2>1, <2>2, ConstantsAssumption DEF TypeOK, Attempts
  <2>4. /\ Kept \/ Forgotten
        /\ page' \in Pages
        /\ call[c].route \in AuthRoutes /\ session' = None => page' \notin Protected
    <3>1. PICK r, asked : r = call[c].route /\ asked = pending'
      OBVIOUS
    <3>2. Render(r, session, stored, asked, page)
      BY <2>1, <3>1
    <3>3. QED
      BY <1>a, <3>1, <3>2, RenderEffect DEF Kept, Forgotten
  <2>5. call[c].route \notin AuthRoutes => session' = session /\ page' = page
    BY <2>1 DEF Render
  <2>6. session' \in {session, None} /\ stored' \in {stored, None}
    BY <2>4 DEF Kept, Forgotten
  <2>7. /\ call' \in [Calls -> CallRecords] /\ OnlyIssued' /\ RestoredOnce'
        /\ \A d \in Calls \ {c} : call'[d] = call[d]
    <3>1. \A d \in Calls : call[d].kind = "restore" =>
              call[d].session # session' /\ call[d].session \notin signedOut'
      BY <1>0, <2>1, <2>6 DEF RestoredOnce, OnlyIssued
    <3>2. Issued' = Issued
      BY <2>1 DEF Issued
    <3>3. session' \in Issued' \cup {None} /\ stored' \in Issued' \cup {None}
      BY <1>b, <2>6, <3>2
    <3>4. signedOut' \subseteq Issued' /\ issued' \in Nat /\ issued <= issued'
      BY <1>a, <1>b, <2>1, <3>2
    <3>5. QED
      BY <2>1, <3>1, <3>3, <3>4, EndedCall
  <2>8. StorageFollows'
    BY <1>0, <2>1, <2>4, <2>7, FollowsWhenKept
  <2>9. TypeOK'
    BY <1>0, <2>1, <2>3, <2>4, <2>6, <2>7 DEF TypeOK
  <2>10. GuardedRoutes'
    BY <2>1, <2>4, <2>5 DEF GuardedRoutes
  <2>11. SignedOutIsGone'
    BY <1>b, <2>1, <2>6, IssuedSessions DEF SignedOutIsGone
  <2>12. QED
    BY <2>7, <2>8, <2>9, <2>10, <2>11 DEF Inv
<1>11. ASSUME NEW c \in Calls, SignInFails(c) PROVE AllInv'
  <2>1. /\ call[c].kind \in {"guest", "developer", "enigma"} /\ Done(c)
        /\ consumed' \in {consumed, consumed \cup ({call[c].attempt} \ {None})}
        /\ UNCHANGED <<session, stored, pending, route, events, issued, opened,
                       reloads, signedOut>>
    BY <1>11 DEF SignInFails, place
  <2>2. consumed' \subseteq Attempts
    BY <1>0, <2>1 DEF TypeOK, CallRecords
  <2>3. page' \in Forms \cup {page}
    BY <1>11 DEF SignInFails, Forms
  <2>4. page' \in Pages /\ (page' = page \/ page' \notin Protected)
    BY <1>a, <2>3 DEF Pages, Forms, Protected, Workspaces, Features
  <2>5. /\ call' \in [Calls -> CallRecords] /\ OnlyIssued' /\ RestoredOnce'
        /\ \A d \in Calls \ {c} : call'[d] = call[d]
    <3>1. \A d \in Calls : call[d].kind = "restore" =>
              call[d].session # session' /\ call[d].session \notin signedOut'
      BY <1>0, <2>1 DEF RestoredOnce
    <3>2. Issued' = Issued
      BY <2>1 DEF Issued
    <3>3. QED
      BY <1>a, <1>b, <2>1, <3>1, <3>2, EndedCall
  <2>6. StorageFollows'
    BY <1>0, <2>1, <2>5, FollowsWhenKept DEF Kept
  <2>7. QED
    BY <1>0, <2>1, <2>2, <2>4, <2>5, <2>6 DEF Inv, TypeOK, GuardedRoutes, SignedOutIsGone
<1>12. ASSUME NEW c \in Calls, Restored(c) PROVE AllInv'
  <2> DEFINE back == call[c].session
  <2>1. /\ call[c].kind = "restore" /\ Done(c) /\ Render(route, back, back, pending, page)
        /\ UNCHANGED <<pending, route, events, issued, opened, consumed, reloads, signedOut>>
    BY <1>12 DEF Restored, Accepted, place, authority
  <2>2. back \in Issued /\ back # None /\ back \notin signedOut
    BY <1>0, <2>1 DEF OnlyIssued, RestoredOnce
  <2>3. \A d \in Calls \ {c} : call[d].kind = "restore" =>
            call[d].session # back /\ call[d].session # None
            /\ call[d].session \notin signedOut
    BY <1>0, <2>1 DEF OnlyIssued, RestoredOnce
  <2> HIDE DEF back
  <2>4. /\ session' = stored' /\ session' \in {back, None} /\ page' \in Pages
        /\ route \in AuthRoutes /\ session' = None => page' \notin Protected
    BY <1>a, <2>1, <2>2, RenderEffect, IssuedSessions DEF NoSession
  <2>5. Issued' = Issued
    BY <2>1 DEF Issued
  <2>6. call' \in [Calls -> CallRecords] /\ OnlyIssued' /\ RestoredOnce'
    <3>1. session' \in Issued' \cup {None} /\ stored' \in Issued' \cup {None}
      BY <2>2, <2>4, <2>5
    <3>2. signedOut' \subseteq Issued' /\ issued' \in Nat /\ issued <= issued'
      BY <1>a, <1>b, <2>1, <2>5
    <3>3. \A d \in Calls \ {c} : call[d].kind = "restore" =>
              call[d].session # session' /\ call[d].session \notin signedOut'
      BY <2>1, <2>3, <2>4
    <3>4. QED
      BY <2>1, <3>1, <3>2, <3>3, EndedCall
  <2>7. SignedOutIsGone'
    BY <1>b, <2>1, <2>2, <2>4, IssuedSessions DEF SignedOutIsGone
  <2>8. QED
    BY <1>0, <2>1, <2>2, <2>4, <2>6, <2>7, FollowsWhenTogether, IssuedSessions
       DEF Inv, TypeOK, GuardedRoutes
<1>13. ASSUME NEW c \in Calls, RestoreFails(c) PROVE AllInv'
  <2>1. /\ call[c].kind = "restore" /\ Done(c) /\ Render(route, None, None, pending, page)
        /\ UNCHANGED <<pending, route, events, issued, opened, consumed, reloads, signedOut>>
    BY <1>13 DEF RestoreFails, ClearsAndRenders, Cleared, place, authority
  <2>2. /\ session' = None /\ stored' = None /\ page' \in Pages
        /\ route \in AuthRoutes => page' \notin Protected
    BY <1>a, <2>1, RenderEffect DEF NoSession
  <2>3. Issued' = Issued
    BY <2>1 DEF Issued
  <2>4. call' \in [Calls -> CallRecords] /\ OnlyIssued' /\ RestoredOnce'
    <3>1. \A d \in Calls : call[d].kind = "restore" =>
              call[d].session # session' /\ call[d].session \notin signedOut'
      BY <1>0, <2>1, <2>2 DEF RestoredOnce, OnlyIssued
    <3>2. QED
      BY <1>a, <1>b, <2>1, <2>2, <2>3, <3>1, EndedCall
  <2>5. QED
    BY <1>0, <1>b, <2>1, <2>2, <2>4, FollowsWhenTogether, IssuedSessions
       DEF Inv, TypeOK, GuardedRoutes, SignedOutIsGone
<1>14. ASSUME NEW c \in Calls, SignedOut(c) PROVE AllInv'
  <2>1. /\ call[c].kind = "logout" /\ Done(c) /\ Navigate("gateway")
        /\ pending' = None /\ session' = None /\ stored' = None
        /\ signedOut' = signedOut \cup {call[c].session}
        /\ UNCHANGED <<issued, opened, consumed, reloads>>
    BY <1>14 DEF SignedOut, SignOutEnds, Cleared, authority
  <2>2. route' \in Routes /\ events' \in 0 .. MaxEvents /\ page' \in Pages \ Protected
    BY <1>0, <2>1, OpenPages, ConstantsAssumption DEF Navigate, TypeOK, Routes
  <2>3. call[c].session \in Issued
    BY <1>0, <2>1 DEF OnlyIssued
  <2>4. Issued' = Issued /\ signedOut' \subseteq Issued
    BY <1>b, <2>1, <2>3 DEF Issued
  <2>5. call' \in [Calls -> CallRecords] /\ OnlyIssued' /\ RestoredOnce'
    <3>1. \A d \in Calls : call[d].kind = "restore" =>
              call[d].session # session' /\ call[d].session \notin signedOut'
      <4>1. ASSUME NEW d \in Calls, call[d].kind = "restore"
            PROVE  call[d].session # None /\ call[d].session \notin signedOut
                   /\ call[d].session # call[c].session
        BY <1>0, <2>1, <4>1 DEF OnlyIssued, RestoredOnce
      <4>2. QED
        BY <2>1, <4>1
    <3>2. QED
      BY <1>a, <1>b, <2>1, <2>4, <3>1, EndedCall
  <2>6. QED
    BY <1>0, <2>1, <2>2, <2>4, <2>5, FollowsWhenTogether, IssuedSessions
       DEF Inv, TypeOK, GuardedRoutes, SignedOutIsGone
<1>15. CASE UNCHANGED vars
  BY <1>15 DEF Inv, TypeOK, StorageFollows, OnlyIssued, Issued, RestoredOnce, GuardedRoutes,
     SignedOutIsGone, vars, place, authority
<1>16. QED
  BY <1>1, <1>2, <1>4, <1>5, <1>6, <1>7, <1>8, <1>9, <1>10, <1>11, <1>12, <1>13, <1>14, <1>15
     DEF Next, Ends

LEMMA SpecInv == Spec => []AllInv
BY InitInv, NextInv, PTL DEF Spec

-----------------------------------------------------------------------------

(* What is stored is what a reload restores; the context and its storage   *)
(* part only while a restoration is on its way.                            *)
THEOREM InvHolds == Spec => []Inv
<1>1. AllInv => Inv
  BY DEF AllInv
<1>2. QED
  BY <1>1, SpecInv, PTL

(* Nothing protected is on the page of a user who is not signed in, on a   *)
(* route that needs it, whatever ends late.                                *)
THEOREM GuardedRoutesHolds == Spec => []GuardedRoutes
<1>1. AllInv => GuardedRoutes
  BY DEF AllInv
<1>2. QED
  BY <1>1, SpecInv, PTL

(* No answer and no reload brings back a session that was signed out of.   *)
THEOREM SignedOutIsGoneHolds == Spec => []SignedOutIsGone
<1>1. AllInv => SignedOutIsGone
  BY DEF AllInv
<1>2. QED
  BY <1>1, SpecInv, PTL

-----------------------------------------------------------------------------
(* The refinement of TabSession.                                           *)

(* The sessions the tab has asked the authority for.                       *)
Asked == {call[c].session : c \in {d \in Calls : call[d].kind = "restore"}}

(* Nothing is asked by a step that leaves the restorations alone.          *)
LEMMA NothingAsked ==
  ASSUME \A d \in Calls :
            \/ call'[d] = call[d]
            \/ call[d].kind # "restore" /\ call'[d].kind # "restore"
  PROVE  Asked' = Asked
<1>1. \A s : s \in Asked <=> \E d \in Calls : call[d].kind = "restore" /\ s = call[d].session
  BY DEF Asked
<1>2. \A s : s \in Asked' <=> \E d \in Calls : call'[d].kind = "restore" /\ s = call'[d].session
  BY DEF Asked
<1>3. \A s : s \in Asked' <=> s \in Asked
  BY <1>1, <1>2
<1>4. QED
  BY <1>3

LEMMA SendAsksNothing ==
  ASSUME TypeOK, NEW new \in CallRecords, new.kind # "restore", Send(new)
  PROVE  Asked' = Asked
<1>1. PICK c \in Calls : call[c] = Free /\ call' = [call EXCEPT ![c] = new]
  BY DEF Send
<1>2. call[c].kind # "restore"
  BY <1>1, CallTypes
<1>3. call'[c] = new /\ \A d \in Calls \ {c} : call'[d] = call[d]
  BY <1>1 DEF TypeOK
<1>4. QED
  BY <1>2, <1>3, NothingAsked

(* A call that ends: what it asked for is answered.                        *)
LEMMA DoneAnswers ==
  ASSUME Inv, NEW c \in Calls, Done(c)
  PROVE  /\ call[c].kind # "restore" => Asked' = Asked
         /\ call[c].kind = "restore" => /\ call[c].session \in Asked
                                        /\ Asked' = Asked \ {call[c].session}
<1>1. TypeOK /\ RestoredOnce
  BY DEF Inv
<1>2. call'[c].kind = "none" /\ \A d \in Calls \ {c} : call'[d] = call[d]
  BY <1>1, CallTypes DEF TypeOK, Done
<1>3. CASE call[c].kind # "restore"
  BY <1>2, <1>3, NothingAsked
<1>4. CASE call[c].kind = "restore"
  <2>1. \A s : s \in Asked <=> \E d \in Calls : call[d].kind = "restore" /\ s = call[d].session
    BY DEF Asked
  <2>2. \A s : s \in Asked' <=> \E d \in Calls : call'[d].kind = "restore" /\ s = call'[d].session
    BY DEF Asked
  <2>3. \A d \in Calls \ {c} : call[d].kind = "restore" => call[d].session # call[c].session
    BY <1>1, <1>4 DEF RestoredOnce
  <2>4. \A s : s \in Asked' <=> s \in Asked /\ s # call[c].session
    BY <1>2, <2>1, <2>2, <2>3
  <2>5. call[c].session \in Asked
    BY <1>4, <2>1
  <2>6. QED
    BY <1>4, <2>4, <2>5
<1>5. QED
  BY <1>3, <1>4

LEMMA TabInit == Init => Tab!Init
<1> SUFFICES ASSUME Init PROVE Tab!Init
  OBVIOUS
<1>1. \A c \in Calls : call[c].kind = "none"
  BY DEF Init, Free
<1>2. Asked = {}
  BY <1>1 DEF Asked
<1>3. QED
  BY <1>2 DEF Init, Tab!Init, Asked

(* What is rendered keeps the session, or loses it.                        *)
LEMMA TabKeepsOrForgets ==
  ASSUME Kept \/ Forgotten, Asked' = Asked, UNCHANGED <<signedOut, issued>>
  PROVE  Tab!Next \/ UNCHANGED Tab!tabVars
<1>1. CASE Kept
  BY <1>1 DEF Kept, Tab!tabVars, Asked
<1>2. CASE Forgotten
  <2>1. Tab!Forget
    BY <1>2 DEF Forgotten, Tab!Forget, Tab!Lose, Tab!Hold, Asked
  <2>2. QED
    BY <2>1 DEF Tab!Next
<1>3. QED
  BY <1>1, <1>2

LEMMA TabReopens ==
  ASSUME Inv, Reload
  PROVE  Tab!Next
<1> DEFINE asks == AboutSession("restore", stored)
<1>1. TypeOK /\ stored # None
  BY DEF Inv, Reload
<1>2. asks.kind = "restore" /\ asks.session = stored /\ Free.kind = "none"
  <2>1. stored \in Sessions
    BY <1>1 DEF TypeOK
  <2>2. QED
    BY <1>1, <2>1, CallTypes
<1>3. call' = [c \in Calls |-> IF c = 1 THEN asks ELSE Free]
  BY DEF Reload
<1> HIDE DEF asks
<1>4. 1 \in Calls
  BY ConstantsAssumption DEF Calls
<1>5. Asked' = {stored}
  BY <1>2, <1>3, <1>4 DEF Asked
<1>6. Tab!Reopen
  BY <1>1, <1>5 DEF Reload, Tab!Reopen, Asked, authority
<1>7. QED
  BY <1>6 DEF Tab!Next

LEMMA TabSignsIn ==
  ASSUME Inv, NEW c \in Calls, NEW kind \in Kinds, NEW runtime \in Runtimes,
         call[c].kind # "restore", SignIn(c, kind, runtime)
  PROVE  Tab!Next
<1> DEFINE new == [id |-> issued', kind |-> kind, runtime |-> runtime]
<1>1. issued' = issued + 1 /\ issued' \in 1 .. MaxSessions /\ Done(c) /\ signedOut' = signedOut
  BY ConstantsAssumption DEF SignIn, Inv, TypeOK
<1>2. new \in Sessions /\ new.id = issued' /\ new # None
  BY <1>1, ConstantsAssumption DEF Sessions
<1>3. Render(call[c].route, new, new, pending', page)
  BY DEF SignIn, Accepted
<1> HIDE DEF new
<1>4. \/ session' = new /\ stored' = new
      \/ session' = None /\ stored' = None
  BY <1>2, <1>3, RenderEffect DEF NoSession
<1>5. Asked' = Asked
  BY <1>1, DoneAnswers
<1>6. Tab!SignIn
  BY <1>1, <1>2, <1>4, <1>5 DEF Tab!SignIn, Tab!Lose, Tab!Hold, Asked
<1>7. QED
  BY <1>6 DEF Tab!Next

LEMMA TabResumes ==
  ASSUME Inv, NEW c \in Calls, Restored(c) \/ RestoreFails(c)
  PROVE  Tab!Next
<1>1. PICK back : back = call[c].session
  OBVIOUS
<1>2. call[c].kind = "restore" /\ Done(c) /\ UNCHANGED <<signedOut, issued>>
  BY DEF Restored, RestoreFails, authority
<1>3. back \in Asked /\ Asked' = Asked \ {back}
  BY <1>1, <1>2, DoneAnswers
<1>4. back \in NoSession
  BY <1>1 DEF Inv, TypeOK, CallRecords, NoSession
<1>5. \/ session' = back /\ stored' = back
      \/ session' = None /\ stored' = None
  <2>1. CASE Restored(c)
    <3>1. Render(route, back, back, pending, page)
      BY <1>1, <2>1 DEF Restored, Accepted
    <3>2. QED
      BY <1>4, <3>1, RenderEffect
  <2>2. CASE RestoreFails(c)
    <3>1. Render(route, None, None, pending, page)
      BY <2>2 DEF RestoreFails, ClearsAndRenders, Cleared
    <3>2. QED
      BY <3>1, RenderEffect DEF NoSession
  <2>3. QED
    BY <2>1, <2>2
<1>6. Tab!Resume(back)
  BY <1>2, <1>3, <1>5 DEF Tab!Resume, Tab!Hold, Tab!Lose, Asked
<1>7. QED
  BY <1>3, <1>6 DEF Tab!Next, Asked

LEMMA TabSignsOut ==
  ASSUME Inv, NEW c \in Calls, SignedOut(c)
  PROVE  Tab!Next
<1>1. PICK gone : gone = call[c].session
  OBVIOUS
<1>2. /\ call[c].kind = "logout" /\ Done(c) /\ session' = None /\ stored' = None
      /\ signedOut' = signedOut \cup {gone} /\ issued' = issued
  BY <1>1 DEF SignedOut, SignOutEnds, Cleared, authority
<1>3. gone # None /\ gone.id \in 1 .. issued
  <2>1. gone \in Issued /\ gone # None
    BY <1>1, <1>2 DEF Inv, OnlyIssued
  <2>2. gone.id \in Nat /\ 1 <= gone.id /\ gone.id <= issued /\ issued \in Nat
    BY <2>1, ConstantsAssumption DEF Issued, Sessions, Inv, TypeOK
  <2>3. QED
    BY <2>1, <2>2
<1>4. gone \notin Asked
  <2>1. \A d \in Calls : call[d].kind = "restore" => call[d].session # gone
    BY <1>1, <1>2 DEF Inv, RestoredOnce
  <2>2. QED
    BY <2>1 DEF Asked
<1>5. Asked' = Asked
  BY <1>2, DoneAnswers
<1>6. Tab!SignOut(gone)
  BY <1>2, <1>3, <1>4, <1>5 DEF Tab!SignOut, Tab!Hold, Tab!Lose, Asked
<1>7. QED
  BY <1>2, <1>6 DEF Tab!Next

LEMMA TabStep == Inv /\ [Next]_vars => [Tab!Next]_(Tab!tabVars)
<1> SUFFICES ASSUME Inv, [Next]_vars PROVE Tab!Next \/ UNCHANGED Tab!tabVars
  OBVIOUS
<1>0. TypeOK
  BY DEF Inv
<1>a. session \in NoSession
  BY <1>0 DEF TypeOK, NoSession
<1>1. CASE Submit
  <2>1. PICK k \in {"guest", "developer", "enigma"}, a \in Attempts \cup {None} :
            Send(Submission(k, a))
    BY <1>0, <1>1 DEF Submit, TypeOK
  <2>2. Submission(k, a) \in CallRecords /\ Submission(k, a).kind = k
    BY <1>0, CallTypes
  <2>3. Asked' = Asked
    BY <1>0, <2>1, <2>2, SendAsksNothing
  <2>4. QED
    BY <1>1, <2>3, TabKeepsOrForgets DEF Submit, Kept, authority
<1>2. CASE FollowLink \/ UNCHANGED vars
  <2>1. UNCHANGED <<session, stored, call, issued, signedOut>>
    BY <1>2 DEF FollowLink, vars, authority
  <2>2. QED
    BY <2>1, TabKeepsOrForgets DEF Kept, Asked
<1>3. ASSUME NEW r, Dispatch(r) PROVE Tab!Next \/ UNCHANGED Tab!tabVars
  <2>1. Render(r, session, stored, pending, ShellPage(r)) /\ UNCHANGED <<call, issued, signedOut>>
    BY <1>3 DEF Dispatch, authority
  <2>2. Kept \/ Forgotten
    BY <1>a, <2>1, RenderEffect DEF Kept, Forgotten
  <2>3. QED
    BY <2>1, <2>2, TabKeepsOrForgets DEF Asked
<1>4. CASE ChangeHash \/ HashChanges
  BY <1>3, <1>4 DEF ChangeHash, HashChanges
<1>5. CASE Reload
  BY <1>5, TabReopens
<1>6. CASE ClickSignOut
  <2>1. CASE session # None /\ Send(AboutSession("logout", session)) /\ Kept
    <3>1. LET new == AboutSession("logout", session)
          IN  new \in CallRecords /\ new.kind = "logout"
      BY <1>0, <1>a, <2>1, CallTypes DEF NoSession
    <3>2. Asked' = Asked
      BY <1>0, <2>1, <3>1, SendAsksNothing
    <3>3. QED
      BY <1>6, <2>1, <3>2, TabKeepsOrForgets DEF ClickSignOut, authority
  <2>2. CASE SignOutEnds /\ UNCHANGED call
    BY <1>6, <2>2, TabKeepsOrForgets
       DEF ClickSignOut, SignOutEnds, Cleared, Forgotten, Asked, authority
  <2>3. QED
    BY <1>6, <2>1, <2>2 DEF ClickSignOut, Kept
<1>7. ASSUME NEW c \in Calls, GuestSignedIn(c) PROVE Tab!Next
  <2>1. call[c].runtime \in Runtimes
    BY <1>0 DEF TypeOK, CallRecords
  <2>2. QED
    BY <1>7, <2>1, TabSignsIn DEF GuestSignedIn, Kinds
<1>8. ASSUME NEW c \in Calls, DeveloperSignedIn(c) PROVE Tab!Next
  <2>1. call[c].attempt \in Attempts /\ call[c].attempt.runtime \in Runtimes
    BY <1>0, <1>8 DEF DeveloperSignedIn, TypeOK, CallRecords, Attempts
  <2>2. QED
    BY <1>8, <2>1, TabSignsIn DEF DeveloperSignedIn, Kinds
<1>9. ASSUME NEW c \in Calls, DeveloperChallenged(c)
      PROVE  Tab!Next \/ UNCHANGED Tab!tabVars
  <2>1. /\ call[c].kind = "developer" /\ Done(c)
        /\ Render(call[c].route, session, stored, pending', page)
        /\ UNCHANGED <<issued, signedOut>>
    BY <1>9 DEF DeveloperChallenged
  <2>2. Kept \/ Forgotten
    BY <1>a, <2>1, RenderEffect DEF Kept, Forgotten
  <2>3. Asked' = Asked
    BY <2>1, DoneAnswers
  <2>4. QED
    BY <2>1, <2>2, <2>3, TabKeepsOrForgets
<1>10. ASSUME NEW c \in Calls, SignInFails(c)
       PROVE  Tab!Next \/ UNCHANGED Tab!tabVars
  <2>1. call[c].kind # "restore" /\ Done(c) /\ UNCHANGED <<session, stored, issued, signedOut>>
    BY <1>10 DEF SignInFails
  <2>2. Asked' = Asked
    BY <2>1, DoneAnswers
  <2>3. QED
    BY <2>1, <2>2, TabKeepsOrForgets DEF Kept
<1>11. ASSUME NEW c \in Calls, Restored(c) \/ RestoreFails(c) PROVE Tab!Next
  BY <1>11, TabResumes
<1>12. ASSUME NEW c \in Calls, SignedOut(c) PROVE Tab!Next
  BY <1>12, TabSignsOut
<1>13. QED
  BY <1>1, <1>2, <1>4, <1>5, <1>6, <1>7, <1>8, <1>9, <1>10, <1>11, <1>12 DEF Next, Ends

(* What TabSession promises is enough for the user: with it no session     *)
(* comes back after it was signed out of.                                  *)
TabInv ==
  /\ issued \in Nat
  /\ \A s \in signedOut \cup Asked \cup ({session, stored} \ {None}) :
        s # None /\ s.id \in 1 .. issued
  /\ session \notin signedOut /\ stored \notin signedOut
  /\ Asked \cap signedOut = {}

THEOREM TabNeverBack == Tab!Spec => []Tab!NeverBack
<1>1. Tab!Init => TabInv
  BY DEF Tab!Init, TabInv, Asked
<1>2. TabInv /\ [Tab!Next]_(Tab!tabVars) => TabInv'
  <2> SUFFICES ASSUME TabInv, Tab!Next \/ UNCHANGED Tab!tabVars PROVE TabInv'
    OBVIOUS
  <2>1. CASE Tab!SignIn
    <3>1. /\ issued' = issued + 1 /\ Asked' = Asked /\ signedOut' = signedOut
          /\ stored' = session'
          /\ session' # None => session'.id = issued'
      BY <2>1 DEF Tab!SignIn, Tab!Lose, Tab!Hold, Asked
    <3>2. issued \in Nat /\ \A n \in 1 .. issued : n \in 1 .. issued' /\ n # issued'
      BY <3>1 DEF TabInv
    <3>3. issued' \in 1 .. issued'
      BY <3>1, <3>2
    <3>4. session' \notin signedOut
      BY <3>1, <3>2 DEF TabInv
    <3>5. \A s \in signedOut' \cup Asked' \cup ({session', stored'} \ {None}) :
              s # None /\ s.id \in 1 .. issued'
      BY <3>1, <3>2, <3>3 DEF TabInv
    <3>6. QED
      BY <3>1, <3>2, <3>4, <3>5 DEF TabInv
  <2>2. CASE Tab!Forget
    BY <2>2 DEF Tab!Forget, Tab!Lose, Tab!Hold, TabInv, Asked
  <2>3. CASE Tab!Reopen
    BY <2>3 DEF Tab!Reopen, TabInv, Asked
  <2>4. ASSUME NEW s \in Asked, Tab!Resume(s) PROVE TabInv'
    BY <2>4 DEF Tab!Resume, Tab!Lose, Tab!Hold, TabInv, Asked
  <2>5. ASSUME NEW s, Tab!SignOut(s) PROVE TabInv'
    BY <2>5 DEF Tab!SignOut, Tab!Lose, Tab!Hold, TabInv, Asked
  <2>6. CASE UNCHANGED Tab!tabVars
    BY <2>6 DEF Tab!tabVars, TabInv, Asked
  <2>7. QED
    BY <2>1, <2>2, <2>3, <2>4, <2>5, <2>6 DEF Tab!Next, Asked
<1>3. TabInv => Tab!NeverBack
  BY DEF TabInv, Tab!NeverBack, Asked
<1>4. QED
  BY <1>1, <1>2, <1>3, PTL DEF Tab!Spec

(* Whatever overlaps in the tab, a session enters it by the answer to a    *)
(* login or as the stored one of its last reload, once, and leaves the     *)
(* context and the storage in one step.                                    *)
THEOREM Refinement == Spec => ImplementsTab
<1>1. AllInv => Inv
  BY DEF AllInv
<1>2. QED
  BY <1>1, TabInit, TabStep, SpecInv, PTL DEF Spec, ImplementsTab, Tab!Spec
=============================================================================
