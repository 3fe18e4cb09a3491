---------------------- MODULE AuthenticationExperience ----------------------
(* The sign-in of the browser application: authentication-experience.js over *)
(* auth-context.js, with the router and the shell that share its page.       *)
(* Every handler awaits the authority in its middle: calls end in any order, *)
(* with an answer or without, while the user submits, navigates, signs out   *)
(* or reloads the page.  What runs between two awaits is one step.  Of the   *)
(* authority only its answers matter here: each login gives a new session    *)
(* and an attempt gives at most one (DevelopmentAuthentication).             *)
EXTENDS Naturals

CONSTANTS
    None,           \* no session, no attempt
    MaxSessions,    \* bound of the sessions the authority issues
    MaxAttempts,    \* bound of the developer attempts it opens
    MaxCalls,       \* bound of the calls in flight
    MaxEvents,      \* bound of the hashchange events in the queue
    MaxReloads      \* bound of the reloads of the page

Kinds == {"guest", "developer"}
Runtimes == {"production", "simulation"}

Sessions == [id : 1 .. MaxSessions, kind : Kinds, runtime : Runtimes]
Attempts == [id : 1 .. MaxAttempts, runtime : Runtimes]
Calls == 1 .. MaxCalls

\* "gateway" stands for the runtime gateway and the production access page,
\* "simulation" for the simulation entry and its map.
AuthRoutes == {"guest", "developer", "novegeo"}
Routes == AuthRoutes \cup {"gateway", "simulation"}

Forms == {"guest form", "developer form", "enigma form"}
Workspaces == {"guest workspace", "developer workspace"}
Features == {"guest feature", "developer feature"}  \* NoveGeo, by its way back
Protected == Workspaces \cup Features
Pages == Forms \cup Protected \cup {"gateway", "simulation", "placeholder", "refused"}

\* The kind of a call that is not in flight is "none".
CallRecords ==
    [kind : {"none", "guest", "developer", "enigma", "restore", "logout"},
     session : Sessions \cup {None}, attempt : Attempts \cup {None},
     route : Routes, runtime : Runtimes]

Free == [kind |-> "none", session |-> None, attempt |-> None, route |-> "gateway",
         runtime |-> "production"]

ASSUME ConstantsAssumption ==
    /\ MaxSessions \in Nat /\ MaxAttempts \in Nat /\ MaxCalls \in Nat \ {0}
    /\ MaxEvents \in Nat /\ MaxReloads \in Nat
    /\ None \notin Sessions /\ None \notin Attempts

VARIABLES
    session,        \* context.session, None when not authenticated
    stored,         \* the session whose id is in sessionStorage
    pending,        \* pendingDeveloper: the attempt whose challenge is shown
    page,           \* the content of the outlet
    route,          \* router.route, and location.hash
    events,         \* hashchange events not dispatched yet
    call,           \* the calls in flight, with the route they were made on
    issued,         \* how many sessions the authority has issued
    opened,         \* how many attempts it has opened
    consumed,       \* the attempts that were consumed
    reloads,
    signedOut       \* history: the sessions the user has signed out of

place == <<route, events>>
authority == <<issued, opened, consumed>>
vars == <<session, stored, pending, page, place, call, authority,
          reloads, signedOut>>

-----------------------------------------------------------------------------
(* What the handlers do to the page and the context.                         *)

\* resolveProductionWorkspace
Workspace(s) ==
    IF s = None \/ s.runtime # "production" THEN "none" ELSE s.kind

WorkspacePage(kind) == IF kind = "guest" THEN "guest workspace" ELSE "developer workspace"

\* The way back of the feature is the guest's unless the workspace is the
\* developer's.
FeaturePage(kind) ==
    IF kind = "developer" THEN "developer feature" ELSE "guest feature"

SignInPage(r, asked) ==
    IF r = "novegeo" THEN "refused"
    ELSE IF r = "guest" THEN "guest form"
    ELSE IF asked # None THEN "enigma form" ELSE "developer form"

ShellPage(r) == IF r \in AuthRoutes THEN "placeholder" ELSE r

\* Mutated form: clear forgets the session and leaves the storage alone.
ClearedInMemory == stored

\* What the storage holds after context.clear.
Cleared == None

\* The page of an authenticated user: NoveGeo for any session, and else the
\* workspace of the session, if it has one.
HasPage(r, held) == held # None /\ (r = "novegeo" \/ Workspace(held) # "none")

SessionPage(r, held) ==
    IF r = "novegeo" THEN FeaturePage(Workspace(held)) ELSE WorkspacePage(Workspace(held))

\* render(r) with what the context holds by then, over the page "under": a
\* session that has no page there is cleared.
Render(r, held, kept, asked, under) ==
    \/ /\ r \notin AuthRoutes
       /\ session' = held /\ stored' = kept /\ page' = under
    \/ /\ r \in AuthRoutes /\ HasPage(r, held)
       /\ session' = held /\ stored' = kept /\ page' = SessionPage(r, held)
    \/ /\ r \in AuthRoutes /\ ~ HasPage(r, held)
       /\ session' = None /\ stored' = IF held = None THEN kept ELSE Cleared
       /\ page' = SignInPage(r, asked)

\* Mutated form: accept does not write the storage.
AcceptedInMemory(s) == stored

\* What the storage holds after context.accept.
Accepted(s) == s

\* router.navigate: the shell renders at once; the experience renders when the
\* event of the new hash is dispatched.
Navigate(r) ==
    /\ events < MaxEvents
    /\ route' = r /\ events' = IF r = route THEN events ELSE events + 1
    /\ page' = ShellPage(r)

-----------------------------------------------------------------------------
(* What the user does.                                                       *)

\* A call is put in the first free place.
Send(new) ==
    \E c \in Calls :
        /\ call[c] = Free /\ \A d \in Calls : d < c => call[d] # Free
        /\ call' = [call EXCEPT ![c] = new]

\* A form is submitted from a route, and under the runtime selected there.
Submission(kind, asked) ==
    [kind |-> kind, session |-> None, attempt |-> asked, route |-> route,
     runtime |-> IF route = "simulation" THEN "simulation" ELSE "production"]

\* restore and logout do not keep the route they were called on.
AboutSession(kind, s) == [Free EXCEPT !.kind = kind, !.session = s]

Submit ==
    /\ \/ page = "guest form" /\ Send(Submission("guest", None))
       \/ page = "developer form" /\ Send(Submission("developer", None))
       \/ page = "enigma form" /\ Send(Submission("enigma", pending))
    /\ UNCHANGED <<session, stored, pending, page, place, authority,
                   reloads, signedOut>>

\* The primary navigation, and the buttons of the page that is shown.
Links ==
    {"gateway", "simulation"}
    \cup {r \in Kinds : page = "gateway" \/ page = FeaturePage(r)}
    \cup {r \in {"novegeo"} : page \in Workspaces}

FollowLink ==
    /\ \E r \in Links : Navigate(r)
    /\ UNCHANGED <<session, stored, pending, call, authority, reloads, signedOut>>

\* The shell renders the page of the route, then the experience over it.
Dispatch(r) ==
    /\ route' = r
    /\ Render(r, session, stored, pending, ShellPage(r))
    /\ UNCHANGED <<pending, call, authority, reloads, signedOut>>

HashChanges == events > 0 /\ events' = events - 1 /\ Dispatch(route)

\* The address bar or the history: only its event tells the application, and
\* until then nothing that runs reads the hash.
ChangeHash == \E r \in Routes \ {route} : Dispatch(r) /\ events' = events

\* The handlers of the page are gone, with what its calls will answer.  The
\* new page renders, and asks for the session whose id was stored; a reload
\* with nothing stored is a first visit (Init).
Reload ==
    /\ stored # None /\ reloads < MaxReloads
    /\ reloads' = reloads + 1
    /\ session' = None /\ pending' = None /\ stored' = stored
    /\ route' = route /\ events' = 0
    /\ page' = IF route \in AuthRoutes THEN SignInPage(route, None) ELSE ShellPage(route)
    /\ call' = [c \in Calls |->
                  IF c = 1 THEN AboutSession("restore", stored) ELSE Free]
    /\ UNCHANGED <<authority, signedOut>>

SignOutEnds ==
    /\ pending' = None /\ session' = None /\ stored' = Cleared
    /\ Navigate("gateway")

\* The page may show a workspace when there is no session to sign out of.
ClickSignOut ==
    /\ page \in Workspaces
    /\ \/ /\ session # None
          /\ Send(AboutSession("logout", session))
          /\ UNCHANGED <<session, stored, pending, page, place>>
       \/ session = None /\ SignOutEnds /\ UNCHANGED call
    /\ UNCHANGED <<authority, reloads, signedOut>>

-----------------------------------------------------------------------------
(* The rest of each handler, when its call has ended.                        *)

Done(c) == call' = [call EXCEPT ![c] = Free]

SignIn(c, kind, runtime) ==
    /\ issued < MaxSessions
    /\ issued' = issued + 1
    /\ LET new == [id |-> issued', kind |-> kind, runtime |-> runtime]
       IN  Render(call[c].route, new, Accepted(new), pending', page)
    /\ Done(c)
    /\ UNCHANGED <<place, opened, reloads, signedOut>>

GuestSignedIn(c) ==
    /\ call[c].kind = "guest"
    /\ pending' = pending
    /\ SignIn(c, "guest", call[c].runtime)
    /\ UNCHANGED consumed

DeveloperChallenged(c) ==
    /\ call[c].kind = "developer" /\ opened < MaxAttempts
    /\ opened' = opened + 1
    /\ pending' = [id |-> opened', runtime |-> call[c].runtime]
    /\ Render(call[c].route, session, stored, pending', page)
    /\ Done(c)
    /\ UNCHANGED <<place, issued, consumed, reloads, signedOut>>

DeveloperSignedIn(c) ==
    /\ call[c].kind = "enigma"
    /\ call[c].attempt # None /\ call[c].attempt \notin consumed
    /\ consumed' = consumed \cup {call[c].attempt}
    /\ pending' = None
    /\ SignIn(c, "developer", call[c].attempt.runtime)

\* showError: the form with the error, wherever the user is by now.  The
\* authority consumes an attempt with its last try.
SignInFails(c) ==
    /\ call[c].kind \in {"guest", "developer", "enigma"}
    /\ page' = IF call[c].kind = "guest" THEN "guest form"
               ELSE IF call[c].kind = "developer" THEN "developer form"
               ELSE IF pending # None THEN "enigma form" ELSE page
    /\ consumed' \in {consumed, consumed \cup ({call[c].attempt} \ {None})}
    /\ Done(c)
    /\ UNCHANGED <<session, stored, pending, place, issued, opened,
                   reloads, signedOut>>

Restored(c) ==
    /\ call[c].kind = "restore"
    /\ Render(route, call[c].session, Accepted(call[c].session), pending, page)
    /\ Done(c)
    /\ UNCHANGED <<pending, place, authority, reloads, signedOut>>

\* Mutated forms: the page is left as it is; the error is swallowed.
ClearsOnly ==
    session' = None /\ stored' = Cleared /\ page' = page
KeepsWaiting == UNCHANGED <<session, stored, page>>

ClearsAndRenders == Render(route, None, Cleared, pending, page)

RestoreFails(c) ==
    /\ call[c].kind = "restore"
    /\ ClearsAndRenders
    /\ Done(c)
    /\ UNCHANGED <<pending, place, authority, reloads, signedOut>>

\* Answered or not, the context is cleared.
SignedOut(c) ==
    /\ call[c].kind = "logout"
    /\ SignOutEnds
    /\ signedOut' = signedOut \cup {call[c].session}
    /\ Done(c)
    /\ UNCHANGED <<authority, reloads>>

Init ==
    /\ session = None /\ stored = None /\ pending = None
    /\ route \in Routes /\ events = 0
    /\ page = IF route \in AuthRoutes THEN SignInPage(route, None) ELSE ShellPage(route)
    /\ call = [c \in Calls |-> Free]
    /\ issued = 0 /\ opened = 0 /\ consumed = {}
    /\ reloads = 0 /\ signedOut = {}

Ends(c) ==
    \/ GuestSignedIn(c) \/ DeveloperChallenged(c) \/ DeveloperSignedIn(c)
    \/ SignInFails(c) \/ Restored(c) \/ RestoreFails(c) \/ SignedOut(c)

Next ==
    \/ Submit \/ FollowLink \/ ChangeHash \/ HashChanges \/ Reload \/ ClickSignOut
    \/ \E c \in Calls : Ends(c)

\* The browser ends a call some time, with an answer or without one, and then
\* runs the rest of the handler.  Only restorations need it: nobody has to
\* answer a login, and no event has to be dispatched.
Fairness == \A c \in Calls : WF_vars(Restored(c) \/ RestoreFails(c))

Spec == Init /\ [][Next]_vars /\ Fairness

-----------------------------------------------------------------------------

TypeOK ==
    /\ session \in Sessions \cup {None} /\ stored \in Sessions \cup {None}
    /\ pending \in Attempts \cup {None}
    /\ page \in Pages /\ route \in Routes /\ events \in 0 .. MaxEvents
    /\ call \in [Calls -> CallRecords]
    /\ issued \in 0 .. MaxSessions /\ opened \in 0 .. MaxAttempts
    /\ consumed \subseteq Attempts /\ signedOut \subseteq Sessions
    /\ reloads \in 0 .. MaxReloads

\* An authenticated page is the one a reload restores; what is stored without
\* being the session is on its way to be restored or forgotten.
StorageFollows ==
    /\ session # None => stored = session
    /\ session = None /\ stored # None =>
          \E c \in Calls : call[c].kind = "restore" /\ call[c].session = stored

\* The sessions the authority has issued by now: no other is in the tab.
Issued == {s \in Sessions : s.id <= issued}
OnlyIssued ==
    /\ session \in Issued \cup {None} /\ stored \in Issued \cup {None}
    /\ signedOut \subseteq Issued
    /\ \A c \in Calls :
          /\ call[c].session \in Issued \cup {None}
          /\ call[c].kind \in {"restore", "logout"} => call[c].session # None

\* The session a restoration asks for is not in use, is not being signed out
\* of, and was not signed out of: nothing else can bring it back.
RestoredOnce ==
    \A c \in Calls : call[c].kind = "restore" =>
        /\ call[c].session # session /\ call[c].session \notin signedOut
        /\ \A d \in Calls :
              call[d].kind \in {"restore", "logout"} /\ call[d].session = call[c].session
              => d = c

\* What is stored is what a reload restores, and a restoration asks for a
\* session that nothing else in the tab uses, ends or has ended.
Inv == TypeOK /\ StorageFollows /\ OnlyIssued /\ RestoredOnce

\* On a route that needs authentication nothing protected is on the page of a
\* user who is not signed in, whatever ends late.  It says nothing of the
\* runtime: NoveGeo is shown to a session of the simulation, too.
GuardedRoutes == route \in AuthRoutes /\ session = None => page \notin Protected

\* A session the user has signed out of never comes back to this tab: not by a
\* late answer, and not by a reload, although the authority may never have
\* been told.
SignedOutIsGone == session \notin signedOut /\ stored \notin signedOut

\* However calls, reloads and the user overlap, a session enters the tab by the
\* answer to a login or, once for each reload, as the one that was stored, and
\* context and storage lose it together.
Tab == INSTANCE TabSession WITH
    current <- session,
    kept    <- stored,
    asked   <- {call[c].session : c \in {d \in Calls : call[d].kind = "restore"}},
    ended   <- signedOut

ImplementsTab == Tab!Spec

\* A stored session is accepted or forgotten: the page never stays in between.
RestoreEnds == (stored # None /\ session = None) ~> (stored = None \/ session # None)
=============================================================================
