----------------------------- MODULE AuthStore -----------------------------
(***************************************************************************)
(* The session store of the auth application (frontend-auth, Pinia store   *)
(* "auth"), open in several tabs.  The tabs share localStorage and hear of *)
(* each other's writes by storage events, delivered one at a time and late;*)
(* each tab polls the gateway while it holds a token; requests are answered*)
(* in any order, or fail.                                                  *)
(*   A synchronous run of a handler up to its next await is one action,    *)
(* except that its two writes to localStorage are two steps: another tab   *)
(* may read or write the keys in between, while the writing tab does       *)
(* nothing else.                                                           *)
(*   The profile request carries no Authorization header (services/api.ts),*)
(* so the gateway refuses it and fetchProfile changes nothing.             *)
(***************************************************************************)
EXTENDS Integers, Sequences, FiniteSets

CONSTANTS
    Tabs,         \* tabs of the auth origin
    MaxLogins,    \* tokens the gateway issues
    Account,      \* the account of each token: which one logs in is the user's choice
    MaxInputs     \* openings, submits, logouts, failed checks and revocations

ASSUME AuthStoreAssumption ==
    /\ MaxLogins \in Nat /\ MaxInputs \in Nat
    /\ \A k \in 1..MaxLogins : Account[k] # "none"

VARIABLES
    page,      \* "closed", or the route a tab shows: "login" (or register), "profile"
    opening,   \* the calls of initAuth that await the profile, per tab
    held,      \* token.value of each tab
    user,      \* user.value of each tab
    polling,   \* whether authCheckInterval is set
    checks,    \* validate-token requests in flight: how many, per tab and token
    asking,    \* a login or register request of the tab is in flight
    writing,   \* the tab has written the token key and not yet the user key
    stored,    \* localStorage: token and user
    events,    \* storage events not yet delivered to each tab, in order
    dead,      \* tokens the gateway no longer accepts
    overlap,   \* history: the last write of the token key began during another tab's write
    torn,      \* history: tabs whose session was read during a write, or after overlapping ones
    issued, inputs    \* counters of the bounds

session == <<held, user, polling>>
window  == <<writing, overlap>>
bounds  == <<issued, inputs>>

vars == <<page, opening, session, checks, asking, window, stored, events,
          dead, torn, bounds>>

-----------------------------------------------------------------------------
\* A token names its account; 0 is null.
Tokens  == 1..MaxLogins
NoToken == 0
Users   == {Account[k] : k \in Tokens}
Of(k)   == IF k = NoToken THEN "none" ELSE Account[k]
NoChecks == [k \in Tokens |-> 0]

isAuthenticated(t) == held[t] # NoToken /\ user[t] # "none"

Live(t) == page[t] # "closed"

\* initAuth is called by the store and again by main.ts, which mounts the
\* application once its call returns; either call adds the listener.
initAuth == {"store", "main"}
Listening(t) == opening[t] # initAuth
Mounted(t)   == Live(t) /\ "main" \notin opening[t] /\ ~writing[t]

\* A step of the user, of the network or of the gateway, up to the bound.
Input == inputs < MaxInputs /\ inputs' = inputs + 1

\* The tabs between their two writes.
Writing == {t \in Tabs : writing[t]}

\* A write that changes a key of localStorage reaches the other open tabs:
\* "removed" is the event of the token key without a value, "changed" that of a
\* new token, of a new user or of a removed user.
Announce(self, es) ==
    events' = [t \in Tabs |-> IF t # self /\ Live(t) THEN events[t] \o es ELSE events[t]]

Sent(t, k) == [checks EXCEPT ![t] = [k2 \in Tokens |-> IF k2 = k THEN @[k2] + 1 ELSE @[k2]]]

\* The write of the token key, of which the user key follows.
WriteToken(t, k) ==
    /\ stored' = [stored EXCEPT !.token = k]
    /\ writing' = [writing EXCEPT ![t] = TRUE]
    /\ overlap' = (Writing # {})
    /\ torn' = torn \ {t}

\* logout up to its first removal, in tab t, for whatever token it holds now.
Logout(t) ==
    /\ held' = [held EXCEPT ![t] = NoToken]
    /\ user' = [user EXCEPT ![t] = "none"]
    /\ polling' = [polling EXCEPT ![t] = FALSE]
    /\ WriteToken(t, NoToken)

LogoutEvents == IF stored.token # NoToken THEN <<"removed">> ELSE <<>>

\* Tab t takes over the stored session.
Take(t) ==
    /\ held' = [held EXCEPT ![t] = stored.token]
    /\ user' = [user EXCEPT ![t] = stored.user]
    /\ torn' = IF overlap \/ Writing # {} THEN torn \cup {t} ELSE torn \ {t}

-----------------------------------------------------------------------------
Init ==
    /\ page = [t \in Tabs |-> "closed"]
    /\ opening = [t \in Tabs |-> {}]
    /\ held = [t \in Tabs |-> NoToken]
    /\ user = [t \in Tabs |-> "none"]
    /\ polling = [t \in Tabs |-> FALSE]
    /\ checks = [t \in Tabs |-> NoChecks]
    /\ asking = [t \in Tabs |-> FALSE]
    /\ writing = [t \in Tabs |-> FALSE]
    /\ stored = [token |-> NoToken, user |-> "none"]
    /\ events = [t \in Tabs |-> <<>>]
    /\ dead = {}
    /\ overlap = FALSE /\ torn = {}
    /\ issued = 0 /\ inputs = 0

\* Both calls of initAuth up to their first await, in one task, so they read the
\* same.  With a session the second call sends a second check and replaces the
\* interval of the first; with a token and no user both fetch the profile.
Open(t) ==
    /\ page[t] = "closed"
    /\ Input
    /\ Take(t)
    /\ page' = [page EXCEPT ![t] = IF isAuthenticated(t)' THEN "profile" ELSE "login"]
    /\ opening' = [opening EXCEPT ![t] =
                      IF stored.token # NoToken /\ stored.user = "none" THEN initAuth ELSE {}]
    /\ IF isAuthenticated(t)'
       THEN /\ polling' = [polling EXCEPT ![t] = TRUE]
            /\ checks' = [checks EXCEPT ![t] =
                            [k \in Tokens |-> IF k = stored.token THEN @[k] + 2 ELSE @[k]]]
       ELSE UNCHANGED <<polling, checks>>
    /\ UNCHANGED <<asking, window, stored, events, dead, issued>>

\* The profile is refused: initAuth starts the checks of a session the tab has
\* adopted meanwhile, and adds the listener if it is the first to return.
ProfileRefused(t, c) ==
    /\ c \in opening[t] /\ ~writing[t]
    /\ opening' = [opening EXCEPT ![t] = @ \ {c}]
    /\ IF isAuthenticated(t)
       THEN polling' = [polling EXCEPT ![t] = TRUE] /\ checks' = Sent(t, held[t])
       ELSE UNCHANGED <<polling, checks>>
    /\ UNCHANGED <<page, held, user, asking, window, stored, events, dead, torn, bounds>>

\* Closing the tab, or the first half of a reload.
Close(t) ==
    /\ Live(t) /\ ~writing[t]
    /\ page' = [page EXCEPT ![t] = "closed"]
    /\ opening' = [opening EXCEPT ![t] = {}]
    /\ held' = [held EXCEPT ![t] = NoToken]
    /\ user' = [user EXCEPT ![t] = "none"]
    /\ polling' = [polling EXCEPT ![t] = FALSE]
    /\ checks' = [checks EXCEPT ![t] = NoChecks]
    /\ asking' = [asking EXCEPT ![t] = FALSE]
    /\ events' = [events EXCEPT ![t] = <<>>]
    /\ torn' = torn \ {t}
    /\ UNCHANGED <<window, stored, dead, bounds>>

\* The router's guards, when the tab navigates between the two routes.
Navigate(t) ==
    /\ Mounted(t)
    /\ page' = [page EXCEPT ![t] = IF isAuthenticated(t) THEN "profile" ELSE "login"]
    /\ UNCHANGED <<opening, session, checks, asking, window, stored, events,
                   dead, torn, bounds>>

-----------------------------------------------------------------------------
(* Logging in and out.                                                     *)

\* The submit of the login or register form; its button is disabled meanwhile.
Submit(t) ==
    /\ Mounted(t) /\ page[t] = "login" /\ ~asking[t] /\ issued < MaxLogins
    /\ Input
    /\ asking' = [asking EXCEPT ![t] = TRUE]
    /\ UNCHANGED <<page, opening, session, checks, window, stored, events,
                   dead, torn, issued>>

\* login and register after their await, when the gateway issued a token, up to
\* the write of the token key.
LoggedIn(t) ==
    /\ asking[t] /\ ~writing[t] /\ issued < MaxLogins
    /\ asking' = [asking EXCEPT ![t] = FALSE]
    /\ issued' = issued + 1
    /\ held' = [held EXCEPT ![t] = issued']
    /\ user' = [user EXCEPT ![t] = Of(issued')]
    /\ WriteToken(t, issued')
    /\ Announce(t, <<"changed">>)
    /\ UNCHANGED <<page, opening, polling, checks, dead, inputs>>

\* The write of the user key, from the user the tab shows.
WriteUser(t) ==
    /\ writing[t]
    /\ writing' = [writing EXCEPT ![t] = FALSE]
    /\ stored' = [stored EXCEPT !.user = user[t]]
    /\ Announce(t, IF stored.user # user[t] THEN <<"changed">> ELSE <<>>)
    /\ UNCHANGED <<opening, held, user, asking, overlap, dead, torn, bounds>>

\* login goes on with its second write and startAuthCheck.
LoginStored(t) ==
    /\ held[t] # NoToken
    /\ WriteUser(t)
    /\ polling' = [polling EXCEPT ![t] = TRUE]
    /\ checks' = Sent(t, held[t])
    /\ page' = [page EXCEPT ![t] = "profile"]

\* logout goes on with its second removal; its request to the gateway changes
\* nothing here (Revoke).
LogoutStored(t) ==
    /\ held[t] = NoToken
    /\ WriteUser(t)
    /\ UNCHANGED <<page, polling, checks>>

\* The gateway refuses, or the network fails: error is set, the form stays.
LoginFailed(t) ==
    /\ asking[t] /\ ~writing[t]
    /\ asking' = [asking EXCEPT ![t] = FALSE]
    /\ UNCHANGED <<page, opening, session, checks, window, stored, events,
                   dead, torn, bounds>>

\* The button of the profile view, or the /logout route.
LogOut(t) ==
    /\ Mounted(t)
    /\ Input
    /\ Logout(t)
    /\ Announce(t, LogoutEvents)
    /\ page' = [page EXCEPT ![t] = "login"]
    /\ UNCHANGED <<opening, checks, asking, dead, issued>>

\* The gateway gives a token up: the request of a logout has arrived (a tab that
\* logs out sends one, and only logs its failure), the token has expired, or
\* another application logs it out.  Only a token that is in use matters.
Revoke(k) ==
    /\ k <= issued /\ k \notin dead
    /\ stored.token = k \/ \E t \in Tabs : held[t] = k \/ checks[t][k] > 0
    /\ Input
    /\ dead' = dead \cup {k}
    /\ UNCHANGED <<page, opening, session, checks, asking, window, stored, events,
                   torn, issued>>

-----------------------------------------------------------------------------
(* The periodic check.                                                     *)

\* One tick of the interval; the model lets it fire when no check of the token
\* it holds is in flight.
Tick(t) ==
    /\ polling[t] /\ held[t] # NoToken /\ ~writing[t]
    /\ checks[t][held[t]] = 0
    /\ checks' = Sent(t, held[t])
    /\ UNCHANGED <<page, opening, session, asking, window, stored, events,
                   dead, torn, bounds>>

Received(t, k) == [checks EXCEPT ![t] = [k2 \in Tokens |-> IF k2 = k THEN @[k2] - 1 ELSE @[k2]]]

AnswerCheck_Keep(t, k) ==
    /\ checks[t][k] > 0 /\ ~writing[t]
    /\ checks' = Received(t, k)
    /\ UNCHANGED <<session, window, stored, torn, events>>
    /\ UNCHANGED <<page, opening, asking, dead, bounds>>

\* validateToken after its await.
AnswerCheck(t, k) ==
    /\ checks[t][k] > 0 /\ ~writing[t]
    /\ checks' = Received(t, k)
    /\ IF k \in dead
       THEN /\ Logout(t)
            /\ Announce(t, LogoutEvents)
       ELSE UNCHANGED <<session, window, stored, torn, events>>
    /\ UNCHANGED <<page, opening, asking, dead, bounds>>

\* The request fails: the session is kept.
CheckFailed(t, k) ==
    /\ checks[t][k] > 0 /\ ~writing[t]
    /\ Input
    /\ checks' = Received(t, k)
    /\ UNCHANGED <<page, opening, session, asking, window, stored, events,
                   dead, torn, issued>>

-----------------------------------------------------------------------------
(* handleStorageEvent.                                                     *)

\* Its effect on a tab that polls, or stops polling, with the token it reads.
Follow(t) ==
    /\ polling' = [polling EXCEPT ![t] = stored.token # NoToken]
    /\ checks' = IF stored.token # NoToken THEN Sent(t, stored.token) ELSE checks

Adopt_TokenOnly(t) ==
    /\ IF stored.token # held[t]
       THEN /\ held' = [held EXCEPT ![t] = stored.token]
            /\ Follow(t)
            /\ torn' = torn \ {t}
       ELSE UNCHANGED <<held, polling, checks, torn>>
    /\ UNCHANGED <<stored, window, user>>

Adopt_NoCheck(t) ==
    /\ IF stored.token # held[t] THEN Take(t) ELSE UNCHANGED <<held, user, torn>>
    /\ UNCHANGED <<stored, window, polling, checks>>

\* What the store does with a change it hears of: it reads the token as it is
\* now and adopts one that is not its own, with the user stored at that moment.
\* While the token is its own, it does not read the user.
Adopt(t) ==
    /\ IF stored.token # held[t]
       THEN Take(t) /\ Follow(t)
       ELSE UNCHANGED <<session, checks, torn>>
    /\ UNCHANGED <<stored, window>>

handleStorageEvent_IgnoreRemoval(t) ==
    /\ events[t] # <<>> /\ ~writing[t]
    /\ IF ~Listening(t) \/ Head(events[t]) = "removed"
       THEN UNCHANGED <<session, checks, stored, window, torn>>
       ELSE Adopt(t)
    /\ events' = [events EXCEPT ![t] = Tail(@)]
    /\ UNCHANGED <<page, opening, asking, dead, bounds>>

\* An event is lost while the tab has no listener.  A removal logs the tab out,
\* whatever has been stored since.
handleStorageEvent(t) ==
    /\ events[t] # <<>> /\ ~writing[t]
    /\ LET rest == Tail(events[t])
       IN IF ~Listening(t)
          THEN /\ events' = [events EXCEPT ![t] = rest]
               /\ UNCHANGED <<session, checks, stored, window, torn>>
          ELSE IF Head(events[t]) = "removed"
          THEN /\ Logout(t)
               /\ events' = [o \in Tabs |-> IF o = t THEN rest
                                            ELSE IF Live(o) THEN events[o] \o LogoutEvents
                                            ELSE events[o]]
               /\ UNCHANGED checks
          ELSE /\ Adopt(t)
               /\ events' = [events EXCEPT ![t] = rest]
    /\ UNCHANGED <<page, opening, asking, dead, bounds>>

-----------------------------------------------------------------------------
Next ==
    \/ \E t \in Tabs :
        \/ Open(t) \/ Close(t) \/ Navigate(t)
        \/ \E c \in initAuth : ProfileRefused(t, c)
        \/ Submit(t) \/ LoginFailed(t) \/ LogOut(t)
        \/ LoggedIn(t) \/ LoginStored(t) \/ LogoutStored(t)
        \/ Tick(t)
        \/ \E k \in Tokens : AnswerCheck(t, k) \/ CheckFailed(t, k)
        \/ handleStorageEvent(t)
    \/ \E k \in Tokens : Revoke(k)

Spec == Init /\ [][Next]_vars

\* A tab's event loop: a handler it is in the middle of, its interval, its
\* storage events, its answers.
Turn(t) ==
    \/ LoginStored(t) \/ LogoutStored(t)
    \/ Tick(t)
    \/ handleStorageEvent(t)
    \/ \E k \in Tokens : AnswerCheck(t, k)

\* The event loop of an open tab keeps turning; the gateway answers what the
\* network does not fail.
FairSpec == Spec /\ \A t \in Tabs : WF_vars(Turn(t))

-----------------------------------------------------------------------------
(* Properties.                                                             *)

\* The types of the state.
TypeOK ==
    /\ page \in [Tabs -> {"closed", "login", "profile"}]
    /\ opening \in [Tabs -> SUBSET initAuth]
    /\ held \in [Tabs -> Tokens \cup {NoToken}]
    /\ user \in [Tabs -> Users \cup {"none"}]
    /\ polling \in [Tabs -> BOOLEAN]
    /\ checks \in [Tabs -> [Tokens -> Nat]]
    /\ asking \in [Tabs -> BOOLEAN]
    /\ writing \in [Tabs -> BOOLEAN]
    /\ stored \in [token : Tokens \cup {NoToken}, user : Users \cup {"none"}]
    /\ events \in [Tabs -> Seq({"removed", "changed"})]
    /\ dead \subseteq Tokens
    /\ overlap \in BOOLEAN /\ torn \subseteq Tabs
    /\ issued \in Nat /\ inputs \in Nat

\* A tab shows the account of the token it sends, and the two stored keys belong
\* together, unless a tab read them between the two writes of another or two
\* tabs wrote at once: the one way a session gets the user of another, which no
\* later event repairs while the token stays.
UserOfToken ==
    /\ ~overlap /\ Writing = {} => stored.user = Of(stored.token)
    /\ \A t \in Tabs \ torn : user[t] = Of(held[t])

\* A tab that opened with a stored token and no user.  It neither polls nor,
\* until its profile request is refused, hears of other tabs.
Bare(t) == held[t] # NoToken /\ user[t] = "none" /\ ~polling[t]

\* A tab polls the gateway exactly while it holds a token, however it came by
\* it, at its login, at opening or from another tab; only a tab that opened
\* with a token and no user holds one and does not.
PollsWhileHolding ==
    \A t \in Tabs : ~writing[t] => (polling[t] <=> held[t] # NoToken /\ ~Bare(t))

\* An open tab that has heard every storage event holds the token that is
\* stored: no order of logins, logouts and late events leaves two tabs with
\* different sessions.  A bare tab may have missed events.
QuietTabsAgree ==
    \A t \in Tabs :
        Live(t) /\ events[t] = <<>> /\ ~Bare(t) => held[t] = stored.token

\* A token the gateway no longer accepts is eventually given up by every tab
\* that is not bare, although checks may fail and events come late.
DeadIsDropped ==
    \A k \in Tokens : k \in dead ~> \A t \in Tabs : held[t] # k \/ Bare(t)
=============================================================================
