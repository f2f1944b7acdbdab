-------------------------- MODULE AuthStoreProofs --------------------------
(***************************************************************************)
(* Theorems about AuthStore, for any tabs, any number of logins, openings,  *)
(* logouts and lost requests, and any account for each token.              *)
(***************************************************************************)
EXTENDS AuthStore, SequenceTheorems, TLAPS

\* A closed tab has no session and hears nothing: opened again, it starts from
\* what is stored.
ClosedEmpty ==
    \A t \in Tabs : page[t] = "closed" =>
        /\ held[t] = NoToken /\ user[t] = "none" /\ events[t] = <<>>
        /\ ~polling[t] /\ ~writing[t] /\ ~asking[t] /\ checks[t] = NoChecks

\* Between its two writes a tab shows the session it is writing; without an
\* overlap no other tab has written the token since, nor is one writing now.
WriterOK ==
    \A t \in Tabs : writing[t] =>
        /\ t \notin torn /\ opening[t] # initAuth
        /\ held[t] = NoToken => ~polling[t]
        /\ ~overlap => stored.token = held[t] /\ \A o \in Tabs : writing[o] => o = t

\* A tab without a listener has done nothing since it opened.
DeafOK ==
    \A t \in Tabs :
        /\ opening[t] = initAuth => Bare(t) /\ checks[t] = NoChecks
        /\ asking[t] => "main" \notin opening[t]

\* Inductive.  UserOfToken needs WriterOK at the second write, PollsWhileHolding
\* needs ClosedEmpty at Open and WriterOK at the second removal, and
\* QuietTabsAgree needs DeafOK where an event is lost.
IInv ==
    /\ TypeOK
    /\ UserOfToken
    /\ PollsWhileHolding
    /\ QuietTabsAgree
    /\ ClosedEmpty
    /\ WriterOK
    /\ DeafOK

-----------------------------------------------------------------------------
(* Sequences of events, and accounts.                                      *)

Event == {"removed", "changed"}

\* Events appended to a queue stay events, and leave it empty only if nothing was
\* there and nothing came.
LEMMA ConcatEvents ==
    ASSUME NEW s \in Seq(Event), NEW e \in Seq(Event)
    PROVE  /\ s \o e \in Seq(Event)
           /\ s \o e = <<>> => s = <<>> /\ e = <<>>
<1>1. /\ s \o e \in Seq(Event)
      /\ Len(s \o e) = Len(s) + Len(e)
  BY ConcatProperties
<1>2. Len(s) \in Nat /\ Len(e) \in Nat
  BY LenProperties
<1>3. ASSUME s \o e = <<>> PROVE s = <<>> /\ e = <<>>
  <2>1. Len(s) = 0 /\ Len(e) = 0
    BY <1>1, <1>2, <1>3, EmptySeq
  <2> QED
    BY <2>1, EmptySeq
<1> QED
  BY <1>1, <1>3

\* What logout announces is a sequence of events.
LEMMA LogoutEventsType == LogoutEvents \in Seq(Event)
<1>1. <<"removed">> \in Seq(Event)
  BY DEF Event
<1>2. << >> \in Seq(Event)
  BY EmptySeq
<1> QED
  BY <1>1, <1>2 DEF LogoutEvents

\* What the others hear of a write of tab u that announces es: every other open
\* tab has an event to come, unless nothing was announced and it was quiet.
Heard(u, es) ==
    /\ events' \in [Tabs -> Seq(Event)]
    /\ \A t \in Tabs : page[t] = "closed" => events'[t] = <<>>
    /\ \A t \in Tabs \ {u} :
          (page[t] # "closed" /\ events'[t] = <<>>) => es = <<>> /\ events[t] = <<>>

\* A write to localStorage reaches the queue of every other open tab.
LEMMA AnnounceHeard ==
    ASSUME TypeOK, ClosedEmpty, NEW u \in Tabs, NEW es \in Seq(Event), Announce(u, es)
    PROVE  Heard(u, es)
<1>1. \A t \in Tabs : events[t] \in Seq(Event)
  BY DEF TypeOK, Event
<1>2. \A t \in Tabs : /\ events[t] \o es \in Seq(Event)
                      /\ events[t] \o es = <<>> => events[t] = <<>> /\ es = <<>>
  BY <1>1, ConcatEvents
<1> QED
  BY <1>1, <1>2 DEF Announce, Live, ClosedEmpty, Heard

\* A token has an account.
LEMMA OfToken ==
    /\ Of(NoToken) = "none"
    /\ \A k \in Tokens : Of(k) \in Users /\ Of(k) # "none" /\ k # NoToken
BY AuthStoreAssumption DEF Of, Tokens, NoToken, Users

-----------------------------------------------------------------------------
(* Counting checks in flight.                                              *)

\* Sending a check keeps the counts natural numbers.
LEMMA SentType ==
    ASSUME TypeOK, NEW t \in Tabs, NEW k \in Tokens
    PROVE  /\ Sent(t, k) \in [Tabs -> [Tokens -> Nat]]
           /\ \A o \in Tabs \ {t} : Sent(t, k)[o] = checks[o]
BY DEF TypeOK, Sent

\* So does the answer of a check that was sent.
LEMMA ReceivedType ==
    ASSUME TypeOK, NEW t \in Tabs, NEW k \in Tokens, checks[t][k] > 0
    PROVE  /\ Received(t, k) \in [Tabs -> [Tokens -> Nat]]
           /\ \A o \in Tabs \ {t} : Received(t, k)[o] = checks[o]
BY DEF TypeOK, Received

\* A tab a check of which is in flight has a listener.
LEMMA CheckedListens ==
    ASSUME DeafOK, NEW t \in Tabs, NEW k \in Tokens, checks[t][k] > 0
    PROVE  opening[t] # initAuth
BY DEF DeafOK, NoChecks

\* A check is in flight in an open tab only.
LEMMA CheckedLives ==
    ASSUME ClosedEmpty, NEW t \in Tabs, NEW k \in Tokens, checks[t][k] > 0
    PROVE  page[t] # "closed"
BY DEF ClosedEmpty, NoChecks

-----------------------------------------------------------------------------
(* The ways a session changes.                                             *)

\* Tab t, which is open and listening, does something; no tab opens or closes.
Elsewhere(t) ==
    /\ page' \in [Tabs -> {"closed", "login", "profile"}]
    /\ \A o \in Tabs : page'[o] = "closed" <=> page[o] = "closed"
    /\ page[t] # "closed" /\ opening[t] # initAuth /\ opening' = opening
    /\ checks' \in [Tabs -> [Tokens -> Nat]]
    /\ \A o \in Tabs \ {t} : checks'[o] = checks[o]
    /\ asking' \in [Tabs -> BOOLEAN]
    /\ \A o \in Tabs : asking'[o] => asking[o]
    /\ dead' \subseteq Tokens
    /\ issued' \in Nat /\ inputs' \in Nat

\* The other tabs keep their sessions.
Others(t) ==
    \A o \in Tabs \ {t} :
        /\ held'[o] = held[o] /\ user'[o] = user[o] /\ polling'[o] = polling[o]

\* What a tab's step leaves alone of closed tabs and of tabs without a listener.
LEMMA ElsewhereOK ==
    ASSUME IInv, NEW t \in Tabs, Elsewhere(t), Others(t),
           \A o \in Tabs \ {t} : writing'[o] = writing[o],
           \A o \in Tabs : page[o] = "closed" => events'[o] = <<>>
    PROVE  ClosedEmpty' /\ DeafOK'
<1>1. ClosedEmpty /\ DeafOK
  BY DEF IInv
<1>2. ClosedEmpty'
  BY <1>1 DEF ClosedEmpty, Elsewhere, Others, NoChecks
<1>3. DeafOK'
  BY <1>1 DEF DeafOK, Bare, Elsewhere, Others, NoChecks
<1> QED
  BY <1>2, <1>3

\* The first write of a login with the token k, or of a logout (k is NoToken).
LEMMA WriteTokenStep ==
    ASSUME IInv, NEW t \in Tabs, NEW k \in Tokens \cup {NoToken}, NEW es,
           held' = [held EXCEPT ![t] = k], user' = [user EXCEPT ![t] = Of(k)],
           polling' \in [Tabs -> BOOLEAN], k = NoToken => ~polling'[t],
           Others(t), WriteToken(t, k), Heard(t, es), es = <<>> => k = stored.token,
           ~writing[t], Elsewhere(t)
    PROVE  IInv'
<1>1. TypeOK /\ UserOfToken /\ PollsWhileHolding /\ QuietTabsAgree /\ WriterOK
  BY DEF IInv
<1>2. /\ stored' = [stored EXCEPT !.token = k] /\ torn' = torn \ {t}
      /\ writing' = [writing EXCEPT ![t] = TRUE] /\ overlap' = (Writing # {})
  BY DEF WriteToken
<1>3. Of(k) \in Users \cup {"none"}
  BY OfToken
<1>4. TypeOK'
  BY <1>1, <1>2, <1>3 DEF TypeOK, Event, Heard, Elsewhere
<1>5. UserOfToken'
  <2>1. writing'[t]
    BY <1>1, <1>2 DEF TypeOK
  <2>2. Writing' # {}
    BY <2>1 DEF Writing
  <2>3. \A o \in Tabs \ torn' : user'[o] = Of(held'[o])
    BY <1>1, <1>2 DEF UserOfToken, TypeOK
  <2> QED
    BY <2>2, <2>3 DEF UserOfToken, Of
<1>6. PollsWhileHolding'
  BY <1>1, <1>2 DEF PollsWhileHolding, TypeOK, Bare, Others
<1>7. QuietTabsAgree'
  <2> SUFFICES ASSUME NEW o \in Tabs, page'[o] # "closed", events'[o] = <<>>, ~Bare(o)'
               PROVE  held'[o] = k
    BY <1>1, <1>2 DEF QuietTabsAgree, Live, TypeOK
  <2>1. CASE o = t
    BY <2>1, <1>1 DEF TypeOK
  <2>2. CASE o # t
    <3>1. page[o] # "closed" /\ events[o] = <<>> /\ es = <<>>
      BY <2>2 DEF Heard, Elsewhere
    <3>2. ~Bare(o)
      BY <2>2 DEF Bare, Others
    <3>3. held[o] = stored.token
      BY <3>1, <3>2, <1>1 DEF QuietTabsAgree, Live
    <3> QED
      BY <3>1, <3>3, <2>2 DEF Others
  <2> QED
    BY <2>1, <2>2
<1>8. ClosedEmpty' /\ DeafOK'
  BY <1>1, <1>2, ElsewhereOK DEF Heard, TypeOK
<1>9. WriterOK'
  <2> SUFFICES ASSUME NEW o \in Tabs, writing'[o]
               PROVE  /\ o \notin torn' /\ opening'[o] # initAuth
                      /\ held'[o] = NoToken => ~polling'[o]
                      /\ ~overlap' => stored'.token = held'[o] /\ \A u \in Tabs : writing'[u] => u = o
    BY DEF WriterOK
  <2>1. CASE o = t
    <3>1. ASSUME ~overlap', NEW u \in Tabs, writing'[u] PROVE u = t
      BY <3>1, <1>1, <1>2 DEF Writing, TypeOK
    <3> QED
      BY <2>1, <3>1, <1>1, <1>2 DEF Elsewhere, TypeOK
  <2>2. CASE o # t
    <3>1. writing[o] /\ overlap'
      BY <2>2, <1>1, <1>2 DEF Writing, TypeOK
    <3> QED
      BY <2>2, <3>1, <1>1, <1>2 DEF WriterOK, Elsewhere, Others
  <2> QED
    BY <2>1, <2>2
<1> QED
  BY <1>4, <1>5, <1>6, <1>7, <1>8, <1>9 DEF IInv

\* Logging out, from wherever it is called.
LEMMA LogoutStep ==
    ASSUME IInv, NEW t \in Tabs, Logout(t), Heard(t, LogoutEvents), ~writing[t], Elsewhere(t)
    PROVE  IInv'
<1>1. TypeOK
  BY DEF IInv
<1>2. /\ held' = [held EXCEPT ![t] = NoToken] /\ user' = [user EXCEPT ![t] = "none"]
      /\ polling' = [polling EXCEPT ![t] = FALSE] /\ WriteToken(t, NoToken)
  BY DEF Logout
<1>3. user' = [user EXCEPT ![t] = Of(NoToken)]
  BY <1>2, OfToken
<1>4. polling' \in [Tabs -> BOOLEAN] /\ ~polling'[t] /\ Others(t)
  BY <1>1, <1>2 DEF TypeOK, Others
<1>5. LogoutEvents = <<>> => NoToken = stored.token
  BY DEF LogoutEvents
<1> QED
  BY <1>2, <1>3, <1>4, <1>5, WriteTokenStep

\* The second write of a login or of a logout.
LEMMA WriteUserStep ==
    ASSUME IInv, NEW t \in Tabs, WriteUser(t), polling' \in [Tabs -> BOOLEAN],
           polling'[t] <=> held[t] # NoToken, Others(t),
           page' \in [Tabs -> {"closed", "login", "profile"}],
           \A o \in Tabs : page'[o] = "closed" <=> page[o] = "closed",
           checks' \in [Tabs -> [Tokens -> Nat]],
           \A o \in Tabs \ {t} : checks'[o] = checks[o]
    PROVE  IInv'
<1>1. /\ TypeOK /\ UserOfToken /\ PollsWhileHolding /\ QuietTabsAgree /\ ClosedEmpty
      /\ WriterOK /\ DeafOK
  BY DEF IInv
<1> DEFINE es == IF stored.user # user[t] THEN <<"changed">> ELSE <<>>
<1>2. /\ writing[t] /\ writing' = [writing EXCEPT ![t] = FALSE]
      /\ stored' = [stored EXCEPT !.user = user[t]]
      /\ Announce(t, es)
      /\ UNCHANGED <<opening, held, user, asking, overlap, dead, torn, issued, inputs>>
  BY DEF WriteUser, bounds
<1>3. es \in Seq(Event)
  <2>1. <<"changed">> \in Seq(Event) /\ << >> \in Seq(Event)
    BY EmptySeq DEF Event
  <2> QED
    BY <2>1
<1> HIDE DEF es
<1>4. Heard(t, es)
  BY <1>1, <1>2, <1>3, AnnounceHeard
<1>5. events'[t] = events[t]
  BY <1>1, <1>2 DEF Announce, TypeOK
<1>6. /\ stored'.user = user[t] /\ stored'.token = stored.token
      /\ stored' \in [token : Tokens \cup {NoToken}, user : Users \cup {"none"}]
  BY <1>1, <1>2 DEF TypeOK
<1>7. /\ t \notin torn /\ opening[t] # initAuth /\ user[t] = Of(held[t])
      /\ ~overlap => stored.token = held[t]
  BY <1>1, <1>2 DEF WriterOK, UserOfToken
<1>8. Elsewhere(t)
  BY <1>1, <1>2, <1>7 DEF Elsewhere, TypeOK, ClosedEmpty
<1>9. TypeOK'
  BY <1>1, <1>2, <1>4, <1>6, <1>8 DEF TypeOK, Event, Heard, Elsewhere
<1>10. UserOfToken'
  <2>1. ~overlap' /\ Writing' = {} => stored'.user = Of(stored'.token)
    BY <1>2, <1>6, <1>7
  <2> QED
    BY <1>1, <1>2, <2>1 DEF UserOfToken, Of
<1>11. PollsWhileHolding'
  <2> SUFFICES ASSUME NEW o \in Tabs, ~writing'[o]
               PROVE  polling'[o] <=> held'[o] # NoToken /\ ~Bare(o)'
    BY DEF PollsWhileHolding
  <2>1. CASE o = t
    BY <2>1, <1>2 DEF Bare
  <2>2. CASE o # t
    BY <2>2, <1>1, <1>2 DEF Bare, PollsWhileHolding, Others, TypeOK
  <2> QED
    BY <2>1, <2>2
<1>12. QuietTabsAgree'
  <2> SUFFICES ASSUME NEW o \in Tabs, page'[o] # "closed", events'[o] = <<>>, ~Bare(o)'
               PROVE  held[o] = stored.token
    BY <1>2, <1>6 DEF QuietTabsAgree, Live
  <2>1. page[o] # "closed" /\ events[o] = <<>>
    BY <1>4, <1>5 DEF Heard
  <2>2. ~Bare(o)
    <3>1. CASE o = t
      <4>1. held[t] # NoToken => user[t] # "none"
        BY <1>1, <1>7, OfToken DEF TypeOK
      <4> QED
        BY <3>1, <4>1 DEF Bare
    <3>2. CASE o # t
      BY <3>2, <1>2 DEF Bare, Others
    <3> QED
      BY <3>1, <3>2
  <2> QED
    BY <2>1, <2>2, <1>1 DEF QuietTabsAgree, Live
<1>13. ClosedEmpty' /\ DeafOK'
  BY <1>1, <1>2, <1>4, <1>8, ElsewhereOK DEF Heard, TypeOK
<1>14. WriterOK'
  BY <1>1, <1>2, <1>6 DEF WriterOK, Others, TypeOK
<1> QED
  BY <1>9, <1>10, <1>11, <1>12, <1>13, <1>14 DEF IInv

\* Taking over the stored session, at opening or after an event.
LEMMA TakeStep ==
    ASSUME IInv, NEW t \in Tabs, Take(t), ~writing[t],
           polling' \in [Tabs -> BOOLEAN],
           polling'[t] => stored.token # NoToken,
           ~polling'[t] => stored.token = NoToken \/ stored.user = "none",
           Others(t), UNCHANGED <<window, stored>>,
           events' \in [Tabs -> Seq(Event)],
           \A o \in Tabs \ {t} : events'[o] = events[o],
           page' \in [Tabs -> {"closed", "login", "profile"}], page'[t] # "closed",
           \A o \in Tabs \ {t} : page'[o] = page[o],
           opening' \in [Tabs -> SUBSET initAuth],
           \A o \in Tabs \ {t} : opening'[o] = opening[o],
           opening'[t] = initAuth => Bare(t)' /\ checks'[t] = NoChecks,
           asking[t] => "main" \notin opening'[t],
           checks' \in [Tabs -> [Tokens -> Nat]],
           \A o \in Tabs \ {t} : checks'[o] = checks[o],
           asking' = asking, dead' = dead, issued' = issued, inputs' \in Nat
    PROVE  IInv'
<1>1. /\ TypeOK /\ UserOfToken /\ PollsWhileHolding /\ QuietTabsAgree /\ ClosedEmpty
      /\ WriterOK /\ DeafOK
  BY DEF IInv
<1>2. /\ held' = [held EXCEPT ![t] = stored.token]
      /\ user' = [user EXCEPT ![t] = stored.user]
      /\ torn' = IF overlap \/ Writing # {} THEN torn \cup {t} ELSE torn \ {t}
      /\ stored' = stored /\ writing' = writing /\ overlap' = overlap
  BY DEF Take, window
<1>3. /\ stored.token \in Tokens \cup {NoToken} /\ stored.user \in Users \cup {"none"}
      /\ held'[t] = stored.token /\ user'[t] = stored.user
  BY <1>1, <1>2 DEF TypeOK
<1>4. torn' \subseteq Tabs /\ torn \ {t} = torn' \ {t}
  BY <1>1, <1>2 DEF TypeOK
<1>5. TypeOK'
  BY <1>1, <1>2, <1>3, <1>4 DEF TypeOK, Event
<1>6. UserOfToken'
  <2>1. ~overlap' /\ Writing' = {} => stored'.user = Of(stored'.token)
    BY <1>1, <1>2 DEF UserOfToken, Writing, Of
  <2>2. \A o \in Tabs \ torn' : user'[o] = Of(held'[o])
    <3> SUFFICES ASSUME NEW o \in Tabs, o \notin torn' PROVE user'[o] = Of(held'[o])
      OBVIOUS
    <3>1. CASE o = t
      <4>1. ~overlap /\ Writing = {}
        BY <3>1, <1>2
      <4> QED
        BY <3>1, <4>1, <1>1, <1>3 DEF UserOfToken
    <3>2. CASE o # t
      BY <3>2, <1>1, <1>2, <1>4 DEF UserOfToken, Others
    <3> QED
      BY <3>1, <3>2
  <2> QED
    BY <2>1, <2>2 DEF UserOfToken, Of
<1>7. PollsWhileHolding'
  <2> SUFFICES ASSUME NEW o \in Tabs, ~writing'[o]
               PROVE  polling'[o] <=> held'[o] # NoToken /\ ~Bare(o)'
    BY DEF PollsWhileHolding
  <2>1. CASE o = t
    BY <2>1, <1>3 DEF Bare
  <2>2. CASE o # t
    <3>1. ~writing[o] /\ (polling[o] <=> held[o] # NoToken /\ ~Bare(o))
      BY <1>1, <1>2 DEF PollsWhileHolding
    <3>2. held'[o] = held[o] /\ user'[o] = user[o] /\ polling'[o] = polling[o]
      BY <2>2 DEF Others
    <3> QED
      BY <3>1, <3>2 DEF Bare
  <2> QED
    BY <2>1, <2>2
<1>8. QuietTabsAgree'
  BY <1>1, <1>2, <1>3 DEF QuietTabsAgree, Live, Bare, Others
<1>9. ClosedEmpty'
  BY <1>1, <1>2 DEF ClosedEmpty, Others, NoChecks
<1>10. WriterOK'
  <2> SUFFICES ASSUME NEW o \in Tabs, writing'[o]
               PROVE  /\ o \notin torn' /\ opening'[o] # initAuth
                      /\ held'[o] = NoToken => ~polling'[o]
                      /\ ~overlap' => stored'.token = held'[o] /\ \A u \in Tabs : writing'[u] => u = o
    BY DEF WriterOK
  <2>1. o # t /\ writing[o]
    BY <1>2
  <2>2. /\ held'[o] = held[o] /\ polling'[o] = polling[o] /\ opening'[o] = opening[o]
        /\ (o \notin torn' <=> o \notin torn)
    BY <2>1, <1>4 DEF Others
  <2> QED
    BY <2>1, <2>2, <1>1, <1>2 DEF WriterOK
<1>11. DeafOK'
  <2> SUFFICES ASSUME NEW o \in Tabs
               PROVE  /\ opening'[o] = initAuth => Bare(o)' /\ checks'[o] = NoChecks
                      /\ asking'[o] => "main" \notin opening'[o]
    BY DEF DeafOK, NoChecks
  <2>1. CASE o = t
    BY <2>1
  <2>2. CASE o # t
    BY <2>2, <1>1 DEF DeafOK, Bare, Others
  <2> QED
    BY <2>1, <2>2
<1> QED
  BY <1>5, <1>6, <1>7, <1>8, <1>9, <1>10, <1>11 DEF IInv

\* No session and no key of localStorage changes; the checks of a tab without a
\* listener, and those of a closed tab, are left alone.
LEMMA QuietStep ==
    ASSUME IInv, UNCHANGED <<opening, session, window, stored, events, torn>>,
           page' \in [Tabs -> {"closed", "login", "profile"}],
           \A o \in Tabs : (page'[o] = "closed") <=> (page[o] = "closed"),
           checks' \in [Tabs -> [Tokens -> Nat]],
           \A o \in Tabs : page[o] = "closed" \/ opening[o] = initAuth => checks'[o] = checks[o],
           asking' \in [Tabs -> BOOLEAN],
           \A o \in Tabs : asking'[o] => asking[o] \/ (page[o] # "closed" /\ "main" \notin opening[o]),
           dead' \subseteq Tokens, issued' \in Nat, inputs' \in Nat
    PROVE  IInv'
<1>1. /\ TypeOK /\ UserOfToken /\ PollsWhileHolding /\ QuietTabsAgree /\ ClosedEmpty
      /\ WriterOK /\ DeafOK
  BY DEF IInv
<1>2. UNCHANGED <<opening, held, user, polling, writing, overlap, stored, events, torn>>
  BY DEF session, window
<1>3. TypeOK'
  BY <1>1, <1>2 DEF TypeOK
<1>4. UserOfToken' /\ PollsWhileHolding' /\ QuietTabsAgree'
  BY <1>1, <1>2 DEF UserOfToken, PollsWhileHolding, QuietTabsAgree, Live, Bare, Writing, Of
<1>5. ClosedEmpty' /\ WriterOK' /\ DeafOK'
  BY <1>1, <1>2 DEF ClosedEmpty, WriterOK, DeafOK, Bare, NoChecks
<1> QED
  BY <1>3, <1>4, <1>5 DEF IInv

-----------------------------------------------------------------------------
(* The invariant.                                                          *)

\* Before any tab is opened the invariant holds.
LEMMA InitIInv == Init => IInv
<1> SUFFICES ASSUME Init PROVE IInv
  OBVIOUS
<1>1. TypeOK
  <2>1. /\ opening \in [Tabs -> SUBSET initAuth]
        /\ stored \in [token : Tokens \cup {NoToken}, user : Users \cup {"none"}]
        /\ events \in [Tabs -> Seq({"removed", "changed"})]
    BY DEF Init
  <2>2. /\ checks \in [Tabs -> [Tokens -> Nat]]
        /\ overlap \in BOOLEAN /\ torn \subseteq Tabs /\ dead \subseteq Tokens
    BY DEF Init, NoChecks
  <2> QED
    BY <2>1, <2>2 DEF Init, TypeOK
<1>2. UserOfToken
  BY OfToken DEF Init, UserOfToken
<1>3. DeafOK /\ WriterOK /\ ClosedEmpty
  BY DEF Init, DeafOK, WriterOK, ClosedEmpty, initAuth
<1> QED
  BY <1>1, <1>2, <1>3 DEF Init, IInv, PollsWhileHolding, QuietTabsAgree, Live

\* An input is counted.
LEMMA InputCounted == TypeOK /\ Input => inputs' \in Nat
BY DEF TypeOK, Input

\* Opening a tab.
LEMMA OpenIInv == ASSUME IInv, NEW t \in Tabs, Open(t) PROVE IInv'
<1>1. TypeOK /\ ClosedEmpty
  BY DEF IInv
<1>2. /\ page[t] = "closed" /\ Input /\ Take(t)
      /\ page' = [page EXCEPT ![t] = IF isAuthenticated(t)' THEN "profile" ELSE "login"]
      /\ opening' = [opening EXCEPT ![t] =
                        IF stored.token # NoToken /\ stored.user = "none" THEN initAuth ELSE {}]
      /\ UNCHANGED <<asking, window, stored, events, dead, issued>>
  BY DEF Open
<1>3. /\ ~writing[t] /\ ~asking[t] /\ ~polling[t] /\ checks[t] = NoChecks
  BY <1>1, <1>2 DEF ClosedEmpty
<1>4. held'[t] = stored.token /\ user'[t] = stored.user
  BY <1>1, <1>2 DEF Take, TypeOK
<1>5. isAuthenticated(t)' <=> stored.token # NoToken /\ stored.user # "none"
  BY <1>4 DEF isAuthenticated
<1>6. /\ polling' \in [Tabs -> BOOLEAN]
      /\ polling'[t] <=> isAuthenticated(t)'
      /\ \A o \in Tabs \ {t} : polling'[o] = polling[o]
      /\ checks' \in [Tabs -> [Tokens -> Nat]]
      /\ \A o \in Tabs \ {t} : checks'[o] = checks[o]
      /\ ~isAuthenticated(t)' => checks'[t] = NoChecks
  <2>1. CASE isAuthenticated(t)'
    <3>1. /\ polling' = [polling EXCEPT ![t] = TRUE]
          /\ checks' = [checks EXCEPT ![t] =
                           [k \in Tokens |-> IF k = stored.token THEN @[k] + 2 ELSE @[k]]]
      BY <2>1 DEF Open
    <3> QED
      BY <2>1, <3>1, <1>1 DEF TypeOK
  <2>2. CASE ~isAuthenticated(t)'
    <3>1. polling' = polling /\ checks' = checks
      BY <2>2 DEF Open
    <3> QED
      BY <2>2, <3>1, <1>1, <1>3 DEF TypeOK
  <2> QED
    BY <2>1, <2>2
<1>7. Others(t)
  BY <1>1, <1>2, <1>6 DEF Others, Take, TypeOK
<1>8. /\ page' \in [Tabs -> {"closed", "login", "profile"}] /\ page'[t] # "closed"
      /\ \A o \in Tabs \ {t} : page'[o] = page[o]
      /\ opening' \in [Tabs -> SUBSET initAuth]
      /\ \A o \in Tabs \ {t} : opening'[o] = opening[o]
  BY <1>1, <1>2 DEF TypeOK
<1>9. opening'[t] = initAuth => Bare(t)' /\ checks'[t] = NoChecks
  <2> SUFFICES ASSUME opening'[t] = initAuth PROVE Bare(t)' /\ checks'[t] = NoChecks
    OBVIOUS
  <2>1. initAuth # {}
    BY DEF initAuth
  <2>2. stored.token # NoToken /\ stored.user = "none"
    BY <2>1, <1>1, <1>2 DEF TypeOK
  <2> QED
    BY <2>2, <1>4, <1>5, <1>6 DEF Bare
<1>10. inputs' \in Nat
  BY <1>1, <1>2, InputCounted
<1>11. events' \in [Tabs -> Seq(Event)] /\ \A o \in Tabs \ {t} : events'[o] = events[o]
  BY <1>1, <1>2 DEF TypeOK, Event
<1>12. UNCHANGED <<window, stored>> /\ asking' = asking /\ dead' = dead /\ issued' = issued
  BY <1>2
<1>13. /\ polling'[t] => stored.token # NoToken
       /\ ~polling'[t] => stored.token = NoToken \/ stored.user = "none"
  BY <1>5, <1>6
<1> QED
  BY <1>2, <1>3, <1>6, <1>7, <1>8, <1>9, <1>10, <1>11, <1>12, <1>13, TakeStep

\* The profile is refused.
LEMMA ProfileIInv ==
    ASSUME IInv, NEW t \in Tabs, NEW c \in initAuth, ProfileRefused(t, c) PROVE IInv'
<1>1. /\ TypeOK /\ UserOfToken /\ PollsWhileHolding /\ QuietTabsAgree /\ ClosedEmpty
      /\ WriterOK /\ DeafOK
  BY DEF IInv
<1>2. /\ c \in opening[t] /\ ~writing[t]
      /\ opening' = [opening EXCEPT ![t] = opening[t] \ {c}]
      /\ UNCHANGED <<page, held, user, asking, writing, overlap, stored, events, dead, torn,
                     issued, inputs>>
  BY DEF ProfileRefused, window, bounds
<1>3. /\ polling' \in [Tabs -> BOOLEAN]
      /\ polling'[t] <=> (polling[t] \/ isAuthenticated(t))
      /\ \A o \in Tabs \ {t} : polling'[o] = polling[o]
      /\ checks' \in [Tabs -> [Tokens -> Nat]]
      /\ \A o \in Tabs \ {t} : checks'[o] = checks[o]
      /\ ~isAuthenticated(t) => checks' = checks
  <2>1. CASE isAuthenticated(t)
    <3>1. polling' = [polling EXCEPT ![t] = TRUE] /\ checks' = Sent(t, held[t])
      BY <2>1 DEF ProfileRefused
    <3>2. held[t] \in Tokens
      BY <2>1, <1>1 DEF isAuthenticated, TypeOK
    <3> QED
      BY <2>1, <3>1, <3>2, <1>1, SentType DEF TypeOK
  <2>2. CASE ~isAuthenticated(t)
    <3>1. polling' = polling /\ checks' = checks
      BY <2>2 DEF ProfileRefused
    <3> QED
      BY <2>2, <3>1, <1>1 DEF TypeOK
  <2> QED
    BY <2>1, <2>2
<1>4. TypeOK'
  BY <1>1, <1>2, <1>3 DEF TypeOK
<1>5. UserOfToken'
  BY <1>1, <1>2 DEF UserOfToken, Writing, Of
<1>6. PollsWhileHolding'
  BY <1>1, <1>2, <1>3 DEF PollsWhileHolding, Bare, isAuthenticated, TypeOK
<1>7. QuietTabsAgree'
  <2>1. \A o \in Tabs : Bare(o)' => Bare(o)
    BY <1>2, <1>3 DEF Bare
  <2>2. \A o \in Tabs : Bare(o) => Bare(o)'
    BY <1>1, <1>2, <1>3 DEF Bare, isAuthenticated, TypeOK
  <2> QED
    BY <1>1, <1>2, <2>2 DEF QuietTabsAgree, Live
<1>8. page[t] # "closed" \/ ~isAuthenticated(t)
  BY <1>1 DEF ClosedEmpty, isAuthenticated
<1>9. ClosedEmpty'
  BY <1>1, <1>2, <1>3, <1>8 DEF ClosedEmpty, NoChecks, isAuthenticated
<1>10. WriterOK'
  BY <1>1, <1>2, <1>3 DEF WriterOK, TypeOK
<1>11. DeafOK'
  <2>1. opening'[t] # initAuth
    BY <1>1, <1>2 DEF TypeOK
  <2>2. asking[t] => "main" \notin opening'[t]
    BY <1>1, <1>2 DEF TypeOK, DeafOK
  <2>3. \A o \in Tabs \ {t} : opening'[o] = opening[o]
    BY <1>1, <1>2 DEF TypeOK
  <2> SUFFICES ASSUME NEW o \in Tabs
               PROVE  /\ opening'[o] = initAuth => Bare(o)' /\ checks'[o] = NoChecks
                      /\ asking'[o] => "main" \notin opening'[o]
    BY DEF DeafOK, NoChecks
  <2>4. CASE o = t
    BY <2>1, <2>2, <2>4, <1>2
  <2>5. CASE o # t
    BY <2>3, <2>5, <1>1, <1>2, <1>3 DEF DeafOK, Bare
  <2> QED
    BY <2>4, <2>5
<1> QED
  BY <1>4, <1>5, <1>6, <1>7, <1>9, <1>10, <1>11 DEF IInv

\* Closing a tab.
LEMMA CloseIInv == ASSUME IInv, NEW t \in Tabs, Close(t) PROVE IInv'
<1>1. /\ TypeOK /\ UserOfToken /\ PollsWhileHolding /\ QuietTabsAgree /\ ClosedEmpty
      /\ WriterOK /\ DeafOK
  BY DEF IInv
<1>2. /\ ~writing[t]
      /\ page' = [page EXCEPT ![t] = "closed"] /\ opening' = [opening EXCEPT ![t] = {}]
      /\ held' = [held EXCEPT ![t] = NoToken] /\ user' = [user EXCEPT ![t] = "none"]
      /\ polling' = [polling EXCEPT ![t] = FALSE] /\ checks' = [checks EXCEPT ![t] = NoChecks]
      /\ asking' = [asking EXCEPT ![t] = FALSE] /\ events' = [events EXCEPT ![t] = <<>>]
      /\ torn' = torn \ {t}
      /\ UNCHANGED <<writing, overlap, stored, dead, issued, inputs>>
  BY DEF Close, window, bounds
<1>3. TypeOK'
  BY <1>1, <1>2 DEF TypeOK, NoChecks, NoToken
<1>4. UserOfToken'
  <2>1. ~overlap' /\ Writing' = {} => stored'.user = Of(stored'.token)
    BY <1>1, <1>2 DEF UserOfToken, Writing, Of
  <2>2. \A o \in Tabs \ torn' : user'[o] = Of(held'[o])
    BY <1>1, <1>2, OfToken DEF UserOfToken, TypeOK
  <2> QED
    BY <2>1, <2>2 DEF UserOfToken, Of
<1>5. PollsWhileHolding'
  BY <1>1, <1>2 DEF TypeOK, PollsWhileHolding, Bare
<1>6. QuietTabsAgree'
  BY <1>1, <1>2 DEF TypeOK, QuietTabsAgree, Live, Bare
<1>7. ClosedEmpty'
  BY <1>1, <1>2 DEF TypeOK, ClosedEmpty, NoChecks
<1>8. WriterOK'
  BY <1>1, <1>2 DEF TypeOK, WriterOK
<1>9. DeafOK'
  BY <1>1, <1>2 DEF TypeOK, DeafOK, Bare, initAuth, NoChecks
<1> QED
  BY <1>3, <1>4, <1>5, <1>6, <1>7, <1>8, <1>9 DEF IInv

\* A storage event: lost, a removal, or a change.
LEMMA EventIInv == ASSUME IInv, NEW t \in Tabs, handleStorageEvent(t) PROVE IInv'
<1>T. /\ TypeOK /\ UserOfToken /\ PollsWhileHolding /\ QuietTabsAgree /\ ClosedEmpty
      /\ WriterOK /\ DeafOK
  BY DEF IInv
<1>1. /\ events[t] # <<>> /\ events[t] \in Seq(Event) /\ page[t] # "closed" /\ ~writing[t]
      /\ UNCHANGED <<page, opening, asking, dead, issued, inputs>>
  BY <1>T DEF handleStorageEvent, TypeOK, Event, ClosedEmpty, bounds
<1>2. Tail(events[t]) \in Seq(Event)
  BY <1>1, HeadTailProperties
<1>3. CASE ~Listening(t)
  <2>1. /\ events' = [events EXCEPT ![t] = Tail(events[t])]
        /\ UNCHANGED <<held, user, polling, checks, stored, writing, overlap, torn>>
    BY <1>3 DEF handleStorageEvent, session, window
  <2>2. Bare(t)
    BY <1>3, <1>T DEF Listening, DeafOK
  <2>3. TypeOK'
    BY <1>1, <1>2, <1>T, <2>1 DEF TypeOK, Event
  <2>4. UserOfToken' /\ PollsWhileHolding'
    BY <1>1, <1>T, <2>1 DEF UserOfToken, PollsWhileHolding, Writing, Bare, Of
  <2>5. QuietTabsAgree'
    <3>1. \A o \in Tabs : Bare(o)' <=> Bare(o)
      BY <2>1 DEF Bare
    <3> QED
      BY <1>1, <1>T, <2>1, <2>2, <3>1 DEF QuietTabsAgree, Live, TypeOK
  <2>6. ClosedEmpty' /\ WriterOK' /\ DeafOK'
    BY <1>1, <1>T, <2>1 DEF ClosedEmpty, WriterOK, DeafOK, Bare, NoChecks, TypeOK
  <2> QED
    BY <2>3, <2>4, <2>5, <2>6 DEF IInv
<1>4. CASE Listening(t) /\ Head(events[t]) = "removed"
  <2>1. /\ Logout(t) /\ UNCHANGED checks
        /\ events' = [o \in Tabs |-> IF o = t THEN Tail(events[t])
                                     ELSE IF Live(o) THEN events[o] \o LogoutEvents
                                     ELSE events[o]]
    BY <1>4 DEF handleStorageEvent
  <2>2. \A o \in Tabs : /\ events[o] \in Seq(Event)
                        /\ events[o] \o LogoutEvents \in Seq(Event)
                        /\ events[o] \o LogoutEvents = <<>> => events[o] = <<>> /\ LogoutEvents = <<>>
    BY <1>T, ConcatEvents, LogoutEventsType DEF TypeOK, Event
  <2>3. Heard(t, LogoutEvents)
    BY <2>1, <2>2, <1>1, <1>2, <1>T DEF Heard, Live, ClosedEmpty
  <2>4. Elsewhere(t)
    BY <2>1, <1>1, <1>4, <1>T DEF Elsewhere, TypeOK, Listening
  <2> QED
    BY <2>1, <2>3, <2>4, <1>1, LogoutStep
<1>5. CASE Listening(t) /\ Head(events[t]) # "removed"
  <2>1. Adopt(t) /\ events' = [events EXCEPT ![t] = Tail(events[t])]
    BY <1>5 DEF handleStorageEvent
  <2>2. /\ events' \in [Tabs -> Seq(Event)]
        /\ \A o \in Tabs \ {t} : events'[o] = events[o]
    BY <2>1, <1>2, <1>T DEF TypeOK, Event
  <2>3. UNCHANGED <<window, stored>> /\ stored' = stored /\ writing' = writing /\ overlap' = overlap
    BY <2>1 DEF Adopt, window
  <2>4. CASE stored.token # held[t]
    <3>1. Take(t) /\ Follow(t)
      BY <2>1, <2>4 DEF Adopt
    <3>2. /\ polling' = [polling EXCEPT ![t] = stored.token # NoToken]
          /\ checks' = IF stored.token # NoToken THEN Sent(t, stored.token) ELSE checks
      BY <3>1 DEF Follow
    <3>3. /\ checks' \in [Tabs -> [Tokens -> Nat]]
          /\ \A o \in Tabs \ {t} : checks'[o] = checks[o]
      <4>1. stored.token # NoToken => stored.token \in Tokens
        BY <1>T DEF TypeOK
      <4> QED
        BY <4>1, <3>2, <1>T, SentType DEF TypeOK
    <3>4. /\ polling' \in [Tabs -> BOOLEAN] /\ (polling'[t] <=> stored.token # NoToken)
          /\ \A o \in Tabs \ {t} : polling'[o] = polling[o]
      BY <3>2, <1>T DEF TypeOK
    <3>5. Others(t)
      BY <3>1, <3>4, <1>T DEF Others, Take, TypeOK
    <3>6. /\ page' \in [Tabs -> {"closed", "login", "profile"}] /\ page'[t] # "closed"
          /\ \A o \in Tabs \ {t} : page'[o] = page[o]
          /\ opening' \in [Tabs -> SUBSET initAuth]
          /\ \A o \in Tabs \ {t} : opening'[o] = opening[o]
          /\ opening'[t] # initAuth
          /\ asking[t] => "main" \notin opening'[t]
      BY <1>1, <1>5, <1>T DEF TypeOK, Listening, DeafOK
    <3>7. inputs' \in Nat
      BY <1>1, <1>T DEF TypeOK
    <3> QED
      BY <3>1, <3>3, <3>4, <3>5, <3>6, <3>7, <2>2, <2>3, <1>1, TakeStep
  <2>5. CASE stored.token = held[t]
    <3>1. UNCHANGED <<held, user, polling, checks, torn>>
      BY <2>1, <2>5 DEF Adopt, session
    <3>2. TypeOK'
      BY <3>1, <2>2, <2>3, <1>1, <1>T DEF TypeOK, Event
    <3>3. UserOfToken' /\ PollsWhileHolding'
      BY <3>1, <2>3, <1>1, <1>T DEF UserOfToken, PollsWhileHolding, Writing, Bare, Of
    <3>4. QuietTabsAgree'
      <4>1. \A o \in Tabs : Bare(o)' <=> Bare(o)
        BY <3>1 DEF Bare
      <4> QED
        BY <3>1, <2>2, <2>3, <2>5, <1>1, <1>T, <4>1 DEF QuietTabsAgree, Live
    <3>5. ClosedEmpty' /\ WriterOK' /\ DeafOK'
      BY <3>1, <2>2, <2>3, <1>1, <1>T DEF ClosedEmpty, WriterOK, DeafOK, Bare, NoChecks
    <3> QED
      BY <3>2, <3>3, <3>4, <3>5 DEF IInv
  <2> QED
    BY <2>4, <2>5
<1> QED
  BY <1>3, <1>4, <1>5

\* One step of any tab, of the gateway or of the network keeps the invariant.
LEMMA NextIInv == IInv /\ [Next]_vars => IInv'
<1> SUFFICES ASSUME IInv, [Next]_vars PROVE IInv'
  OBVIOUS
<1>T. /\ TypeOK /\ UserOfToken /\ PollsWhileHolding /\ QuietTabsAgree /\ ClosedEmpty
      /\ WriterOK /\ DeafOK
  BY DEF IInv
<1>0. ASSUME UNCHANGED vars PROVE IInv'
  BY <1>0, <1>T, QuietStep DEF vars, TypeOK, bounds
<1>1. ASSUME NEW t \in Tabs, Navigate(t) PROVE IInv'
  <2>1. /\ page' \in [Tabs -> {"closed", "login", "profile"}]
        /\ \A o \in Tabs : (page'[o] = "closed") <=> (page[o] = "closed")
    BY <1>1, <1>T DEF Navigate, Mounted, Live, TypeOK
  <2> QED
    BY <1>1, <2>1, <1>T, QuietStep DEF Navigate, TypeOK, bounds
<1>2. ASSUME NEW t \in Tabs, Submit(t) PROVE IInv'
  <2>1. /\ asking' \in [Tabs -> BOOLEAN]
        /\ \A o \in Tabs : asking'[o] => asking[o] \/ (page[o] # "closed" /\ "main" \notin opening[o])
    BY <1>2, <1>T DEF Submit, Mounted, Live, TypeOK
  <2>2. inputs' \in Nat
    BY <1>2, <1>T, InputCounted DEF Submit
  <2> QED
    BY <1>2, <2>1, <2>2, <1>T, QuietStep DEF Submit, TypeOK
<1>3. ASSUME NEW t \in Tabs, LoginFailed(t) PROVE IInv'
  <2>1. asking' \in [Tabs -> BOOLEAN] /\ \A o \in Tabs : asking'[o] => asking[o]
    BY <1>3, <1>T DEF LoginFailed, TypeOK
  <2> QED
    BY <1>3, <2>1, <1>T, QuietStep DEF LoginFailed, TypeOK, bounds
<1>4. ASSUME NEW t \in Tabs, LoggedIn(t) PROVE IInv'
  <2>1. issued' \in Tokens /\ issued' \in Nat /\ issued' # NoToken
    BY <1>4, <1>T, AuthStoreAssumption DEF LoggedIn, TypeOK, Tokens, NoToken
  <2>2. /\ asking[t] /\ ~writing[t] /\ asking' = [asking EXCEPT ![t] = FALSE]
        /\ held' = [held EXCEPT ![t] = issued'] /\ user' = [user EXCEPT ![t] = Of(issued')]
        /\ WriteToken(t, issued') /\ Announce(t, <<"changed">>)
        /\ UNCHANGED <<page, opening, polling, checks, dead, inputs>>
    BY <1>4 DEF LoggedIn
  <2> DEFINE k == issued'
  <2>3. <<"changed">> \in Seq(Event) /\ <<"changed">> # <<>>
    BY DEF Event
  <2>4. Heard(t, <<"changed">>)
    BY <2>2, <2>3, <1>T, AnnounceHeard
  <2>5. page[t] # "closed" /\ opening[t] # initAuth
    BY <2>2, <1>T DEF ClosedEmpty, DeafOK, initAuth
  <2>6. Elsewhere(t)
    BY <2>1, <2>2, <2>5, <1>T DEF Elsewhere, TypeOK
  <2>7. Others(t) /\ polling' \in [Tabs -> BOOLEAN]
    BY <2>2, <1>T DEF Others, TypeOK
  <2>8. k \in Tokens \cup {NoToken} /\ k # NoToken
    BY <2>1
  <2>9. /\ held' = [held EXCEPT ![t] = k] /\ user' = [user EXCEPT ![t] = Of(k)]
        /\ WriteToken(t, k)
    BY <2>2
  <2> HIDE DEF k
  <2> QED
    BY <2>2, <2>3, <2>4, <2>6, <2>7, <2>8, <2>9, WriteTokenStep
<1>5. ASSUME NEW t \in Tabs, LoginStored(t) PROVE IInv'
  <2>1. /\ held[t] # NoToken /\ WriteUser(t) /\ writing[t]
        /\ polling' = [polling EXCEPT ![t] = TRUE] /\ checks' = Sent(t, held[t])
        /\ page' = [page EXCEPT ![t] = "profile"]
    BY <1>5 DEF LoginStored, WriteUser
  <2>2. held[t] \in Tokens /\ page[t] # "closed"
    BY <2>1, <1>T DEF TypeOK, ClosedEmpty
  <2>3. UNCHANGED <<held, user>>
    BY <2>1 DEF WriteUser
  <2>4. /\ polling' \in [Tabs -> BOOLEAN] /\ polling'[t] /\ Others(t)
    BY <2>1, <2>3, <1>T DEF TypeOK, Others
  <2>5. /\ checks' \in [Tabs -> [Tokens -> Nat]]
        /\ \A o \in Tabs \ {t} : checks'[o] = checks[o]
    BY <2>1, <2>2, <1>T, SentType
  <2>6. /\ page' \in [Tabs -> {"closed", "login", "profile"}]
        /\ \A o \in Tabs : page'[o] = "closed" <=> page[o] = "closed"
    BY <2>1, <2>2, <1>T DEF TypeOK
  <2> QED
    BY <2>1, <2>4, <2>5, <2>6, WriteUserStep
<1>6. ASSUME NEW t \in Tabs, LogoutStored(t) PROVE IInv'
  <2>1. /\ held[t] = NoToken /\ WriteUser(t) /\ writing[t]
        /\ UNCHANGED <<page, polling, checks, held, user>>
    BY <1>6 DEF LogoutStored, WriteUser
  <2>2. ~polling[t]
    BY <2>1, <1>T DEF WriterOK
  <2>3. polling' \in [Tabs -> BOOLEAN] /\ ~polling'[t] /\ Others(t)
    BY <2>1, <2>2, <1>T DEF TypeOK, Others
  <2>4. /\ checks' \in [Tabs -> [Tokens -> Nat]]
        /\ page' \in [Tabs -> {"closed", "login", "profile"}]
    BY <2>1, <1>T DEF TypeOK
  <2> QED
    BY <2>1, <2>3, <2>4, WriteUserStep
<1>7. ASSUME NEW t \in Tabs, LogOut(t) PROVE IInv'
  <2>1. /\ Mounted(t) /\ Logout(t) /\ Announce(t, LogoutEvents)
        /\ page' = [page EXCEPT ![t] = "login"] /\ inputs' \in Nat
        /\ UNCHANGED <<opening, checks, asking, dead, issued>>
    BY <1>7, <1>T, InputCounted DEF LogOut
  <2>2. Heard(t, LogoutEvents)
    BY <2>1, <1>T, AnnounceHeard, LogoutEventsType
  <2>3. Elsewhere(t) /\ ~writing[t]
    BY <2>1, <1>T DEF Elsewhere, TypeOK, Mounted, Live, initAuth
  <2> QED
    BY <2>1, <2>2, <2>3, LogoutStep
<1>8. ASSUME NEW t \in Tabs, Tick(t) PROVE IInv'
  <2>1. held[t] \in Tokens /\ polling[t] /\ checks' = Sent(t, held[t])
    BY <1>8, <1>T DEF Tick, TypeOK
  <2>2. page[t] # "closed" /\ opening[t] # initAuth
    BY <2>1, <1>T DEF ClosedEmpty, DeafOK, Bare
  <2>3. /\ checks' \in [Tabs -> [Tokens -> Nat]]
        /\ \A o \in Tabs : page[o] = "closed" \/ opening[o] = initAuth => checks'[o] = checks[o]
    BY <2>1, <2>2, <1>T, SentType
  <2> QED
    BY <1>8, <2>3, <1>T, QuietStep DEF Tick, TypeOK, bounds
<1>9. ASSUME NEW t \in Tabs, NEW k \in Tokens, AnswerCheck(t, k) PROVE IInv'
  <2>1. /\ checks[t][k] > 0 /\ ~writing[t] /\ checks' = Received(t, k)
        /\ UNCHANGED <<page, opening, asking, dead, issued, inputs>>
    BY <1>9 DEF AnswerCheck, bounds
  <2>2. /\ checks' \in [Tabs -> [Tokens -> Nat]]
        /\ \A o \in Tabs \ {t} : checks'[o] = checks[o]
    BY <2>1, <1>T, ReceivedType
  <2>3. page[t] # "closed" /\ opening[t] # initAuth
    BY <2>1, <1>T, CheckedListens, CheckedLives
  <2>4. CASE k \in dead
    <3>1. Logout(t) /\ Announce(t, LogoutEvents)
      BY <2>4, <1>9 DEF AnswerCheck
    <3>2. Heard(t, LogoutEvents)
      BY <3>1, <1>T, AnnounceHeard, LogoutEventsType
    <3>3. Elsewhere(t)
      BY <2>1, <2>2, <2>3, <1>T DEF Elsewhere, TypeOK
    <3> QED
      BY <2>1, <3>1, <3>2, <3>3, LogoutStep
  <2>5. CASE k \notin dead
    <3>1. UNCHANGED <<session, window, stored, torn, events>>
      BY <2>5, <1>9 DEF AnswerCheck
    <3>2. \A o \in Tabs : page[o] = "closed" \/ opening[o] = initAuth => checks'[o] = checks[o]
      BY <2>2, <2>3
    <3> QED
      BY <2>1, <2>2, <3>1, <3>2, <1>T, QuietStep DEF TypeOK
  <2> QED
    BY <2>4, <2>5
<1>10. ASSUME NEW t \in Tabs, NEW k \in Tokens, CheckFailed(t, k) PROVE IInv'
  <2>1. checks[t][k] > 0 /\ checks' = Received(t, k) /\ inputs' \in Nat
    BY <1>10, <1>T, InputCounted DEF CheckFailed
  <2>2. page[t] # "closed" /\ opening[t] # initAuth
    BY <2>1, <1>T, CheckedListens, CheckedLives
  <2>3. /\ checks' \in [Tabs -> [Tokens -> Nat]]
        /\ \A o \in Tabs : page[o] = "closed" \/ opening[o] = initAuth => checks'[o] = checks[o]
    BY <2>1, <2>2, <1>T, ReceivedType
  <2> QED
    BY <1>10, <2>1, <2>3, <1>T, QuietStep DEF CheckFailed, TypeOK
<1>11. ASSUME NEW k \in Tokens, Revoke(k) PROVE IInv'
  <2>1. inputs' \in Nat
    BY <1>11, <1>T, InputCounted DEF Revoke
  <2> QED
    BY <1>11, <2>1, <1>T, QuietStep DEF Revoke, TypeOK
<1> QED
  BY <1>0, <1>1, <1>2, <1>3, <1>4, <1>5, <1>6, <1>7, <1>8, <1>9, <1>10, <1>11,
     OpenIInv, ProfileIInv, CloseIInv, EventIInv DEF Next

-----------------------------------------------------------------------------
(* Theorems.                                                               *)

\* The invariant holds in every reachable state.
LEMMA AlwaysIInv == Spec => []IInv
BY InitIInv, NextIInv, PTL DEF Spec

\* Every variable of every tab, of localStorage and of the gateway keeps its type.
THEOREM TypeCorrect == Spec => []TypeOK
<1>1. IInv => TypeOK
  BY DEF IInv
<1> QED
  BY <1>1, AlwaysIInv, PTL

\* Whatever logins, logouts, reloads and late events interleave, only a tab that
\* read localStorage between two writes, or after two tabs wrote at once, shows
\* another account than that of the token it sends.
THEOREM AlwaysUserOfToken == Spec => []UserOfToken
<1>1. IInv => UserOfToken
  BY DEF IInv
<1> QED
  BY <1>1, AlwaysIInv, PTL

\* A tab polls the gateway exactly while it holds a token, however it came by it,
\* unless it opened with a token and no user.
THEOREM AlwaysPolls == Spec => []PollsWhileHolding
<1>1. IInv => PollsWhileHolding
  BY DEF IInv
<1> QED
  BY <1>1, AlwaysIInv, PTL

\* Any number of open tabs that have heard every storage event hold one token,
\* the stored one, but for tabs that opened with a token and no user
\* (handleStorageEvent, logout, login, initAuth).
THEOREM TabsAgree == Spec => []QuietTabsAgree
<1>1. IInv => QuietTabsAgree
  BY DEF IInv
<1> QED
  BY <1>1, AlwaysIInv, PTL
=============================================================================
