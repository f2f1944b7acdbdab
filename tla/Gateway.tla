------------------------------ MODULE Gateway ------------------------------
(***************************************************************************)
(* api-gateway-auth: accounts, tokens and the routes in front of the other *)
(* services.  The gateway is one Node process: a handler runs to its next  *)
(* await without interruption, so an action is the code between two        *)
(* awaits of one request, and requests interleave only there.              *)
(*                                                                         *)
(* A token is the JWT string; jsonwebtoken stamps it in whole seconds, so  *)
(* two sign-ins of one account in one tick yield the same string.          *)
(***************************************************************************)
EXTENDS Naturals, FiniteSets

CONSTANTS
  Ids,          \* account ids
  Emails,       \* email addresses
  Passwords,    \* passwords as typed
  Requests,     \* requests the gateway serves at a time
  Services,     \* notification, inventory and AI/ML service
  Dtos,         \* bodies of PATCH /users/:id, each sets one column
  Routes,       \* the guarded routes that are called
  Seed,         \* the accounts table the gateway starts from
  NoRow,        \* absence of an account
  Garbage,      \* a string that is no token of this gateway
  NoToken,      \* a request body without a token
  Life,         \* lifetime of a token, in ticks
  MaxClock,     \* bound on the clock
  MaxCalls      \* bound on the requests that arrive

VARIABLES
  users,        \* table users: Ids -> row
  invalidated,  \* AuthService.invalidatedTokens, in memory
  issued,       \* the tokens handed out
  clock,
  req,          \* the requests
  sent,         \* messages of a request to the services behind the gateway
  calls,        \* requests that have arrived
  loggedOut     \* history: tokens a logout has confirmed since the start

vars == <<users, invalidated, issued, clock, req, sent, calls, loggedOut>>

Stored == [hashed : BOOLEAN, of : Passwords]
Row == [email : Emails, pw : Stored, role : {"user", "admin"}, active : BOOLEAN]
Token == [sub : Ids, email : Emails, role : {"user", "admin"}, iat : 0..MaxClock]
Strings == Token \cup {Garbage}
Dto == [field : {"email"}, value : Emails] \cup [field : {"pw"}, value : Passwords]

\* The guarded routes.  needsRole: the handler or its class carries @Roles.
\* Routes of one kind share their guards and differ only in the service call
\* behind them.
AuthRoutes == {"profile"}
UserRoutes == {"findOne", "update"}
UserAdminRoutes == {"createUser", "findAll", "remove", "assignRole", "removeRole", "setActive"}
RoleAdminRoutes == {"role create", "role findAll", "role findOne", "role update",
                    "role remove", "addPermission", "removePermission"}
ForwardRoutes == {"notifications", "inventory", "predictions", "broadcast"}
needsRole == UserAdminRoutes \cup RoleAdminRoutes

ASSUME GatewayAssumption ==
  /\ Life \in Nat \ {0} /\ MaxClock \in Nat /\ MaxCalls \in Nat
  /\ Seed \in [Ids -> Row \cup {NoRow}] /\ NoRow \notin Row
  /\ Garbage \notin Token /\ NoToken \notin Strings
  /\ Dtos \subseteq Dto
  /\ Routes \subseteq AuthRoutes \cup UserRoutes \cup ForwardRoutes \cup needsRole
  /\ \A i, j \in Ids : i # j /\ Seed[i] # NoRow /\ Seed[j] # NoRow
                         => Seed[i].email # Seed[j].email

Accounts == {i \in Ids : users[i] # NoRow}
WithEmail(e) == {i \in Accounts : users[i].email = e}

\* The local state of a request: what it was asked (tok, id, dto), what it has
\* read from the table (row), its answer, and two facts the properties are about:
\* the token had been logged out when the request began (late), and the row has
\* been saved by someone else since this request read it (dirty).
Request(pc, op, tok, id, row, dto) ==
  [pc |-> pc, op |-> op, tok |-> tok, id |-> id, row |-> row, dto |-> dto,
   reply |-> "none", late |-> FALSE, dirty |-> FALSE]
Idle == Request("idle", "none", NoToken, NoRow, NoRow, NoRow)
Asked(op, tok) == Request("idle", op, tok, NoRow, NoRow, NoRow)

\* Request q at its next step, with the row it has just read ...
Held(q, row, pc) ==
  [pc |-> pc, op |-> q.op, tok |-> q.tok, id |-> q.id, row |-> row, dto |-> q.dto,
   reply |-> "none", late |-> q.late, dirty |-> FALSE]
\* ... and answered
Answered(q, code) ==
  [pc |-> "done", op |-> q.op, tok |-> q.tok, id |-> NoRow, row |-> NoRow, dto |-> NoRow,
   reply |-> code, late |-> q.late, dirty |-> FALSE]

Init ==
  /\ users = Seed /\ invalidated = {} /\ issued = {} /\ clock = 0
  /\ req = [r \in Requests |-> Idle]
  /\ sent = [r \in Requests |-> [s \in Services |-> "none"]]
  /\ calls = 0 /\ loggedOut = {}

\* A request arrives: the slot is free and its broadcast is over
Call(r) ==
  /\ req[r].pc \in {"idle", "done"} /\ \A s \in Services : sent[r][s] # "pending"
  /\ calls < MaxCalls /\ calls' = calls + 1  \* bound
Set(r, q) == req' = [req EXCEPT ![r] = q]
Reply(r, q, code) == Set(r, Answered(q, code))

\* jwtService.verify: the signature is ours and the token has not expired
verify(t) == t \in issued /\ clock < t.iat + Life

\* generateToken signs id, email and role of the row it is given
generateToken(i, row) == [sub |-> i, email |-> row.email, role |-> row.role, iat |-> clock]

\* bcrypt.compare: a stored string that is no bcrypt hash matches nothing
validatePassword(row, p) == row.pw.hashed /\ row.pw.of = p

----------------------------------------------------------------------------
\* POST /auth/login: the account is read by email ...
Login(r, e, p) ==
  /\ Call(r)
  /\ IF \E i \in WithEmail(e) : users[i].active
     THEN \E i \in WithEmail(e) :
            Set(r, Request("compare", "login", NoToken, i, users[i], [field |-> "pw", value |-> p]))
     ELSE Reply(r, Asked("login", NoToken), "401")
  /\ UNCHANGED <<users, invalidated, issued, clock, sent, loggedOut>>

\* ... and, after the await on bcrypt, the token is made from the row read before
LoginCompare(r) ==
  LET q == req[r] IN
  /\ q.pc = "compare"
  /\ IF validatePassword(q.row, q.dto.value)
     THEN /\ issued' = issued \cup {generateToken(q.id, q.row)}
          /\ Reply(r, [q EXCEPT !.tok = generateToken(q.id, q.row)], "ok")
     ELSE /\ Reply(r, q, "401")
          /\ UNCHANGED issued
  /\ UNCHANGED <<users, invalidated, clock, sent, loggedOut, calls>>

\* POST /auth/register: UserService.create looks for the email ...
Register(r, e, p, role) ==
  /\ Call(r)
  /\ Cardinality({x \in Requests : req[x].pc = "insert"}) < Cardinality(Ids \ Accounts)  \* bound
  /\ IF WithEmail(e) # {} THEN Reply(r, Asked("register", NoToken), "409")
     ELSE LET row == [email |-> e, pw |-> [hashed |-> TRUE, of |-> p],
                      role |-> role, active |-> TRUE]
          IN Set(r, Request("insert", "register", NoToken, NoRow, row, NoRow))
  /\ UNCHANGED <<users, invalidated, issued, clock, sent, loggedOut>>

\* Mutant: the email column is not unique
RegisterSave_NotUnique(r) ==
  LET q == req[r] IN
  /\ q.pc = "insert"
  /\ \E i \in Ids \ Accounts :
       /\ users' = [users EXCEPT ![i] = q.row]
       /\ issued' = issued \cup {generateToken(i, q.row)}
       /\ Reply(r, [q EXCEPT !.tok = generateToken(i, q.row)], "ok")
  /\ UNCHANGED <<invalidated, clock, sent, loggedOut, calls>>

\* ... and inserts: the unique column refuses an email taken meanwhile
\* (BeforeInsert has hashed the password)
RegisterSave(r) ==
  LET q == req[r] IN
  /\ q.pc = "insert"
  /\ IF WithEmail(q.row.email) # {}
     THEN /\ Reply(r, q, "500")
          /\ UNCHANGED <<users, issued>>
     ELSE \E i \in Ids \ Accounts :
            /\ users' = [users EXCEPT ![i] = q.row]
            /\ issued' = issued \cup {generateToken(i, q.row)}
            /\ Reply(r, [q EXCEPT !.tok = generateToken(i, q.row)], "ok")
  /\ UNCHANGED <<invalidated, clock, sent, loggedOut, calls>>

Validation(pc, t, id) ==
  [Request(pc, "validate", t, id, NoRow, NoRow) EXCEPT !.late = t \in loggedOut]

\* Mutant: the list of invalidated tokens is not consulted
ValidateToken_NoList(r, t) ==
  /\ Call(r)
  /\ IF ~verify(t) THEN Reply(r, Validation("idle", t, NoRow), "invalid")
     ELSE Set(r, Validation("lookup", t, t.sub))
  /\ UNCHANGED <<users, invalidated, issued, clock, sent, loggedOut>>

\* POST /auth/validate-token: the list of invalidated tokens is consulted before
\* the account is looked up ...
ValidateToken(r, t) ==
  /\ Call(r)
  /\ IF t \in invalidated \/ ~verify(t)
     THEN Reply(r, Validation("idle", t, NoRow), "invalid")
     ELSE Set(r, Validation("lookup", t, t.sub))
  /\ UNCHANGED <<users, invalidated, issued, clock, sent, loggedOut>>

\* ... and not again after the await
ValidateLookup(r) ==
  LET q == req[r] IN
  /\ q.pc = "lookup"
  /\ Reply(r, q, IF q.id \in Accounts /\ users[q.id].active THEN "valid" ELSE "invalid")
  /\ UNCHANGED <<users, invalidated, issued, clock, sent, loggedOut, calls>>

\* cleanupInvalidatedTokens keeps the tokens that still verify
cleanupInvalidatedTokens(set) == {t \in set : verify(t)}

\* POST /auth/logout: invalidateToken, whose last call is the cleanup; without a
\* token the answer is a success too
Logout(r, t) ==
  /\ Call(r)
  /\ Reply(r, Asked("logout", t), "ok")
  /\ invalidated' = IF t = NoToken \/ t \in invalidated THEN invalidated
                    ELSE cleanupInvalidatedTokens(invalidated \cup {t})
  /\ loggedOut' = loggedOut \cup ({t} \cap issued)
  /\ UNCHANGED <<users, issued, clock, sent>>

\* the hourly setInterval of AuthService
Cleanup ==
  /\ invalidated' = cleanupInvalidatedTokens(invalidated)
  /\ UNCHANGED <<users, issued, clock, req, sent, loggedOut, calls>>

----------------------------------------------------------------------------
\* RolesGuard with the given request.user (NoRow: nobody has set it).  Roles()
\* stores an array, which no role equals: only the ADMIN branch lets through.
RolesGuard(route, user) == route \notin needsRole \/ (user # NoRow /\ user.role = "admin")

\* The guards run in order: the global RolesGuard (APP_GUARD) first, when passport
\* has not yet set request.user, then JwtAuthGuard, which verifies the token and
\* awaits the account of its subject.
Guarded(r, t, route, i, d) ==
  /\ Call(r)
  /\ IF RolesGuard(route, NoRow) /\ verify(t)
     THEN Set(r, Request("guard", route, t, i, NoRow, d))
     ELSE Reply(r, Asked(route, t), "401")
  /\ UNCHANGED <<users, invalidated, issued, clock, sent, loggedOut>>

\* JwtStrategy.validate, then the controller-level RolesGuard and the first lines
\* of the handler: the routes of an account are for its owner and for admins
GuardLookup(r) ==
  LET q    == req[r]
      user == users[q.tok.sub]
  IN
  /\ q.pc = "guard"
  /\ IF user = NoRow \/ ~user.active THEN Reply(r, q, "401")
     ELSE IF q.op \in UserRoutes /\ user.role # "admin" /\ q.tok.sub # q.id
          THEN Reply(r, q, "403")
     ELSE IF q.op \in AuthRoutes THEN Reply(r, q, "ok")
     ELSE Set(r, Held(q, user, IF q.op \in UserRoutes THEN "read" ELSE "forward"))
  /\ UNCHANGED <<users, invalidated, issued, clock, sent, loggedOut, calls>>

\* Mutant: update goes on with the row the guard has read
FindOne_FromGuard(r) ==
  LET q == req[r] IN
  /\ q.pc = "read"
  /\ IF q.id \notin Accounts THEN Reply(r, q, "404")
     ELSE IF q.op = "findOne" THEN Reply(r, q, "ok")
     ELSE Set(r, [q EXCEPT !.pc = IF q.dto.field = "email" /\ q.dto.value # q.row.email
                                  THEN "email" ELSE "save"])
  /\ UNCHANGED <<users, invalidated, issued, clock, sent, loggedOut, calls>>

\* UserService.findOne, for GET /users/:id and as the first step of update
FindOne(r) ==
  LET q == req[r] IN
  /\ q.pc = "read"
  /\ IF q.id \notin Accounts THEN Reply(r, q, "404")
     ELSE IF q.op = "findOne" THEN Reply(r, q, "ok")
     ELSE Set(r, Held(q, users[q.id],
                      IF q.dto.field = "email" /\ q.dto.value # users[q.id].email
                      THEN "email" ELSE "save"))
  /\ UNCHANGED <<users, invalidated, issued, clock, sent, loggedOut, calls>>

\* update looks whether the new email is taken
UpdateCheckEmail(r) ==
  LET q == req[r] IN
  /\ q.pc = "email"
  /\ IF WithEmail(q.dto.value) # {} THEN Reply(r, q, "409") ELSE Set(r, [q EXCEPT !.pc = "save"])
  /\ UNCHANGED <<users, invalidated, issued, clock, sent, loggedOut, calls>>

\* Object.assign: the new password goes into the column as it was typed
assignDto(row, d) ==
  IF d.field = "email" THEN [row EXCEPT !.email = d.value]
  ELSE [row EXCEPT !.pw = [hashed |-> FALSE, of |-> d.value]]

\* Mutant: the error of the unique column is swallowed and no answer is sent
UpdateSave_Swallow(r) ==
  LET q   == req[r]
      new == assignDto(q.row, q.dto)
  IN
  /\ q.pc = "save" /\ WithEmail(new.email) \subseteq {q.id}
  /\ users' = [users EXCEPT ![q.id] = new]
  /\ Reply(r, q, "ok")
  /\ UNCHANGED <<invalidated, issued, clock, sent, loggedOut, calls>>

\* userRepository.save writes every column of the row that update read
UpdateSave(r) ==
  LET q   == req[r]
      new == assignDto(q.row, q.dto)
  IN
  /\ q.pc = "save"
  /\ IF WithEmail(new.email) \subseteq {q.id}
     THEN /\ users' = [users EXCEPT ![q.id] = new]
          /\ req' = [x \in Requests |->
                IF x = r THEN Answered(q, "ok")
                ELSE [req[x] EXCEPT !.dirty = req[x].dirty
                        \/ (req[x].pc \in {"email", "save"} /\ req[x].id = q.id)]]
     ELSE /\ Reply(r, q, "500")
          /\ UNCHANGED users
  /\ UNCHANGED <<invalidated, issued, clock, sent, loggedOut, calls>>

----------------------------------------------------------------------------
\* The services each forwarding route writes to: all three for broadcastEvent
Targets(op) ==
  {s \in Services : \/ op \in {"broadcast", "health"}
                    \/ op = "notifications" /\ s = "notification"
                    \/ op = "inventory" /\ s = "inventory"
                    \/ op = "predictions" /\ s = "aiMl"}

Forward(r) ==
  /\ req[r].pc = "forward"
  /\ sent' = [sent EXCEPT ![r] = [s \in Services |->
                 IF s \in Targets(req[r].op) THEN "pending" ELSE "none"]]
  /\ Set(r, [req[r] EXCEPT !.pc = "wait"])
  /\ UNCHANGED <<users, invalidated, issued, clock, loggedOut, calls>>

\* GET /system/monitoring/health, without a guard: checkMicroservices pings all
HealthCheck(r) ==
  /\ Call(r)
  /\ sent' = [sent EXCEPT ![r] = [s \in Services |-> "pending"]]
  /\ Set(r, Request("wait", "health", NoToken, NoRow, NoRow, NoRow))
  /\ UNCHANGED <<users, invalidated, issued, clock, loggedOut>>

\* Mutant: the first answer settles a broadcast (Promise.race)
Settled_Race(op, s) ==
  IF \E x \in Services : s[x] = "failed" THEN "500" ELSE "ok"

\* What the answers so far make of a request: Promise.all (and a single send)
\* fails with the first failure; Promise.allSettled waits for all of them
Settled(op, s) ==
  LET pending == \E x \in Services : s[x] = "pending"
      failed  == \E x \in Services : s[x] = "failed"
  IN CASE op = "health" -> IF pending THEN "wait" ELSE IF failed THEN "503" ELSE "ok"
       [] OTHER         -> IF failed THEN "500" ELSE IF pending THEN "wait" ELSE "ok"

\* What becomes of the message to s; the rest of a broadcast goes on after its
\* request has been answered
Outcome(r, s, outcome) ==
  /\ sent[r][s] = "pending"
  /\ sent' = [sent EXCEPT ![r][s] = outcome]
  /\ IF req[r].pc = "wait" /\ Settled(req[r].op, sent'[r]) # "wait"
     THEN Reply(r, req[r], Settled(req[r].op, sent'[r]))
     ELSE UNCHANGED req
  /\ UNCHANGED <<users, invalidated, issued, clock, loggedOut, calls>>

\* send: the service answers, or the connection to it fails
Answer(r, s) ==
  /\ req[r].op # "broadcast"
  /\ \E o \in {"ok", "failed"} : Outcome(r, s, o)

\* emit: the event is written to the socket, and nobody acknowledges it, or the
\* connection cannot be made
Emit(r, s) ==
  /\ req[r].op = "broadcast"
  /\ \E o \in {"dispatched", "failed"} : Outcome(r, s, o)

----------------------------------------------------------------------------
Tick ==
  /\ clock < MaxClock
  /\ clock' = clock + 1
  /\ UNCHANGED <<users, invalidated, issued, req, sent, loggedOut, calls>>

\* The process restarts: the set of invalidated tokens is in memory only, and
\* requests under way are gone
Restart ==
  /\ invalidated' = {} /\ loggedOut' = {}
  /\ req' = [r \in Requests |-> Idle]
  /\ sent' = [r \in Requests |-> [s \in Services |-> "none"]]
  /\ UNCHANGED <<users, issued, clock, calls>>

\* The steps of a request that are under way: each follows an await that returns
Step(r) ==
  \/ LoginCompare(r) \/ RegisterSave(r) \/ ValidateLookup(r) \/ GuardLookup(r)
  \/ FindOne(r) \/ UpdateCheckEmail(r) \/ UpdateSave(r) \/ Forward(r)

Arrive(r) ==
  \/ \E e \in Emails, p \in Passwords : Login(r, e, p)
  \/ \E e \in Emails, p \in Passwords, role \in {"user", "admin"} : Register(r, e, p, role)
  \/ \E t \in issued \cup {Garbage} : ValidateToken(r, t)
  \/ \E t \in issued \cup {Garbage, NoToken} : Logout(r, t)
  \/ \E t \in issued \cup {Garbage} :
       \/ \E route \in Routes \ UserRoutes : Guarded(r, t, route, NoRow, NoRow)
       \/ \E i \in Ids : Guarded(r, t, "findOne", i, NoRow)
       \/ \E i \in Ids, d \in Dtos : Guarded(r, t, "update", i, d)
  \/ HealthCheck(r)

Next ==
  \/ \E r \in Requests : Arrive(r) \/ Step(r)
  \/ \E r \in Requests, s \in Services : Answer(r, s) \/ Emit(r, s)
  \/ Cleanup \/ Tick \/ Restart

Spec == Init /\ [][Next]_vars

\* The database and bcrypt answer; nothing makes a service behind the gateway do so
FairSpec == Spec /\ \A r \in Requests : WF_vars(Step(r))

----------------------------------------------------------------------------
(* PROPERTIES *)

\* No two accounts share an email, although register and update look for the
\* email in one step and write it in a later one (user.service.ts create, update).
UniqueEmails ==
  \A i, j \in Accounts : users[i].email = users[j].email => i = j

\* A token whose logout has been confirmed is never reported valid to a validation
\* that begins later, whatever was cleaned up and expired in between, until the
\* process restarts (auth.service.ts invalidateToken, cleanupInvalidatedTokens).
LoggedOutNeverValid ==
  \A r \in Requests : req[r].op = "validate" /\ req[r].late => req[r].reply # "valid"

\* An update nobody has overtaken changes the one column it was asked to change:
\* what other requests wrote before its second read is kept (user.service.ts update).
UpdateChangesOneColumn ==
  [][\A r \in Requests, i \in Ids :
       /\ req[r].pc = "save" /\ req'[r].pc = "done" /\ req[r].id = i
       /\ users'[i] # users[i] /\ ~req[r].dirty
       => users'[i] = assignDto(users[i], req[r].dto)]_vars

\* A health check that says "ok" has the answers of all three services, and a
\* broadcast that says so has been written to all three connections; that a
\* service got it is not known (routing.service.ts broadcastEvent,
\* monitoring.service.ts checkMicroservices).
OkMeansAll ==
  \A r \in Requests :
    /\ req[r].op = "health" /\ req[r].reply = "ok" => \A s \in Services : sent[r][s] = "ok"
    /\ req[r].op = "broadcast" /\ req[r].reply = "ok" =>
         \A s \in Services : sent[r][s] = "dispatched"

\* Every request that waits for the database or for bcrypt is answered, also when
\* the row has vanished or the unique column refuses the write.
EveryStepReplied ==
  \A r \in Requests :
    req[r].pc \notin {"idle", "done", "wait"} ~> req[r].pc \in {"idle", "done", "wait"}

\* test/user-role.e2e-spec.ts: an admin's request to an admin route is not turned
\* away as unauthenticated.
AdminServed ==
  \A r \in Requests :
    /\ req[r].op \in needsRole /\ req[r].pc = "done" /\ verify(req[r].tok)
    /\ req[r].tok.role = "admin" /\ users[req[r].tok.sub].active
    => req[r].reply # "401"
=============================================================================
