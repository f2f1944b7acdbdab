--------------------------- MODULE GatewayProofs ---------------------------
(***************************************************************************)
(* Theorems about Gateway, for any accounts, emails, passwords and services *)
(* and any number of requests that interleave at their awaits.             *)
(***************************************************************************)
EXTENDS Gateway, TLAPS

Pcs == {"idle", "done", "compare", "insert", "lookup", "guard", "read", "email", "save",
        "forward", "wait"}
Ops == {"none", "login", "register", "validate", "logout", "health", "profile", "findOne",
        "update"} \cup ForwardRoutes \cup needsRole
Codes == {"none", "ok", "401", "403", "404", "409", "500", "503", "valid", "invalid"}

\* The record of a request.
ReqRec ==
  [pc : Pcs, op : Ops, tok : Strings \cup {NoToken}, id : Ids \cup {NoRow},
   row : Row \cup {NoRow}, dto : Dto \cup {NoRow}, reply : Codes,
   late : BOOLEAN, dirty : BOOLEAN]

\* A request has what the code after its await uses.
Fits(q, is) ==
  /\ q.pc = "compare" => q.id \in Ids /\ q.row \in Row
  /\ q.pc = "insert" => q.row \in Row
  /\ q.pc = "guard" => q.tok \in is
  /\ q.pc \in {"guard", "read"} /\ q.op \in UserRoutes => q.id \in Ids
  /\ q.pc \in {"guard", "read"} /\ q.op = "update" => q.dto \in Dto
  /\ q.pc = "read" => q.op \in UserRoutes
  /\ q.pc \in {"email", "save"} => q.id \in Ids /\ q.row \in Row /\ q.dto \in Dto

\* A validation that began after its token was logged out was refused at once.
Refused(q) == q.op = "validate" /\ q.late => q.pc # "lookup" /\ q.reply # "valid"

\* The row an update has read is the row of the table, unless it was saved since.
Fresh(q, us) == q.pc \in {"email", "save"} /\ ~q.dirty => us[q.id] = q.row

OkReq(q, us, is) == q \in ReqRec /\ Fits(q, is) /\ Refused(q) /\ Fresh(q, us)

\* A logged-out token is in the list or has expired: the cleanup drops no other.
Remembered == \A t \in loggedOut : t \in invalidated \/ ~verify(t)

TablesOK ==
  /\ users \in [Ids -> Row \cup {NoRow}]
  /\ issued \subseteq Token
  /\ clock \in 0..MaxClock
  /\ loggedOut \subseteq issued

\* Inductive.
IInv ==
  /\ TablesOK /\ UniqueEmails /\ Remembered
  /\ req \in [Requests -> ReqRec]
  /\ \A r \in Requests : OkReq(req[r], users, issued)

-----------------------------------------------------------------------------
(* Requests.                                                               *)

\* An answered request needs nothing any more.
LEMMA AnsweredOk ==
  ASSUME NEW us, NEW is, NEW q, NEW code \in Codes, q.op \in Ops,
         q.tok \in Strings \cup {NoToken}, q.late \in BOOLEAN,
         q.op = "validate" /\ q.late => code # "valid"
  PROVE  OkReq(Answered(q, code), us, is)
<1> DEFINE a == Answered(q, code)
<1>1. a \in ReqRec
  BY DEF Answered, ReqRec, Pcs
<1>2. a.pc = "done" /\ a.op = q.op /\ a.late = q.late /\ a.reply = code
  BY DEF Answered
<1> QED
  BY <1>1, <1>2 DEF OkReq, Fits, Refused, Fresh

\* A request that has just arrived.
LEMMA RequestOk ==
  ASSUME NEW us, NEW is, NEW pc \in Pcs \ {"email", "save"}, NEW op \in Ops,
         NEW tok \in Strings \cup {NoToken}, NEW id \in Ids \cup {NoRow},
         NEW row \in Row \cup {NoRow}, NEW dto \in Dto \cup {NoRow},
         Fits(Request(pc, op, tok, id, row, dto), is)
  PROVE  OkReq(Request(pc, op, tok, id, row, dto), us, is)
<1> DEFINE a == Request(pc, op, tok, id, row, dto)
<1>1. a \in ReqRec
  BY DEF Request, ReqRec, Codes
<1>2. a.pc = pc /\ ~a.late
  BY DEF Request
<1> QED
  BY <1>1, <1>2 DEF OkReq, Refused, Fresh

\* A free slot is in order.
LEMMA IdleOk == ASSUME NEW us, NEW is PROVE OkReq(Idle, us, is) /\ Idle \in ReqRec
<1>1. Fits(Idle, is)
  BY DEF Fits, Idle, Request
<1> QED
  BY <1>1, RequestOk DEF Idle, Pcs, Ops, OkReq

\* A request that no other one's step touches stays in order: tokens are only added.
LEMMA StaysOk ==
  ASSUME NEW q, NEW us, NEW is, NEW js, OkReq(q, us, is), is \subseteq js
  PROVE  OkReq(q, us, js)
BY DEF OkReq, Fits

\* One request moves on and no account changes.
LEMMA MoveStep ==
  ASSUME IInv, NEW r \in Requests, NEW q, Set(r, q), OkReq(q, users, issued'),
         users' = users, issued \subseteq issued',
         TablesOK', Remembered'
  PROVE  IInv'
<1>1. req' \in [Requests -> ReqRec]
  BY DEF Set, IInv, OkReq
<1>2. \A x \in Requests : OkReq(req'[x], users, issued')
  BY StaysOk DEF Set, IInv
<1>3. UniqueEmails'
  BY DEF IInv, UniqueEmails, Accounts
<1> QED
  BY <1>1, <1>2, <1>3 DEF IInv

\* The same when tokens and the clock are left alone.
LEMMA CalmStep ==
  ASSUME IInv, NEW r \in Requests, NEW q, Set(r, q), OkReq(q, users, issued),
         UNCHANGED <<users, issued, invalidated, clock, loggedOut>>
  PROVE  IInv'
<1>1. TablesOK' /\ Remembered'
  BY DEF IInv, TablesOK, Remembered, verify
<1> QED
  BY <1>1, MoveStep

\* A request is answered, with tokens and the clock left alone.
LEMMA ReplyStep ==
  ASSUME IInv, NEW r \in Requests, NEW q, NEW code \in Codes, Reply(r, q, code),
         q.op \in Ops, q.tok \in Strings \cup {NoToken}, q.late \in BOOLEAN,
         q.op = "validate" /\ q.late => code # "valid",
         UNCHANGED <<users, issued, invalidated, clock, loggedOut>>
  PROVE  IInv'
<1>1. OkReq(Answered(q, code), users, issued)
  BY AnsweredOk
<1> QED
  BY <1>1, CalmStep DEF Reply

\* So is one that arrives and is answered at once.
LEMMA AskedReply ==
  ASSUME IInv, NEW r \in Requests, NEW op \in Ops \ {"validate"},
         NEW tok \in Strings \cup {NoToken}, NEW code \in Codes,
         Reply(r, Asked(op, tok), code),
         UNCHANGED <<users, issued, invalidated, clock, loggedOut>>
  PROVE  IInv'
<1> DEFINE q == Asked(op, tok)
<1>1. q.op = op /\ q.tok = tok /\ q.late = FALSE
  BY DEF Asked, Request
<1> HIDE DEF q
<1> QED
  BY <1>1, ReplyStep DEF q

\* A token is added to those handed out: no logged-out token comes back.
LEMMA IssueTables ==
  ASSUME IInv, NEW t \in Token, issued' = issued \cup {t},
         users' \in [Ids -> Row \cup {NoRow}], UNCHANGED <<invalidated, clock, loggedOut>>
  PROVE  TablesOK' /\ Remembered'
BY DEF IInv, TablesOK, Remembered, verify

\* generateToken makes a token.
LEMMA TokenType ==
  ASSUME TablesOK, NEW i \in Ids, NEW row \in Row
  PROVE  generateToken(i, row) \in Token
BY DEF TablesOK, generateToken, Token, Row

-----------------------------------------------------------------------------
(* The steps of accounts and tokens.                                       *)

\* Reading the account for a login, or refusing it.
LEMMA LoginIInv ==
  ASSUME IInv, NEW r \in Requests, NEW e \in Emails, NEW p \in Passwords, Login(r, e, p)
  PROVE  IInv'
<1> DEFINE d == [field |-> "pw", value |-> p]
<1>1. CASE \E i \in WithEmail(e) : users[i].active
  <2>1. PICK i \in WithEmail(e) : Set(r, Request("compare", "login", NoToken, i, users[i], d))
    BY <1>1 DEF Login
  <2>2. i \in Ids /\ users[i] \in Row
    BY DEF WithEmail, Accounts, IInv, TablesOK
  <2>3. d \in Dto
    BY DEF Dto
  <2>4. Fits(Request("compare", "login", NoToken, i, users[i], d), issued)
    BY <2>2 DEF Fits, Request
  <2>5. OkReq(Request("compare", "login", NoToken, i, users[i], d), users, issued)
    BY <2>2, <2>3, <2>4, RequestOk DEF Pcs, Ops
  <2> QED
    BY <2>1, <2>5, CalmStep DEF Login
<1>2. CASE ~ \E i \in WithEmail(e) : users[i].active
  BY <1>2, AskedReply DEF Login, Ops, Codes
<1> QED
  BY <1>1, <1>2

\* The password is compared with the row read before.
LEMMA LoginCompareIInv ==
  ASSUME IInv, NEW r \in Requests, LoginCompare(r)
  PROVE  IInv'
<1> DEFINE q == req[r]
           t == generateToken(q.id, q.row)
<1>1. q \in ReqRec /\ q.id \in Ids /\ q.row \in Row /\ q.pc = "compare"
  BY DEF LoginCompare, IInv, OkReq, Fits
<1>2. CASE validatePassword(q.row, q.dto.value)
  <2>1. issued' = issued \cup {t} /\ Reply(r, [q EXCEPT !.tok = t], "ok")
        /\ UNCHANGED <<users, invalidated, clock, loggedOut>>
    BY <1>2 DEF LoginCompare
  <2>2. t \in Token
    BY <1>1, TokenType DEF IInv
  <2>3. TablesOK' /\ Remembered'
    BY <2>1, <2>2, IssueTables DEF IInv, TablesOK
  <2>4. OkReq(Answered([q EXCEPT !.tok = t], "ok"), users, issued')
    <3>1. /\ [q EXCEPT !.tok = t].op \in Ops /\ [q EXCEPT !.tok = t].late \in BOOLEAN
          /\ [q EXCEPT !.tok = t].tok \in Strings \cup {NoToken}
      BY <1>1, <2>2 DEF ReqRec, Strings
    <3> QED
      BY <3>1, AnsweredOk DEF Codes
  <2> QED
    BY <2>1, <2>3, <2>4, MoveStep DEF Reply
<1>3. CASE ~validatePassword(q.row, q.dto.value)
  BY <1>1, <1>3, ReplyStep DEF LoginCompare, ReqRec, Codes
<1> QED
  BY <1>2, <1>3

\* Registration looks for the email.
LEMMA RegisterIInv ==
  ASSUME IInv, NEW r \in Requests, NEW e \in Emails, NEW p \in Passwords,
         NEW role \in {"user", "admin"}, Register(r, e, p, role)
  PROVE  IInv'
<1> DEFINE row == [email |-> e, pw |-> [hashed |-> TRUE, of |-> p],
                   role |-> role, active |-> TRUE]
<1>1. row \in Row
  BY DEF Row, Stored
<1> HIDE DEF row
<1>2. CASE WithEmail(e) # {}
  BY <1>2, AskedReply DEF Register, Ops, Codes
<1>3. CASE WithEmail(e) = {}
  <2>1. Set(r, Request("insert", "register", NoToken, NoRow, row, NoRow))
    BY <1>3 DEF Register, row
  <2>2. Fits(Request("insert", "register", NoToken, NoRow, row, NoRow), issued)
    BY <1>1 DEF Fits, Request
  <2>3. OkReq(Request("insert", "register", NoToken, NoRow, row, NoRow), users, issued)
    BY <1>1, <2>2, RequestOk DEF Pcs, Ops
  <2> QED
    BY <2>1, <2>3, CalmStep DEF Register
<1> QED
  BY <1>2, <1>3

\* The insert, which the unique column may refuse.
LEMMA RegisterSaveIInv ==
  ASSUME IInv, NEW r \in Requests, RegisterSave(r)
  PROVE  IInv'
<1> DEFINE q == req[r]
<1>1. q \in ReqRec /\ q.row \in Row /\ q.pc = "insert"
  BY DEF RegisterSave, IInv, OkReq, Fits
<1>2. CASE WithEmail(q.row.email) # {}
  BY <1>1, <1>2, ReplyStep DEF RegisterSave, ReqRec, Codes
<1>3. CASE WithEmail(q.row.email) = {}
  <2>1. PICK i \in Ids \ Accounts :
           /\ users' = [users EXCEPT ![i] = q.row]
           /\ issued' = issued \cup {generateToken(i, q.row)}
           /\ Reply(r, [q EXCEPT !.tok = generateToken(i, q.row)], "ok")
    BY <1>3 DEF RegisterSave
  <2> DEFINE t == generateToken(i, q.row)
  <2>2. t \in Token
    BY <1>1, TokenType DEF IInv
  <2>3. users' \in [Ids -> Row \cup {NoRow}] /\ UNCHANGED <<invalidated, clock, loggedOut>>
    BY <1>1, <2>1 DEF RegisterSave, IInv, TablesOK
  <2>4. TablesOK' /\ Remembered'
    BY <2>1, <2>2, <2>3, IssueTables
  <2>5. OkReq(Answered([q EXCEPT !.tok = t], "ok"), users', issued')
    <3>1. /\ [q EXCEPT !.tok = t].op \in Ops /\ [q EXCEPT !.tok = t].late \in BOOLEAN
          /\ [q EXCEPT !.tok = t].tok \in Strings \cup {NoToken}
      BY <1>1, <2>2 DEF ReqRec, Strings
    <3> QED
      BY <3>1, AnsweredOk DEF Codes
  <2>6. UniqueEmails'
    <3>1. \A j \in Ids : j # i => users'[j] = users[j]
      BY <2>1 DEF IInv, TablesOK
    <3>2. users'[i] = q.row
      BY <2>1 DEF IInv, TablesOK
    <3>3. \A j \in Accounts : users[j].email # q.row.email
      BY <1>3 DEF WithEmail
    <3> QED
      BY <3>1, <3>2, <3>3 DEF IInv, UniqueEmails, Accounts
  <2>7. \A x \in Requests : OkReq(req[x], users', issued')
    <3> SUFFICES ASSUME NEW x \in Requests PROVE OkReq(req[x], users', issued')
      OBVIOUS
    <3>1. OkReq(req[x], users, issued')
      BY <2>1, StaysOk DEF IInv
    <3>2. Fresh(req[x], users')
      <4>1. users[i] = NoRow /\ NoRow \notin Row
        BY GatewayAssumption DEF Accounts
      <4>2. \A j \in Ids : j # i => users'[j] = users[j]
        BY <2>1 DEF IInv, TablesOK
      <4> QED
        BY <3>1, <4>1, <4>2 DEF OkReq, Fresh, Fits
    <3> QED
      BY <3>1, <3>2 DEF OkReq
  <2>8. req' \in [Requests -> ReqRec] /\ \A x \in Requests : OkReq(req'[x], users', issued')
    BY <2>1, <2>5, <2>7 DEF Reply, Set, IInv, OkReq
  <2> QED
    BY <2>4, <2>6, <2>8 DEF IInv
<1> QED
  BY <1>2, <1>3

\* Validation consults the list; a token logged out before is in it or expired.
LEMMA ValidateTokenIInv ==
  ASSUME IInv, NEW r \in Requests, NEW t \in issued \cup {Garbage}, ValidateToken(r, t)
  PROVE  IInv'
<1>1. t \in Strings
  BY DEF IInv, TablesOK, Strings
<1>2. CASE t \in invalidated \/ ~verify(t)
  <2> DEFINE q == Validation("idle", t, NoRow)
  <2>1. q.op = "validate" /\ q.tok = t /\ q.late \in BOOLEAN
    BY DEF Validation, Request
  <2>2. Reply(r, q, "invalid")
    BY <1>2 DEF ValidateToken
  <2> HIDE DEF q
  <2> QED
    BY <1>1, <2>1, <2>2, ReplyStep DEF ValidateToken, Ops, Codes
<1>3. CASE ~(t \in invalidated \/ ~verify(t))
  <2> DEFINE q == Validation("lookup", t, t.sub)
  <2>1. t \in Token /\ t.sub \in Ids /\ t \notin loggedOut
    BY <1>3 DEF IInv, TablesOK, Remembered, verify, Token
  <2>2. q.pc = "lookup" /\ q.op = "validate" /\ q.late = (t \in loggedOut)
    BY DEF Validation, Request
  <2>3. q \in ReqRec
    <3>1. Request("lookup", "validate", t, t.sub, NoRow, NoRow) \in ReqRec
      BY <1>1, <2>1 DEF Request, ReqRec, Pcs, Ops, Codes
    <3>2. (t \in loggedOut) \in BOOLEAN
      OBVIOUS
    <3>3. ASSUME NEW a \in ReqRec, NEW b \in BOOLEAN PROVE [a EXCEPT !.late = b] \in ReqRec
      BY DEF ReqRec
    <3> QED
      BY <3>1, <3>2, <3>3, Zenon DEF Validation
  <2>4. Set(r, q)
    BY <1>3 DEF ValidateToken
  <2> HIDE DEF q
  <2>5. OkReq(q, users, issued)
    BY <2>1, <2>2, <2>3 DEF OkReq, Fits, Refused, Fresh
  <2> QED
    BY <2>4, <2>5, CalmStep DEF ValidateToken
<1> QED
  BY <1>2, <1>3

\* The account of the token was awaited; the token was not logged out before.
LEMMA ValidateLookupIInv ==
  ASSUME IInv, NEW r \in Requests, ValidateLookup(r)
  PROVE  IInv'
<1> DEFINE q == req[r]
<1>1. q \in ReqRec /\ q.pc = "lookup" /\ ~(q.op = "validate" /\ q.late)
  BY DEF ValidateLookup, IInv, OkReq, Refused
<1>2. PICK code \in {"valid", "invalid"} : Reply(r, q, code)
  BY DEF ValidateLookup
<1> QED
  BY <1>1, <1>2, ReplyStep DEF ValidateLookup, ReqRec, Codes

\* The cleanup forgets only tokens that no longer verify.
LEMMA CleanupKeeps ==
  ASSUME Remembered, NEW set,
         \A t \in loggedOut' : verify(t) => t \in set,
         invalidated' = cleanupInvalidatedTokens(set),
         UNCHANGED <<issued, clock>>
  PROVE  Remembered'
BY DEF Remembered, cleanupInvalidatedTokens, verify

\* A logout adds its token to the list and cleans the list up.
LEMMA LogoutIInv ==
  ASSUME IInv, NEW r \in Requests, NEW t \in issued \cup {Garbage, NoToken}, Logout(r, t)
  PROVE  IInv'
<1>1. t \in Strings \cup {NoToken} /\ NoToken \notin issued
  BY GatewayAssumption DEF IInv, TablesOK, Strings
<1>2. UNCHANGED <<users, issued, clock>> /\ loggedOut' = loggedOut \cup ({t} \cap issued)
  BY DEF Logout
<1>3. TablesOK'
  BY <1>2 DEF IInv, TablesOK
<1>4. Remembered'
  <2>1. CASE t = NoToken \/ t \in invalidated
    BY <1>1, <1>2, <2>1 DEF Logout, IInv, Remembered, verify
  <2>2. CASE ~(t = NoToken \/ t \in invalidated)
    <3>1. invalidated' = cleanupInvalidatedTokens(invalidated \cup {t})
      BY <2>2 DEF Logout
    <3>2. \A x \in loggedOut' : verify(x) => x \in invalidated \cup {t}
      BY <1>2 DEF IInv, Remembered
    <3> QED
      BY <1>2, <3>1, <3>2, CleanupKeeps DEF IInv
  <2> QED
    BY <2>1, <2>2
<1> DEFINE q == Asked("logout", t)
<1>5. q.op = "logout" /\ q.tok = t /\ q.late = FALSE /\ Reply(r, q, "ok")
  BY DEF Asked, Request, Logout
<1> HIDE DEF q
<1>6. OkReq(Answered(q, "ok"), users, issued')
  BY <1>1, <1>5, AnsweredOk DEF Ops, Codes
<1> QED
  BY <1>2, <1>3, <1>4, <1>5, <1>6, MoveStep DEF Reply

-----------------------------------------------------------------------------
(* The steps of guarded routes.                                            *)

\* The guards before the account is awaited.
LEMMA GuardedIInv ==
  ASSUME IInv, NEW r \in Requests, NEW t \in issued \cup {Garbage},
         NEW route \in Ops \ {"validate"}, NEW i \in Ids \cup {NoRow},
         NEW d \in Dto \cup {NoRow},
         route \in UserRoutes => i \in Ids, route = "update" => d \in Dto,
         Guarded(r, t, route, i, d)
  PROVE  IInv'
<1>1. t \in Strings
  BY DEF IInv, TablesOK, Strings
<1> DEFINE q == Request("guard", route, t, i, NoRow, d)
<1>2. CASE RolesGuard(route, NoRow) /\ verify(t)
  <2>1. Set(r, q) /\ t \in issued
    BY <1>2 DEF Guarded, verify
  <2>2. q.pc = "guard" /\ q.op = route /\ q.tok = t /\ q.id = i /\ q.dto = d
    BY DEF Request
  <2>3. Fits(q, issued)
    <3> HIDE DEF q
    <3> QED
      BY <2>1, <2>2 DEF Fits
  <2>4. OkReq(q, users, issued)
    BY <1>1, <2>3, RequestOk DEF Pcs
  <2> HIDE DEF q
  <2> QED
    BY <2>1, <2>4, CalmStep DEF Guarded
<1>3. CASE ~(RolesGuard(route, NoRow) /\ verify(t))
  BY <1>1, <1>3, AskedReply DEF Guarded, Codes
<1> QED
  BY <1>2, <1>3

\* A request goes on with a row it has read.
LEMMA HeldOk ==
  ASSUME NEW us, NEW is, NEW q \in ReqRec, Refused(q), NEW row \in Row,
         NEW pc \in {"read", "forward", "email", "save"},
         pc = "read" => q.op \in UserRoutes,
         pc # "forward" => q.id \in Ids,
         pc = "read" /\ q.op = "update" => q.dto \in Dto,
         pc \in {"email", "save"} => q.dto \in Dto /\ us[q.id] = row
  PROVE  OkReq(Held(q, row, pc), us, is)
<1> DEFINE h == Held(q, row, pc)
<1>1. h \in ReqRec
  BY DEF Held, ReqRec, Pcs, Codes
<1>2. /\ h.pc = pc /\ h.op = q.op /\ h.id = q.id /\ h.row = row /\ h.dto = q.dto
      /\ h.late = q.late /\ h.reply = "none"
  BY DEF Held
<1> HIDE DEF h
<1> QED
  BY <1>1, <1>2 DEF h, OkReq, Fits, Refused, Fresh

\* JwtStrategy.validate and the first lines of the handler.
LEMMA GuardLookupIInv ==
  ASSUME IInv, NEW r \in Requests, GuardLookup(r)
  PROVE  IInv'
<1> DEFINE q == req[r]
           user == users[q.tok.sub]
<1>1. /\ q \in ReqRec /\ q.pc = "guard" /\ Refused(q) /\ q.tok \in issued
      /\ q.op \in UserRoutes => q.id \in Ids
      /\ q.op = "update" => q.dto \in Dto
  BY DEF GuardLookup, IInv, OkReq, Fits
<1>2. user \in Row \cup {NoRow}
  BY <1>1 DEF IInv, TablesOK, Token
<1>3. ASSUME NEW code \in Codes \ {"valid"}, Reply(r, q, code) PROVE IInv'
  BY <1>1, <1>3, ReplyStep DEF GuardLookup, ReqRec
<1>4. ASSUME NEW pc \in {"read", "forward"}, pc = "read" => q.op \in UserRoutes,
             user # NoRow, Set(r, Held(q, user, pc))
      PROVE  IInv'
  <2>1. OkReq(Held(q, user, pc), users, issued)
    BY <1>1, <1>2, <1>4, HeldOk
  <2> QED
    BY <1>4, <2>1, CalmStep DEF GuardLookup
<1>5. CASE user = NoRow \/ ~user.active
  BY <1>3, <1>5 DEF GuardLookup, Codes
<1>6. CASE user # NoRow /\ user.active
  BY <1>3, <1>4, <1>6 DEF GuardLookup, Codes
<1> QED
  BY <1>5, <1>6

\* UserService.findOne.
LEMMA FindOneIInv ==
  ASSUME IInv, NEW r \in Requests, FindOne(r)
  PROVE  IInv'
<1> DEFINE q == req[r]
<1>1. /\ q \in ReqRec /\ q.pc = "read" /\ Refused(q) /\ q.op \in UserRoutes
      /\ q.id \in Ids
      /\ q.op = "update" => q.dto \in Dto
  BY DEF FindOne, IInv, OkReq, Fits
<1>3. ASSUME NEW code \in Codes \ {"valid"}, Reply(r, q, code) PROVE IInv'
  BY <1>1, <1>3, ReplyStep DEF FindOne, ReqRec
<1>4. ASSUME NEW pc \in {"email", "save"}, q.op = "update",
             q.id \in Accounts, Set(r, Held(q, users[q.id], pc))
      PROVE  IInv'
  <2>1. users[q.id] \in Row
    BY <1>4 DEF Accounts, IInv, TablesOK
  <2>2. OkReq(Held(q, users[q.id], pc), users, issued)
    BY <1>1, <1>4, <2>1, HeldOk
  <2> QED
    BY <1>4, <2>2, CalmStep DEF FindOne
<1>5. CASE q.id \notin Accounts \/ q.op = "findOne"
  BY <1>3, <1>5 DEF FindOne, Codes
<1>6. CASE q.id \in Accounts /\ q.op = "update"
  BY <1>4, <1>6 DEF FindOne
<1> QED
  BY <1>1, <1>5, <1>6 DEF UserRoutes

\* A request that goes on with what it has.
LEMMA PcStep ==
  ASSUME IInv, NEW r \in Requests, NEW pc \in {"save", "wait"},
         pc = "save" => req[r].pc = "email",
         Set(r, [req[r] EXCEPT !.pc = pc]),
         UNCHANGED <<users, issued, invalidated, clock, loggedOut>>
  PROVE  IInv'
<1> DEFINE q == req[r]
           n == [q EXCEPT !.pc = pc]
<1>1. q \in ReqRec /\ Refused(q) /\ Fits(q, issued) /\ Fresh(q, users)
  BY DEF IInv, OkReq
<1>2. n \in ReqRec
  BY <1>1 DEF ReqRec, Pcs
<1>3. /\ n.pc = pc /\ n.op = q.op /\ n.id = q.id /\ n.row = q.row /\ n.dto = q.dto
      /\ n.late = q.late /\ n.reply = q.reply /\ n.dirty = q.dirty
  BY <1>1 DEF ReqRec
<1>4. OkReq(n, users, issued)
  <2> HIDE DEF n
  <2> QED
    BY <1>1, <1>2, <1>3 DEF OkReq, Fits, Refused, Fresh
<1> QED
  BY <1>4, CalmStep

\* The check of a new email.
LEMMA UpdateCheckEmailIInv ==
  ASSUME IInv, NEW r \in Requests, UpdateCheckEmail(r)
  PROVE  IInv'
<1> DEFINE q == req[r]
<1>1. q \in ReqRec
  BY DEF IInv
<1>2. CASE WithEmail(q.dto.value) # {}
  BY <1>1, <1>2, ReplyStep DEF UpdateCheckEmail, ReqRec, Codes
<1>3. CASE WithEmail(q.dto.value) = {}
  BY <1>3, PcStep DEF UpdateCheckEmail
<1> QED
  BY <1>2, <1>3

\* Assigning a body to a row gives a row.
LEMMA AssignType ==
  ASSUME NEW row \in Row, NEW d \in Dto
  PROVE  assignDto(row, d) \in Row
BY DEF assignDto, Row, Dto, Stored

\* The save, which the unique column may refuse; it marks the updates of the same
\* row that have read it.
LEMMA UpdateSaveIInv ==
  ASSUME IInv, NEW r \in Requests, UpdateSave(r)
  PROVE  IInv'
<1> DEFINE q == req[r]
           new == assignDto(q.row, q.dto)
<1>1. q \in ReqRec /\ q.pc = "save" /\ Refused(q) /\ q.id \in Ids /\ q.row \in Row /\ q.dto \in Dto
  BY DEF UpdateSave, IInv, OkReq, Fits
<1>2. new \in Row
  BY <1>1, AssignType
<1>3. CASE ~(WithEmail(new.email) \subseteq {q.id})
  BY <1>1, <1>3, ReplyStep DEF UpdateSave, ReqRec, Codes
<1>4. CASE WithEmail(new.email) \subseteq {q.id}
  <2> DEFINE dirty(x) == req[x].dirty \/ (req[x].pc \in {"email", "save"} /\ req[x].id = q.id)
             other(x) == [req[x] EXCEPT !.dirty = dirty(x)]
  <2>1. /\ users' = [users EXCEPT ![q.id] = new]
        /\ req' = [x \in Requests |-> IF x = r THEN Answered(q, "ok") ELSE other(x)]
        /\ UNCHANGED <<invalidated, issued, clock, loggedOut>>
    BY <1>4 DEF UpdateSave
  <2>2. /\ \A j \in Ids : j # q.id => users'[j] = users[j]
        /\ users'[q.id] = new
    BY <1>1, <2>1 DEF IInv, TablesOK
  <2>3. TablesOK' /\ Remembered'
    BY <1>1, <1>2, <2>1 DEF IInv, TablesOK, Remembered, verify
  <2>4. UniqueEmails'
    <3>1. \A j \in Accounts : users[j].email = new.email => j = q.id
      BY <1>4 DEF WithEmail
    <3> HIDE DEF new
    <3> QED
      BY <2>2, <3>1 DEF IInv, UniqueEmails, Accounts
  <2>5. OkReq(Answered(q, "ok"), users', issued')
    BY <1>1, AnsweredOk DEF ReqRec, Codes
  <2>6. ASSUME NEW x \in Requests PROVE OkReq(other(x), users', issued')
    <3>1. req[x] \in ReqRec /\ OkReq(req[x], users, issued)
      BY DEF IInv
    <3>2. other(x) \in ReqRec
      BY <3>1 DEF ReqRec
    <3>3. /\ other(x).pc = req[x].pc /\ other(x).op = req[x].op /\ other(x).id = req[x].id
          /\ other(x).row = req[x].row /\ other(x).dto = req[x].dto
          /\ other(x).tok = req[x].tok
          /\ other(x).late = req[x].late /\ other(x).reply = req[x].reply
      BY <3>1 DEF ReqRec
    <3>4. other(x).dirty = dirty(x)
      BY <3>1 DEF ReqRec
    <3> HIDE DEF other
    <3>5. Fits(other(x), issued') /\ Refused(other(x))
      BY <2>1, <3>1, <3>3 DEF OkReq, Fits, Refused
    <3>6. Fresh(other(x), users')
      BY <2>2, <3>1, <3>3, <3>4 DEF OkReq, Fits, Fresh
    <3> QED
      BY <3>2, <3>5, <3>6 DEF OkReq
  <2> HIDE DEF other
  <2>7. req' \in [Requests -> ReqRec] /\ \A x \in Requests : OkReq(req'[x], users', issued')
    BY <2>1, <2>5, <2>6 DEF OkReq
  <2> QED
    BY <2>3, <2>4, <2>7 DEF IInv
<1> QED
  BY <1>3, <1>4

-----------------------------------------------------------------------------
(* The remaining steps.                                                    *)

\* Requests and tables are left alone.
LEMMA SameStep ==
  ASSUME IInv, UNCHANGED <<users, issued, invalidated, clock, loggedOut, req>>
  PROVE  IInv'
BY DEF IInv, TablesOK, UniqueEmails, Accounts, Remembered, verify

\* A health check starts.
LEMMA HealthCheckIInv ==
  ASSUME IInv, NEW r \in Requests, HealthCheck(r)
  PROVE  IInv'
<1>1. Fits(Request("wait", "health", NoToken, NoRow, NoRow, NoRow), issued)
  BY DEF Fits, Request
<1>2. OkReq(Request("wait", "health", NoToken, NoRow, NoRow, NoRow), users, issued)
  BY <1>1, RequestOk DEF Pcs, Ops
<1> QED
  BY <1>2, CalmStep DEF HealthCheck

\* A message has its outcome.
LEMMA OutcomeIInv ==
  ASSUME IInv, NEW r \in Requests, NEW s \in Services, NEW o, Outcome(r, s, o)
  PROVE  IInv'
<1> DEFINE code == Settled(req[r].op, sent'[r])
<1>1. code \in {"wait", "ok", "500", "503"}
  BY DEF Settled
<1>2. CASE req[r].pc = "wait" /\ code # "wait"
  <2>1. Reply(r, req[r], code) /\ req[r] \in ReqRec
    BY <1>2 DEF Outcome, IInv
  <2> HIDE DEF code
  <2> QED
    BY <1>1, <1>2, <2>1, ReplyStep DEF Outcome, ReqRec, Codes
<1>3. CASE ~(req[r].pc = "wait" /\ code # "wait")
  BY <1>3, SameStep DEF Outcome
<1> QED
  BY <1>2, <1>3

\* An arriving request.
LEMMA ArriveIInv ==
  ASSUME IInv, NEW r \in Requests, Arrive(r)
  PROVE  IInv'
<1>1. ASSUME NEW t \in issued \cup {Garbage}, NEW route \in Routes \ UserRoutes,
             Guarded(r, t, route, NoRow, NoRow)
      PROVE  IInv'
  <2>1. route \in Ops \ {"validate"} /\ route \notin UserRoutes /\ route # "update"
    BY GatewayAssumption DEF Ops, AuthRoutes, UserRoutes, ForwardRoutes, needsRole,
       UserAdminRoutes, RoleAdminRoutes
  <2> QED
    BY <1>1, <2>1, GuardedIInv
<1>2. ASSUME NEW t \in issued \cup {Garbage}, NEW i \in Ids, Guarded(r, t, "findOne", i, NoRow)
      PROVE  IInv'
  BY <1>2, GuardedIInv DEF Ops
<1>3. ASSUME NEW t \in issued \cup {Garbage}, NEW i \in Ids, NEW d \in Dtos,
             Guarded(r, t, "update", i, d)
      PROVE  IInv'
  BY <1>3, GuardedIInv, GatewayAssumption DEF Ops
<1> QED
  BY <1>1, <1>2, <1>3, LoginIInv, RegisterIInv, ValidateTokenIInv, LogoutIInv, HealthCheckIInv
  DEF Arrive

\* A step of a request after an await.
LEMMA StepIInv ==
  ASSUME IInv, NEW r \in Requests, Step(r)
  PROVE  IInv'
<1>1. CASE Forward(r)
  BY <1>1, PcStep DEF Forward
<1> QED
  BY <1>1, LoginCompareIInv, RegisterSaveIInv, ValidateLookupIInv, GuardLookupIInv,
     FindOneIInv, UpdateCheckEmailIInv, UpdateSaveIInv DEF Step

\* At the start every slot is free and the seeded emails differ.
LEMMA InitIInv == Init => IInv
<1> SUFFICES ASSUME Init PROVE IInv
  OBVIOUS
<1>1. TablesOK /\ Remembered /\ UniqueEmails
  BY GatewayAssumption DEF Init, TablesOK, Remembered, UniqueEmails, Accounts
<1>2. req \in [Requests -> ReqRec] /\ \A r \in Requests : OkReq(req[r], users, issued)
  BY IdleOk DEF Init
<1> QED
  BY <1>1, <1>2 DEF IInv

\* Every step keeps the invariant.
LEMMA NextIInv == IInv /\ [Next]_vars => IInv'
<1> SUFFICES ASSUME IInv, [Next]_vars PROVE IInv'
  OBVIOUS
<1>1. CASE UNCHANGED vars
  BY <1>1, SameStep DEF vars
<1>2. CASE Cleanup
  <2>1. Remembered'
    BY <1>2, CleanupKeeps DEF Cleanup, IInv, Remembered
  <2> QED
    BY <1>2, <2>1 DEF Cleanup, IInv, TablesOK, UniqueEmails, Accounts
<1>3. CASE Tick
  <2>1. TablesOK' /\ UniqueEmails'
    BY <1>3, GatewayAssumption DEF Tick, IInv, TablesOK, UniqueEmails, Accounts
  <2>2. Remembered'
    <3>1. \A t \in loggedOut : t.iat \in Nat /\ ~verify(t) => ~verify(t)'
      BY <1>3, GatewayAssumption DEF Tick, IInv, TablesOK, verify, Token
    <3> QED
      BY <1>3, <3>1, GatewayAssumption DEF Tick, IInv, TablesOK, Remembered, verify, Token
  <2> QED
    BY <1>3, <2>1, <2>2 DEF Tick, IInv
<1>4. CASE Restart
  <2>1. TablesOK' /\ UniqueEmails' /\ Remembered'
    BY <1>4 DEF Restart, IInv, TablesOK, UniqueEmails, Accounts, Remembered
  <2>2. req' \in [Requests -> ReqRec] /\ \A r \in Requests : OkReq(req'[r], users', issued')
    BY <1>4, IdleOk DEF Restart
  <2> QED
    BY <2>1, <2>2 DEF IInv
<1> QED
  BY <1>1, <1>2, <1>3, <1>4, ArriveIInv, StepIInv, OutcomeIInv
  DEF Next, Answer, Emit

-----------------------------------------------------------------------------
(* Theorems.                                                               *)

\* The invariant holds in every reachable state.
LEMMA AlwaysIInv == Spec => []IInv
BY InitIInv, NextIInv, PTL DEF Spec

\* However registrations and updates interleave between their look for an email
\* and their write of it, no two accounts share one (UserService create, update).
THEOREM AlwaysUniqueEmails == Spec => []UniqueEmails
<1>1. IInv => UniqueEmails
  BY DEF IInv
<1> QED
  BY <1>1, AlwaysIInv, PTL

\* No validation that begins after a confirmed logout reports the token valid,
\* whatever the cleanup has dropped and whichever tokens were made since
\* (AuthService invalidateToken, cleanupInvalidatedTokens, validateToken).
THEOREM AlwaysLoggedOut == Spec => []LoggedOutNeverValid
<1>1. IInv => LoggedOutNeverValid
  BY DEF IInv, OkReq, Refused, LoggedOutNeverValid
<1> QED
  BY <1>1, AlwaysIInv, PTL

\* One step of the action property: an update that saves and was not overtaken.
LEMMA OneColumnStep ==
  ASSUME IInv, [Next]_vars, NEW r \in Requests, NEW i \in Ids,
         req[r].pc = "save", req'[r].pc = "done", req[r].id = i,
         users'[i] # users[i], ~req[r].dirty
  PROVE  users'[i] = assignDto(users[i], req[r].dto)
<1>0. users' # users
  OBVIOUS
<1>1. PICK x \in Requests : RegisterSave(x) \/ UpdateSave(x)
  BY <1>0 DEF Next, Arrive, Step, vars, Login, LoginCompare, Register, ValidateToken,
     ValidateLookup, Logout, Guarded, GuardLookup, FindOne, UpdateCheckEmail, Forward,
     HealthCheck, Answer, Emit, Outcome, Cleanup, Tick, Restart
<1>2. CASE RegisterSave(x)
  <2>1. x # r
    BY <1>2 DEF RegisterSave
  <2>2. req'[r] = req[r]
    BY <1>2, <2>1 DEF RegisterSave, Reply, Set, IInv
  <2> QED
    BY <2>2
<1>3. CASE UpdateSave(x)
  <2>1. CASE x # r
    <3>1. req'[r].pc = req[r].pc
      <4>1. req[r] \in ReqRec
        BY DEF IInv
      <4> QED
        BY <1>0, <1>3, <2>1, <4>1 DEF UpdateSave, ReqRec, IInv
    <3> QED
      BY <3>1
  <2>2. CASE x = r
    <3>1. users' = [users EXCEPT ![req[r].id] = assignDto(req[r].row, req[r].dto)]
      BY <1>0, <1>3, <2>2 DEF UpdateSave
    <3>2. users[i] = req[r].row
      BY DEF IInv, OkReq, Fresh
    <3> QED
      BY <3>1, <3>2 DEF IInv, TablesOK
  <2> QED
    BY <2>1, <2>2
<1> QED
  BY <1>1, <1>2, <1>3

\* An update that no other save of its row overtook between read and save changes
\* the column it was asked to change and keeps every other (UserService.update).
THEOREM AlwaysOneColumn == Spec => UpdateChangesOneColumn
<1>1. IInv /\ [Next]_vars =>
        [\A r \in Requests, i \in Ids :
           /\ req[r].pc = "save" /\ req'[r].pc = "done" /\ req[r].id = i
           /\ users'[i] # users[i] /\ ~req[r].dirty
           => users'[i] = assignDto(users[i], req[r].dto)]_vars
  BY OneColumnStep
<1> QED
  BY <1>1, AlwaysIInv, PTL DEF Spec, UpdateChangesOneColumn

-----------------------------------------------------------------------------
(* Broadcasts and health checks.                                           *)

Broad == {"broadcast", "health"}

\* The outcome of a message that did not fail: an event is only written.
Confirmed(op) == IF op = "broadcast" THEN "dispatched" ELSE "ok"

\* What a request q knows of its messages m: a slot is answered only when done,
\* a broadcast that waits has sent all its messages, one that succeeded has all
\* of them confirmed, and the steps that answer "ok" by themselves serve no broadcast.
Heard(q, m) ==
  /\ q.pc # "done" => q.reply = "none"
  /\ q.pc \in {"compare", "insert", "read", "email", "save"} => q.op \notin Broad
  /\ q.op \in Broad /\ q.pc = "wait" =>
       \A s \in Services : m[s] \in {"pending", "failed", Confirmed(q.op)}
  /\ q.op \in Broad /\ q.reply = "ok" => \A s \in Services : m[s] = Confirmed(q.op)

Messages == [Services -> {"none", "pending", "ok", "dispatched", "failed"}]

\* Inductive together with IInv.
SentOK == sent \in [Requests -> Messages] /\ \A r \in Requests : Heard(req[r], sent[r])

\* One request moves on, and no other request's messages change.
LEMMA HeardStep ==
  ASSUME IInv, SentOK, NEW r \in Requests, NEW q, Set(r, q), Heard(q, sent'[r]),
         sent' \in [Requests -> Messages], \A x \in Requests \ {r} : sent'[x] = sent[x]
  PROVE  SentOK'
<1> SUFFICES ASSUME NEW x \in Requests PROVE Heard(req'[x], sent'[x])
  BY DEF SentOK
<1>1. CASE x = r
  BY <1>1 DEF Set, IInv
<1>2. CASE x # r
  BY <1>2 DEF Set, IInv, SentOK
<1> QED
  BY <1>1, <1>2

\* The same when it sends nothing.
LEMMA HeardCalm ==
  ASSUME IInv, SentOK, NEW r \in Requests, NEW q, Set(r, q), Heard(q, sent[r]), UNCHANGED sent
  PROVE  SentOK'
BY HeardStep DEF SentOK

\* An answer other than "ok", or to a request that is no broadcast, claims nothing.
LEMMA HeardReply ==
  ASSUME IInv, SentOK, NEW r \in Requests, NEW q, NEW code, Reply(r, q, code),
         code # "ok" \/ q.op \notin Broad, UNCHANGED sent
  PROVE  SentOK'
<1> DEFINE a == Answered(q, code)
<1>1. a.pc = "done" /\ a.op = q.op /\ a.reply = code
  BY DEF Answered
<1>2. Set(r, a)
  BY DEF Reply
<1> HIDE DEF a
<1>3. Heard(a, sent[r])
  BY <1>1 DEF Heard
<1> QED
  BY <1>2, <1>3, HeardCalm

\* A request that has just arrived has no answer yet.
LEMMA HeardRequest ==
  ASSUME IInv, SentOK, NEW r \in Requests, NEW pc \in Pcs \ {"wait", "done"}, NEW op,
         NEW tok, NEW id, NEW row, NEW dto,
         pc \in {"compare", "insert", "read", "email", "save"} => op \notin Broad,
         Set(r, Request(pc, op, tok, id, row, dto)), UNCHANGED sent
  PROVE  SentOK'
<1> DEFINE a == Request(pc, op, tok, id, row, dto)
<1>1. a.pc = pc /\ a.op = op /\ a.reply = "none"
  BY DEF Request
<1> HIDE DEF a
<1>2. Heard(a, sent[r])
  BY <1>1 DEF Heard
<1> QED
  BY <1>2, HeardCalm DEF a

\* The requests that arrive.
LEMMA ArriveHeard ==
  ASSUME IInv, SentOK, NEW r \in Requests, Arrive(r)
  PROVE  SentOK'
<1>0. ASSUME NEW op, NEW tok, NEW code, Reply(r, Asked(op, tok), code),
             code # "ok" \/ op \notin Broad, UNCHANGED sent
      PROVE  SentOK'
  <2>1. Asked(op, tok).op = op
    BY DEF Asked, Request
  <2> QED
    BY <1>0, <2>1, HeardReply
<1>1. ASSUME NEW e \in Emails, NEW p \in Passwords, Login(r, e, p) PROVE SentOK'
  <2>1. CASE \E i \in WithEmail(e) : users[i].active
    BY <1>1, <2>1, HeardRequest DEF Login, Pcs, Broad
  <2>2. CASE ~ \E i \in WithEmail(e) : users[i].active
    BY <1>0, <1>1, <2>2 DEF Login
  <2> QED
    BY <2>1, <2>2
<1>2. ASSUME NEW e \in Emails, NEW p \in Passwords, NEW role \in {"user", "admin"},
             Register(r, e, p, role)
      PROVE  SentOK'
  <2>1. CASE WithEmail(e) = {}
    BY <1>2, <2>1, HeardRequest DEF Register, Pcs, Broad
  <2>2. CASE WithEmail(e) # {}
    BY <1>0, <1>2, <2>2 DEF Register
  <2> QED
    BY <2>1, <2>2
<1>3. ASSUME NEW t, ValidateToken(r, t) PROVE SentOK'
  <2>1. CASE t \in invalidated \/ ~verify(t)
    BY <1>3, <2>1, HeardReply DEF ValidateToken
  <2>2. CASE ~(t \in invalidated \/ ~verify(t))
    <3> DEFINE q == Validation("lookup", t, t.sub)
    <3>1. q.pc = "lookup" /\ q.op = "validate" /\ q.reply = "none"
      BY DEF Validation, Request
    <3>2. Set(r, q) /\ UNCHANGED sent
      BY <1>3, <2>2 DEF ValidateToken
    <3> HIDE DEF q
    <3>3. Heard(q, sent[r])
      BY <3>1 DEF Heard, Broad
    <3> QED
      BY <3>2, <3>3, HeardCalm
  <2> QED
    BY <2>1, <2>2
<1>4. ASSUME NEW t, Logout(r, t) PROVE SentOK'
  BY <1>0, <1>4 DEF Logout, Broad
<1>5. ASSUME NEW t, NEW route, NEW i, NEW d, Guarded(r, t, route, i, d) PROVE SentOK'
  <2>1. CASE RolesGuard(route, NoRow) /\ verify(t)
    BY <1>5, <2>1, HeardRequest DEF Guarded, Pcs
  <2>2. CASE ~(RolesGuard(route, NoRow) /\ verify(t))
    BY <1>0, <1>5, <2>2 DEF Guarded
  <2> QED
    BY <2>1, <2>2
<1>6. CASE HealthCheck(r)
  <2> DEFINE q == Request("wait", "health", NoToken, NoRow, NoRow, NoRow)
  <2>1. q.pc = "wait" /\ q.op = "health" /\ q.reply = "none"
    BY DEF Request
  <2>2. Set(r, q) /\ sent' = [sent EXCEPT ![r] = [s \in Services |-> "pending"]]
    BY <1>6 DEF HealthCheck
  <2> HIDE DEF q
  <2>3. sent' \in [Requests -> Messages] /\ \A x \in Requests \ {r} : sent'[x] = sent[x]
    BY <2>2 DEF SentOK, Messages
  <2>4. Heard(q, sent'[r])
    BY <2>1, <2>2 DEF Heard, SentOK
  <2> QED
    BY <2>2, <2>3, <2>4, HeardStep
<1> QED
  BY <1>1, <1>2, <1>3, <1>4, <1>5, <1>6 DEF Arrive

\* The request goes on with what it has read.
LEMMA HeardHeld ==
  ASSUME IInv, SentOK, NEW r \in Requests, NEW row, NEW pc \in {"read", "forward", "email", "save"},
         pc # "forward" => req[r].op \notin Broad,
         Set(r, Held(req[r], row, pc)), UNCHANGED sent
  PROVE  SentOK'
<1> DEFINE h == Held(req[r], row, pc)
<1>1. h.pc = pc /\ h.op = req[r].op /\ h.reply = "none"
  BY DEF Held
<1> HIDE DEF h
<1>2. Heard(h, sent[r])
  BY <1>1 DEF Heard
<1> QED
  BY <1>2, HeardCalm DEF h

\* The steps of a request after an await.
LEMMA StepHeard ==
  ASSUME IInv, SentOK, NEW r \in Requests, Step(r)
  PROVE  SentOK'
<1> DEFINE q == req[r]
<1>0. q \in ReqRec /\ Fits(q, issued) /\ Heard(q, sent[r])
  BY DEF IInv, OkReq, SentOK
<1>1. CASE LoginCompare(r) \/ RegisterSave(r)
  <2>1. q.op \notin Broad /\ UNCHANGED sent
    BY <1>0, <1>1 DEF LoginCompare, RegisterSave, Heard
  <2>2. \A t : [q EXCEPT !.tok = t].op = q.op
    BY <1>0 DEF ReqRec
  <2>3. \E n, code : Reply(r, n, code) /\ n.op = q.op
    <3>1. CASE LoginCompare(r)
      BY <2>2, <3>1 DEF LoginCompare
    <3>2. CASE RegisterSave(r)
      BY <2>2, <3>2 DEF RegisterSave
    <3> QED
      BY <1>1, <3>1, <3>2
  <2> QED
    BY <2>1, <2>3, HeardReply
<1>2. CASE ValidateLookup(r)
  BY <1>2, HeardReply DEF ValidateLookup
<1>3. CASE GuardLookup(r)
  <2> DEFINE user == users[q.tok.sub]
  <2>1. AuthRoutes \cap Broad = {} /\ UserRoutes \cap Broad = {}
    BY DEF AuthRoutes, UserRoutes, Broad
  <2>2. UNCHANGED sent
    BY <1>3 DEF GuardLookup
  <2>3. CASE \E code : Reply(r, q, code) /\ (code # "ok" \/ q.op \in AuthRoutes)
    BY <2>1, <2>2, <2>3, HeardReply
  <2>4. CASE \E pc \in {"read", "forward"} :
               Set(r, Held(q, user, pc)) /\ (pc = "read" => q.op \in UserRoutes)
    BY <2>1, <2>2, <2>4, HeardHeld
  <2> QED
    BY <1>3, <2>3, <2>4 DEF GuardLookup
<1>4. CASE FindOne(r)
  <2>1. q.op \notin Broad /\ UNCHANGED sent
    BY <1>0, <1>4 DEF FindOne, Heard
  <2>2. CASE \E code : Reply(r, q, code)
    BY <2>1, <2>2, HeardReply
  <2>3. ASSUME NEW row, NEW pc \in {"email", "save"}, Set(r, Held(q, row, pc)) PROVE SentOK'
    BY <2>1, <2>3, HeardHeld
  <2>4. CASE q.id \notin Accounts \/ q.op = "findOne"
    BY <1>4, <2>2, <2>4 DEF FindOne
  <2>5. CASE q.id \in Accounts /\ q.op # "findOne"
    BY <1>4, <2>3, <2>5 DEF FindOne
  <2> QED
    BY <2>4, <2>5
<1>5. CASE UpdateCheckEmail(r)
  <2>1. q.op \notin Broad /\ q.reply = "none" /\ UNCHANGED sent
    BY <1>0, <1>5 DEF UpdateCheckEmail, Heard
  <2>2. CASE \E code : Reply(r, q, code)
    BY <2>1, <2>2, HeardReply
  <2>3. CASE Set(r, [q EXCEPT !.pc = "save"])
    <3> DEFINE n == [q EXCEPT !.pc = "save"]
    <3>1. n.op = q.op /\ n.reply = q.reply
      BY <1>0 DEF ReqRec
    <3> HIDE DEF n
    <3>2. Heard(n, sent[r])
      BY <2>1, <3>1 DEF Heard
    <3> QED
      BY <2>1, <2>3, <3>2, HeardCalm DEF n
  <2> QED
    BY <1>5, <2>2, <2>3 DEF UpdateCheckEmail
<1>6. CASE UpdateSave(r)
  <2>1. q.op \notin Broad /\ UNCHANGED sent
    BY <1>0, <1>6 DEF UpdateSave, Heard
  <2>2. CASE Reply(r, q, "500")
    BY <2>1, <2>2, HeardReply
  <2>3. CASE req' = [x \in Requests |->
                IF x = r THEN Answered(q, "ok")
                ELSE [req[x] EXCEPT !.dirty = req[x].dirty
                        \/ (req[x].pc \in {"email", "save"} /\ req[x].id = q.id)]]
    <3> SUFFICES ASSUME NEW x \in Requests PROVE Heard(req'[x], sent[x])
      BY <2>1 DEF SentOK
    <3>1. CASE x = r
      <4>1. req'[x] = Answered(q, "ok")
        BY <2>3, <3>1
      <4>2. req'[x].pc = "done" /\ req'[x].op = q.op
        BY <4>1 DEF Answered
      <4> QED
        BY <2>1, <4>2 DEF Heard
    <3>2. CASE x # r
      <4>1. req[x] \in ReqRec /\ Heard(req[x], sent[x])
        BY DEF IInv, SentOK
      <4>2. \E b : req'[x] = [req[x] EXCEPT !.dirty = b]
        BY <2>3, <3>2
      <4>3. req'[x].pc = req[x].pc /\ req'[x].op = req[x].op /\ req'[x].reply = req[x].reply
        BY <4>1, <4>2 DEF ReqRec
      <4> QED
        BY <4>1, <4>3 DEF Heard
    <3> QED
      BY <3>1, <3>2
  <2> QED
    BY <1>6, <2>2, <2>3 DEF UpdateSave
<1>7. CASE Forward(r)
  <2> DEFINE n == [q EXCEPT !.pc = "wait"]
             m == [s \in Services |-> IF s \in Targets(q.op) THEN "pending" ELSE "none"]
  <2>1. n.pc = "wait" /\ n.op = q.op /\ n.reply = "none"
    BY <1>0, <1>7 DEF Forward, Heard, ReqRec
  <2>2. Set(r, n) /\ sent' = [sent EXCEPT ![r] = m]
    BY <1>7 DEF Forward
  <2>3. m \in Messages
    BY DEF Messages
  <2>4. q.op \in Broad => \A s \in Services : m[s] = "pending"
    BY DEF Broad, Targets
  <2> HIDE DEF n, m
  <2>5. /\ sent' \in [Requests -> Messages] /\ sent'[r] = m
        /\ \A x \in Requests \ {r} : sent'[x] = sent[x]
    BY <2>2, <2>3 DEF SentOK
  <2>6. Heard(n, sent'[r])
    BY <2>1, <2>4, <2>5 DEF Heard
  <2> QED
    BY <2>2, <2>5, <2>6, HeardStep
<1> QED
  BY <1>1, <1>2, <1>3, <1>4, <1>5, <1>6, <1>7 DEF Step

\* The last outcome settles a request.
LEMMA OutcomeHeard ==
  ASSUME IInv, SentOK, NEW r \in Requests, NEW s \in Services,
         NEW o \in {Confirmed(req[r].op), "failed"}, Outcome(r, s, o)
  PROVE  SentOK'
<1> DEFINE q == req[r]
           m == [sent[r] EXCEPT ![s] = o]
           code == Settled(q.op, m)
<1>0. /\ q \in ReqRec /\ Heard(q, sent[r]) /\ sent[r] \in Messages
      /\ o \in {"ok", "dispatched", "failed"} /\ Confirmed(q.op) # "pending"
  BY DEF IInv, SentOK, Confirmed
<1>1. sent' = [sent EXCEPT ![r] = m] /\ sent[r][s] = "pending"
  BY DEF Outcome
<1>2. /\ sent' \in [Requests -> Messages] /\ sent'[r] = m /\ m \in Messages
      /\ \A x \in Requests \ {r} : sent'[x] = sent[x]
  BY <1>0, <1>1 DEF SentOK, Messages
<1>3. \A x \in Services : m[x] = IF x = s THEN o ELSE sent[r][x]
  BY <1>0 DEF Messages
<1> HIDE DEF m
<1>4. code = "ok" => \A x \in Services : m[x] \notin {"pending", "failed"}
  BY DEF Settled
<1> HIDE DEF code
<1>5. q.op \in Broad /\ q.reply = "ok" => FALSE
  BY <1>0, <1>1 DEF Heard
<1>6. q.op \in Broad /\ q.pc = "wait" =>
         \A x \in Services : m[x] \in {"pending", "failed", Confirmed(q.op)}
  BY <1>0, <1>3 DEF Heard
<1>7. CASE q.pc = "wait" /\ code # "wait"
  <2> DEFINE a == Answered(q, code)
  <2>1. Set(r, a)
    BY <1>2, <1>7 DEF Outcome, Reply, code
  <2>2. a.pc = "done" /\ a.op = q.op /\ a.reply = code
    BY DEF Answered
  <2> HIDE DEF a
  <2>3. q.op \in Broad /\ code = "ok" => \A x \in Services : m[x] = Confirmed(q.op)
    BY <1>2, <1>4, <1>6, <1>7 DEF Messages
  <2>4. Heard(a, sent'[r])
    BY <1>2, <2>2, <2>3 DEF Heard
  <2> QED
    BY <1>2, <2>1, <2>4, HeardStep
<1>8. CASE ~(q.pc = "wait" /\ code # "wait")
  <2>1. req' = req
    BY <1>2, <1>8 DEF Outcome, code
  <2>2. Set(r, q)
    BY <2>1 DEF Set, IInv
  <2>3. Heard(q, sent'[r])
    BY <1>0, <1>2, <1>5, <1>6 DEF Heard
  <2> QED
    BY <1>2, <2>2, <2>3, HeardStep
<1> QED
  BY <1>7, <1>8

\* What requests know of their messages holds in every reachable state.
LEMMA AlwaysHeard == Spec => []SentOK
<1>1. ASSUME Init PROVE SentOK
  <2>1. Idle.pc = "idle" /\ Idle.op = "none" /\ Idle.reply = "none"
    BY DEF Idle, Request
  <2>2. \A m : Heard(Idle, m)
    BY <2>1 DEF Heard, Broad
  <2> QED
    BY <1>1, <2>2 DEF Init, SentOK, Messages
<1>2. ASSUME IInv, SentOK, [Next]_vars PROVE SentOK'
  <2>1. CASE UNCHANGED <<req, sent>>
    BY <1>2, <2>1 DEF SentOK
  <2>2. CASE Restart
    <3>1. Idle.pc = "idle" /\ Idle.op = "none" /\ Idle.reply = "none"
      BY DEF Idle, Request
    <3>2. \A m : Heard(Idle, m)
      BY <3>1 DEF Heard, Broad
    <3> QED
      BY <2>2, <3>2 DEF Restart, SentOK, Messages
  <2> QED
    <3>1. ASSUME NEW r \in Requests, NEW s \in Services, Answer(r, s) \/ Emit(r, s)
          PROVE  SentOK'
      <4>1. PICK o \in {"ok", "dispatched", "failed"} :
              Outcome(r, s, o) /\ o \in {Confirmed(req[r].op), "failed"}
        BY <3>1 DEF Answer, Emit, Confirmed
      <4> QED
        BY <1>2, <4>1, OutcomeHeard
    <3> QED
      BY <1>2, <2>1, <2>2, <3>1, ArriveHeard, StepHeard DEF Next, vars, Cleanup, Tick
<1> QED
  BY <1>1, <1>2, AlwaysIInv, PTL DEF Spec

\* A health check answered "ok" has an answer of every service, and a broadcast
\* answered "ok" was written to every connection, whatever requests used the
\* slot before and however the outcomes are ordered and fail
\* (MonitoringService.checkMicroservices, RoutingService.broadcastEvent).
THEOREM AlwaysOkMeansAll == Spec => []OkMeansAll
<1>1. SentOK => OkMeansAll
  BY DEF SentOK, Heard, Broad, Confirmed, OkMeansAll
<1> QED
  BY <1>1, AlwaysHeard, PTL
=============================================================================
