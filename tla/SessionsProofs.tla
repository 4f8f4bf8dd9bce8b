--------------------------- MODULE SessionsProofs ---------------------------
(***************************************************************************)
(* The sessions of the whole system, for any number of tabs, accounts and  *)
(* moves: one account per email, and a tab shows the account, with its     *)
(* role, of the cookie its calls carry.                                    *)
(***************************************************************************)
EXTENDS EventFeed, TLAPS

-----------------------------------------------------------------------------
(* The inductive invariant of the sessions                                 *)

Rows == [email : Emails, role : Roles]

TokenShape == [id : Nat, role : Roles \cup {"NONE"}]

TabShape == [user : TokenShape, token : TokenShape, loading : BOOLEAN]

RequestShape ==
    [tab : Tabs, kind : {"restore", "login", "signup", "logout"},
     at : {"sent", "hashing", "answered"}, token : TokenShape,
     email : Emails \cup {"none"}, input : {"none", "USER", "ADMIN", "lost"},
     ok : BOOLEAN, answer : TokenShape, heeded : BOOLEAN]

\* A token is nobody's or repeats the role of its account, if that has not been
\* changed since.
Good(token, table, changed) ==
    \/ token = Nobody
    \/ /\ token \in [id : 1..Len(table), role : Roles]
       /\ token.id \notin changed => token.role = table[token.id].role

WellFormed(r) ==
    /\ r \in RequestShape
    /\ r.kind = "signup" => r.email \in Emails
    /\ r.kind = "restore" => r.heeded
    /\ r.ok => r.at = "answered"

\* The profile request of a tab that is not adrift answers for its cookie.
Restores(r, jar, state, lost) ==
    r.kind = "restore" =>
        /\ state[r.tab].loading
        /\ r.tab \notin lost =>
              /\ r.token.id = jar.id
              /\ r.at = "answered" /\ r.ok => r.answer.id = jar.id
              /\ r.at = "answered" /\ ~r.ok /\ r.input # "lost" => jar.id = 0

Restoring(t, calls) == \E r \in calls : r.tab = t /\ r.kind = "restore" /\ r.heeded

\* A tab restores as long as its profile request is under way, and shows nobody
\* until then and its session from then on.
InStep(t, jar, state, calls, lost) ==
    /\ state[t].loading => Restoring(t, calls)
    /\ t \notin lost =>
          IF state[t].loading
          THEN state[t].user = Nobody /\ state[t].token = Nobody
          ELSE state[t].user.id = jar.id /\ state[t].token.id \in {0, jar.id}

TablesInv ==
    /\ accounts \in Seq(Rows)
    /\ OneAccountPerEmail
    /\ rerolled \subseteq Ids
    /\ moves \in 0..MaxMoves

TabsInv ==
    /\ adrift \subseteq Tabs
    /\ tabs \in [Tabs -> TabShape]
    /\ Good(cookie, accounts, rerolled)
    /\ \A t \in Tabs :
          /\ Good(tabs[t].user, accounts, rerolled)
          /\ Good(tabs[t].token, accounts, rerolled)
          /\ InStep(t, cookie, tabs, requests, adrift)

RequestsInv ==
    /\ \A r \in requests :
          /\ WellFormed(r)
          /\ Good(r.token, accounts, rerolled) /\ Good(r.answer, accounts, rerolled)
          /\ Restores(r, cookie, tabs, adrift)
    /\ \A r, s \in requests :
          r.kind = "restore" /\ s.kind = "restore" /\ r.tab = s.tab => r = s

SessionsInv == TablesInv /\ TabsInv /\ RequestsInv

\* No account is lost, and a role that is not marked as changed is the same.
Grows ==
    /\ Ids \subseteq Ids'
    /\ \A id \in Ids : id \notin rerolled' =>
          id \notin rerolled /\ accounts'[id].role = accounts[id].role

-----------------------------------------------------------------------------
(* Tokens                                                                  *)

\* Tokens stay good while the table grows.
LEMMA GoodStays ==
  ASSUME Grows, NEW token, Good(token, accounts, rerolled)
  PROVE  Good(token, accounts', rerolled')
  BY DEF Grows, Good, Ids

\* A good token has the shape of one, and Nobody is the only one without an id.
LEMMA GoodShape ==
  ASSUME NEW table \in Seq(Rows), NEW changed, NEW token, Good(token, table, changed)
  PROVE  token \in TokenShape /\ (token.id = 0 => token = Nobody)
  BY DEF Good, TokenShape, Nobody

\* An unchanged table grows.
LEMMA SameTable == ASSUME UNCHANGED <<accounts, rerolled>> PROVE Grows
  BY DEF Grows, Ids

\* A token issued from the row of an account is good.
LEMMA IssuedGood ==
  ASSUME TablesInv, NEW id \in Ids
  PROVE  Good(createToken(id), accounts, rerolled) /\ createToken(id).id = id
  <1>1. accounts[id] \in Rows
    BY DEF TablesInv, Ids
  <1>2. QED
    BY <1>1 DEF Good, createToken, Ids, Rows

\* The parts of TabsInv after a step that leaves the table alone.
LEMMA TabsPrimed ==
  ASSUME UNCHANGED <<accounts, rerolled>>, adrift' \subseteq Tabs,
         tabs' \in [Tabs -> TabShape], Good(cookie', accounts, rerolled),
         \A u \in Tabs : /\ Good(tabs'[u].user, accounts, rerolled)
                         /\ Good(tabs'[u].token, accounts, rerolled),
         \A u \in Tabs : InStep(u, cookie', tabs', requests', adrift')
  PROVE  TabsInv'
  <1>1. \A u \in Tabs : /\ Good(tabs'[u].user, accounts', rerolled')
                        /\ Good(tabs'[u].token, accounts', rerolled')
    OBVIOUS
  <1>2. Good(cookie', accounts', rerolled')
    OBVIOUS
  <1>3. QED
    BY <1>1, <1>2 DEF TabsInv, InStep, Good

-----------------------------------------------------------------------------
(* Steps that only move a request on                                       *)

\* A move is counted within its bound.
LEMMA MoveCounted == ASSUME moves \in 0..MaxMoves, Move PROVE moves' \in 0..MaxMoves
  BY SessionsAssumption DEF SessionsAssumption, Move

\* Replacing a request by a later stage of it keeps the invariant.
LEMMA RequestMoves ==
  ASSUME SessionsInv, TablesInv', Grows, UNCHANGED <<cookie, tabs, adrift>>,
         NEW r \in requests, NEW s, NEW S \in SUBSET {s},
         requests' = (requests \ {r}) \cup S, r.heeded => S = {s},
         s.tab = r.tab, s.kind = r.kind, s.heeded = r.heeded, WellFormed(s),
         Good(s.token, accounts', rerolled'), Good(s.answer, accounts', rerolled'),
         Restores(s, cookie, tabs, adrift)
  PROVE  SessionsInv'
  <1>1. \A t \in Tabs : Restoring(t, requests) => Restoring(t, requests')
    BY DEF Restoring
  <1>2. TabsInv'
    BY <1>1, GoodStays DEF SessionsInv, TabsInv, InStep
  <1>3. \A q \in requests' :
           /\ WellFormed(q)
           /\ Good(q.token, accounts', rerolled') /\ Good(q.answer, accounts', rerolled')
           /\ Restores(q, cookie, tabs, adrift)
    BY GoodStays DEF SessionsInv, RequestsInv
  <1>4. \A p, q \in requests' :
           p.kind = "restore" /\ q.kind = "restore" /\ p.tab = q.tab => p = q
    BY DEF SessionsInv, RequestsInv
  <1>5. QED
    BY <1>2, <1>3, <1>4 DEF SessionsInv, RequestsInv

\* Sending a request of another kind than restore keeps the invariant.
LEMMA RequestSent ==
  ASSUME SessionsInv, Move, UNCHANGED <<accounts, cookie, tabs, adrift, rerolled>>,
         NEW t \in Tabs, NEW kind \in {"login", "signup", "logout"},
         NEW email \in Emails \cup {"none"}, kind = "signup" => email \in Emails,
         NEW input \in {"none", "USER", "ADMIN"},
         Send(NewRequest(t, kind, email, input))
  PROVE  SessionsInv'
  <1> DEFINE new == NewRequest(t, kind, email, input)
  <1>1. Grows
    BY SameTable
  <1>2. TablesInv'
    BY MoveCounted DEF SessionsInv, TablesInv, OneAccountPerEmail, Ids
  <1>3. \A u \in Tabs : Restoring(u, requests) => Restoring(u, requests')
    BY DEF Restoring, Send
  <1>4. TabsInv'
    BY <1>3 DEF SessionsInv, TabsInv, InStep
  <1>5. cookie \in TokenShape
    BY GoodShape DEF SessionsInv, TabsInv, TablesInv
  <1>6. WellFormed(new) /\ new.kind # "restore"
    BY <1>5 DEF NewRequest, WellFormed, RequestShape, TokenShape, Nobody
  <1>7. Good(new.token, accounts, rerolled) /\ Good(new.answer, accounts, rerolled)
    BY DEF NewRequest, Good, SessionsInv, TabsInv
  <1> HIDE DEF new
  <1>8. requests' = requests \cup {new}
    BY DEF Send, new
  <1>9. RequestsInv'
    BY <1>6, <1>7, <1>8 DEF SessionsInv, RequestsInv, Restores
  <1>10. QED
    BY <1>2, <1>4, <1>9 DEF SessionsInv

\* The reply to a request whose fields other than the answer stay.
LEMMA RequestReplied ==
  ASSUME SessionsInv, TablesInv', Grows, UNCHANGED <<cookie, tabs, adrift>>,
         NEW r \in requests, NEW s, Reply(r, s),
         s.tab = r.tab, s.kind = r.kind, s.heeded = r.heeded, WellFormed(s),
         Good(s.token, accounts', rerolled'), Good(s.answer, accounts', rerolled'),
         Restores(s, cookie, tabs, adrift)
  PROVE  SessionsInv'
  <1>1. CASE r.heeded
    <2>1. requests' = (requests \ {r}) \cup {s}
      BY <1>1 DEF Reply
    <2>2. QED
      BY <2>1, RequestMoves
  <1>2. CASE ~r.heeded
    <2>1. requests' = (requests \ {r}) \cup {}
      BY <1>2 DEF Reply
    <2>2. {} \in SUBSET {s}
      OBVIOUS
    <2>3. QED
      BY <2>1, <2>2, <1>2, RequestMoves
  <1>3. QED
    BY <1>1, <1>2

\* A success with a good answer keeps the invariant.
LEMMA Succeeds ==
  ASSUME SessionsInv, TablesInv', Grows, UNCHANGED <<cookie, tabs, adrift>>,
         NEW r \in requests, NEW answer, Succeed(r, answer),
         Good(answer, accounts', rerolled'),
         r.kind = "restore" => answer.id = r.token.id
  PROVE  SessionsInv'
  <1> DEFINE s == [r EXCEPT !.at = "answered", !.ok = TRUE, !.answer = answer]
  <1>1. WellFormed(r) /\ Good(r.token, accounts, rerolled) /\ Restores(r, cookie, tabs, adrift)
    BY DEF SessionsInv, RequestsInv
  <1>2. answer \in TokenShape
    BY GoodShape DEF TablesInv
  <1>3. WellFormed(s) /\ s.tab = r.tab /\ s.kind = r.kind /\ s.heeded = r.heeded
        /\ s.token = r.token /\ s.answer = answer /\ s.at = "answered" /\ s.ok
    BY <1>1, <1>2 DEF WellFormed, RequestShape
  <1>4. Reply(r, s)
    BY DEF Succeed
  <1> HIDE DEF s
  <1>5. Good(s.token, accounts', rerolled') /\ Good(s.answer, accounts', rerolled')
    BY <1>1, <1>3, GoodStays
  <1>6. Restores(s, cookie, tabs, adrift)
    BY <1>1, <1>3 DEF Restores
  <1>7. QED
    BY <1>3, <1>4, <1>5, <1>6, RequestReplied

\* A refusal keeps the invariant; a profile request is refused to nobody only.
LEMMA Refuses ==
  ASSUME SessionsInv, TablesInv', Grows, UNCHANGED <<cookie, tabs, adrift>>,
         NEW r \in requests, Refuse(r), r.at # "answered",
         r.kind = "restore" => r.token = Nobody
  PROVE  SessionsInv'
  <1> DEFINE s == [r EXCEPT !.at = "answered"]
  <1>1. WellFormed(r) /\ Good(r.token, accounts, rerolled) /\ Good(r.answer, accounts, rerolled)
        /\ Restores(r, cookie, tabs, adrift)
    BY DEF SessionsInv, RequestsInv
  <1>2. WellFormed(s) /\ s.tab = r.tab /\ s.kind = r.kind /\ s.heeded = r.heeded
        /\ s.token = r.token /\ s.answer = r.answer /\ s.at = "answered" /\ s.ok = r.ok
    BY <1>1 DEF WellFormed, RequestShape
  <1>3. Reply(r, s)
    BY DEF Refuse
  <1> HIDE DEF s
  <1>4. Good(s.token, accounts', rerolled') /\ Good(s.answer, accounts', rerolled')
    BY <1>1, <1>2, GoodStays
  <1>5. Restores(s, cookie, tabs, adrift)
    BY <1>1, <1>2 DEF Restores, Nobody, WellFormed
  <1>6. QED
    BY <1>2, <1>3, <1>4, <1>5, RequestReplied

-----------------------------------------------------------------------------
(* The server                                                              *)

\* The variables no request reads keep their part of the invariant.
LEMMA SameTables ==
  ASSUME SessionsInv, UNCHANGED <<accounts, moves, rerolled>>
  PROVE  TablesInv' /\ Grows
  BY SameTable DEF SessionsInv, TablesInv, OneAccountPerEmail, Ids

\* profile keeps the invariant.
LEMMA InvProfile == ASSUME SessionsInv, NEW r \in requests, profile(r) PROVE SessionsInv'
  <1>1. TablesInv' /\ Grows
    BY SameTables DEF profile, unchangedInBrowser
  <1>2. CASE r.token = Nobody
    BY <1>1, <1>2, Refuses DEF profile, Authenticated, unchangedInBrowser
  <1>3. CASE r.token # Nobody
    <2>1. r.token.id \in Ids
      BY <1>3 DEF SessionsInv, RequestsInv, Good, Ids
    <2>2. profileRow(r.token.id) = createToken(r.token.id)
      BY DEF profileRow, createToken
    <2>3. Good(profileRow(r.token.id), accounts', rerolled') /\ profileRow(r.token.id).id = r.token.id
      BY <2>1, <2>2, IssuedGood DEF SessionsInv, profile, unchangedInBrowser
    <2>4. QED
      BY <1>1, <1>3, <2>3, Succeeds DEF profile, Authenticated, unchangedInBrowser
  <1>4. QED
    BY <1>2, <1>3

\* login keeps the invariant.
LEMMA InvLogin == ASSUME SessionsInv, NEW r \in requests, login(r) PROVE SessionsInv'
  <1>1. TablesInv' /\ Grows
    BY SameTables DEF login, unchangedInBrowser
  <1>2. r.kind # "restore"
    BY DEF login
  <1>3. CASE Refuse(r)
    BY <1>1, <1>2, <1>3, Refuses DEF login, unchangedInBrowser
  <1>4. ASSUME NEW id \in IdsOf(r.email), Succeed(r, createToken(id)) PROVE SessionsInv'
    <2>1. Good(createToken(id), accounts', rerolled')
      BY IssuedGood DEF SessionsInv, login, unchangedInBrowser, IdsOf
    <2>2. QED
      BY <1>1, <1>2, <1>4, <2>1, Succeeds DEF login, unchangedInBrowser
  <1>5. QED
    BY <1>3, <1>4 DEF login

\* findUser keeps the invariant.
LEMMA InvFindUser == ASSUME SessionsInv, NEW r \in requests, findUser(r) PROVE SessionsInv'
  <1>1. TablesInv' /\ Grows
    BY SameTables DEF findUser, unchangedInBrowser
  <1>2. r.kind = "signup"
    BY DEF findUser
  <1>3. CASE IdsOf(r.email) # {}
    BY <1>1, <1>2, <1>3, Refuses DEF findUser, unchangedInBrowser
  <1>4. CASE IdsOf(r.email) = {}
    <2> DEFINE s == [r EXCEPT !.at = "hashing"]
    <2>1. WellFormed(r) /\ Good(r.token, accounts, rerolled) /\ Good(r.answer, accounts, rerolled)
      BY DEF SessionsInv, RequestsInv
    <2>2. WellFormed(s) /\ s.tab = r.tab /\ s.kind = r.kind /\ s.heeded = r.heeded
          /\ s.token = r.token /\ s.answer = r.answer
      BY <2>1 DEF WellFormed, RequestShape, findUser
    <2>3. requests' = (requests \ {r}) \cup {s}
      BY <1>4 DEF findUser
    <2> HIDE DEF s
    <2>4. Good(s.token, accounts', rerolled') /\ Good(s.answer, accounts', rerolled')
      BY <1>1, <2>1, <2>2, GoodStays
    <2>5. Restores(s, cookie, tabs, adrift)
      BY <1>2, <2>2 DEF Restores
    <2>6. QED
      BY <1>1, <2>2, <2>3, <2>4, <2>5, RequestMoves DEF findUser, unchangedInBrowser
  <1>5. QED
    BY <1>3, <1>4

\* createUser keeps the invariant: the unique constraint is checked in the step
\* that inserts the row.
LEMMA InvCreateUser ==
  ASSUME SessionsInv, NEW r \in requests, createUser(r)
  PROVE  SessionsInv' /\ Grows
  <1> DEFINE row == [email |-> r.email, role |-> normalizeRole(r.input)]
             answer == [id |-> Len(accounts) + 1, role |-> row.role]
  <1>1. r.kind = "signup" /\ r.at = "hashing" /\ UNCHANGED <<cookie, tabs, moves, adrift, rerolled>>
    BY DEF createUser, unchangedInBrowser
  <1>2. CASE ~UniqueEmail(r.email) /\ Refuse(r) /\ UNCHANGED accounts
    <2>1. TablesInv' /\ Grows
      BY <1>1, <1>2, SameTables
    <2>2. SessionsInv'
      BY <1>1, <1>2, <2>1, Refuses
    <2>3. QED
      BY <2>1, <2>2
  <1>3. CASE UniqueEmail(r.email) /\ accounts' = Append(accounts, row) /\ Succeed(r, answer)
    <2>1. accounts \in Seq(Rows) /\ r.email \in Emails /\ Len(accounts) \in Nat
      BY <1>1 DEF SessionsInv, TablesInv, RequestsInv, WellFormed
    <2>2. row.role \in Roles /\ row \in Rows /\ row.email = r.email
      BY <2>1 DEF normalizeRole, Roles, Rows
    <2> HIDE DEF row
    <2>3. /\ accounts' \in Seq(Rows) /\ Len(accounts') = Len(accounts) + 1
          /\ \A id \in Ids : accounts'[id] = accounts[id]
          /\ accounts'[Len(accounts) + 1] = row
      BY <1>3, <2>1, <2>2 DEF Ids
    <2>4. Ids' = Ids \cup {Len(accounts) + 1}
      BY <2>1, <2>3 DEF Ids
    <2>5. OneAccountPerEmail'
      <3>1. \A id \in Ids : accounts[id].email # r.email
        BY <1>3 DEF UniqueEmail, IdsOf
      <3>2. QED
        BY <2>2, <2>3, <2>4, <3>1 DEF OneAccountPerEmail, SessionsInv, TablesInv
    <2>6. TablesInv'
      BY <1>1, <2>3, <2>4, <2>5 DEF SessionsInv, TablesInv
    <2>7. Grows
      BY <1>1, <2>3, <2>4 DEF Grows
    <2>8. Good(answer, accounts', rerolled')
      BY <2>1, <2>2, <2>3 DEF Good
    <2> HIDE DEF answer
    <2>9. SessionsInv'
      BY <1>1, <1>3, <2>6, <2>7, <2>8, Succeeds
    <2>10. QED
      BY <2>7, <2>9
  <1>4. QED
    BY <1>2, <1>3 DEF createUser

\* logout keeps the invariant.
LEMMA InvLogout == ASSUME SessionsInv, NEW r \in requests, logout(r) PROVE SessionsInv'
  <1>1. TablesInv' /\ Grows
    BY SameTables DEF logout, unchangedInBrowser
  <1>2. r.kind # "restore"
    BY DEF logout
  <1>3. Good(Nobody, accounts', rerolled')
    BY DEF Good
  <1>4. QED
    BY <1>1, <1>2, <1>3, Refuses, Succeeds DEF logout, Authenticated, unchangedInBrowser

\* Losing a request or its answer keeps the invariant.
LEMMA InvLose == ASSUME SessionsInv, NEW r \in requests, lose(r) PROVE SessionsInv'
  <1> DEFINE s == [r EXCEPT !.at = "answered", !.ok = FALSE, !.answer = Nobody, !.input = "lost"]
  <1>1. TablesInv' /\ Grows
    BY SameTable, MoveCounted DEF lose, SessionsInv, TablesInv, OneAccountPerEmail, Ids
  <1>2. WellFormed(r) /\ Good(r.token, accounts, rerolled) /\ Restores(r, cookie, tabs, adrift)
    BY DEF SessionsInv, RequestsInv
  <1>3. WellFormed(s) /\ s.tab = r.tab /\ s.kind = r.kind /\ s.heeded = r.heeded
        /\ s.token = r.token /\ s.answer = Nobody /\ s.input = "lost" /\ ~s.ok
    BY <1>2 DEF WellFormed, RequestShape, TokenShape, Nobody
  <1>4. Reply(r, s)
    BY DEF lose
  <1> HIDE DEF s
  <1>5. Good(s.token, accounts', rerolled') /\ Good(s.answer, accounts', rerolled')
    BY <1>1, <1>2, <1>3, GoodStays DEF Good
  <1>6. Restores(s, cookie, tabs, adrift)
    BY <1>2, <1>3 DEF Restores
  <1>7. QED
    BY <1>1, <1>3, <1>4, <1>5, <1>6, RequestReplied DEF lose
-----------------------------------------------------------------------------
(* The user                                                                *)

\* Reload keeps the invariant.
LEMMA InvReload == ASSUME SessionsInv, NEW t \in Tabs, Reload(t) PROVE SessionsInv'
  <1> DEFINE new == NewRequest(t, "restore", "none", "none")
             Orphan(r) == [r EXCEPT !.heeded = FALSE]
  <1>1. TablesInv' /\ Grows
    BY SameTable, MoveCounted DEF Reload, SessionsInv, TablesInv, OneAccountPerEmail, Ids
  <1>2. cookie \in TokenShape /\ Good(cookie, accounts, rerolled)
    BY GoodShape DEF SessionsInv, TabsInv, TablesInv
  <1>3. WellFormed(new) /\ new.kind = "restore" /\ new.tab = t /\ new.token = cookie
        /\ new.at = "sent" /\ new.heeded /\ Good(new.token, accounts, rerolled)
        /\ Good(new.answer, accounts, rerolled)
    BY <1>2 DEF NewRequest, WellFormed, RequestShape, TokenShape, Nobody, Good
  <1>4. \A r \in requests : r.kind = "signup" =>
           /\ WellFormed(Orphan(r)) /\ Orphan(r).kind = "signup"
           /\ Good(Orphan(r).token, accounts, rerolled)
           /\ Good(Orphan(r).answer, accounts, rerolled)
    BY DEF SessionsInv, RequestsInv, WellFormed, RequestShape
  <1>5. \A q \in requests' :
           \/ q = new
           \/ q \in requests /\ q.tab # t
           \/ \E r \in requests : r.kind = "signup" /\ q = Orphan(r)
    BY DEF Reload
  <1>6. new \in requests' /\ {r \in requests : r.tab # t} \subseteq requests'
    BY DEF Reload
  <1> HIDE DEF new, Orphan
  <1>7. /\ tabs' \in [Tabs -> TabShape]
        /\ tabs'[t] = FreshTab
        /\ \A u \in Tabs \ {t} : tabs'[u] = tabs[u]
    BY DEF Reload, SessionsInv, TabsInv, FreshTab, TabShape, TokenShape, Nobody
  <1>8. adrift' = adrift \ {t} /\ UNCHANGED <<accounts, cookie, rerolled>>
    BY DEF Reload
  <1>9. TabsInv'
    <2>1. InStep(t, cookie', tabs', requests', adrift')
      BY <1>3, <1>6, <1>7 DEF InStep, Restoring, FreshTab
    <2>2. \A u \in Tabs \ {t} : InStep(u, cookie', tabs', requests', adrift')
      <3>1. \A u \in Tabs \ {t} : Restoring(u, requests) => Restoring(u, requests')
        BY <1>6 DEF Restoring
      <3>2. QED
        BY <3>1, <1>7, <1>8 DEF InStep, SessionsInv, TabsInv
    <2>3. QED
      <3>1. \A u \in Tabs : /\ Good(tabs'[u].user, accounts, rerolled)
                           /\ Good(tabs'[u].token, accounts, rerolled)
        BY <1>7 DEF SessionsInv, TabsInv, Good, FreshTab
      <3>2. QED
        BY <2>1, <2>2, <3>1, <1>7, <1>8, TabsPrimed DEF SessionsInv, TabsInv
  <1>10. RequestsInv'
    <2>1. Restores(new, cookie', tabs', adrift')
      BY <1>3, <1>7, <1>8 DEF Restores, FreshTab
    <2>2. \A q \in requests : q.tab # t => Restores(q, cookie', tabs', adrift')
      <3>1. \A q \in requests : q.tab \in Tabs /\ Restores(q, cookie, tabs, adrift)
        BY DEF SessionsInv, RequestsInv, WellFormed, RequestShape
      <3>2. QED
        BY <3>1, <1>7, <1>8 DEF Restores
    <2>3. \A q \in requests' :
             /\ WellFormed(q)
             /\ Good(q.token, accounts', rerolled') /\ Good(q.answer, accounts', rerolled')
             /\ Restores(q, cookie', tabs', adrift')
      <3>1. SUFFICES ASSUME NEW q \in requests'
                     PROVE  /\ WellFormed(q)
                            /\ Good(q.token, accounts, rerolled)
                            /\ Good(q.answer, accounts, rerolled)
                            /\ Restores(q, cookie', tabs', adrift')
        BY <1>8
      <3>2. CASE q = new
        BY <3>2, <1>3, <2>1
      <3>3. CASE q \in requests /\ q.tab # t
        BY <3>3, <2>2 DEF SessionsInv, RequestsInv
      <3>4. CASE \E r \in requests : r.kind = "signup" /\ q = Orphan(r)
        BY <3>4, <1>4 DEF Restores
      <3>5. QED
        BY <3>2, <3>3, <3>4, <1>5
    <2>4. \A p, q \in requests' :
             p.kind = "restore" /\ q.kind = "restore" /\ p.tab = q.tab => p = q
      BY <1>3, <1>4, <1>5 DEF SessionsInv, RequestsInv
    <2>5. QED
      BY <2>3, <2>4 DEF RequestsInv
  <1>11. QED
    BY <1>1, <1>9, <1>10 DEF SessionsInv

\* The three forms of a user keep the invariant.
LEMMA InvForms ==
  ASSUME SessionsInv, NEW t \in Tabs, NEW email \in Emails, NEW role \in {"USER", "ADMIN"},
         submitLogin(t, email) \/ submitSignup(t, email, role) \/ clickLogout(t)
  PROVE  SessionsInv'
  <1>1. CASE submitLogin(t, email)
    BY <1>1, RequestSent DEF submitLogin
  <1>2. CASE submitSignup(t, email, role)
    BY <1>2, RequestSent DEF submitSignup
  <1>3. CASE clickLogout(t)
    BY <1>3, RequestSent DEF clickLogout
  <1>4. QED
    BY <1>1, <1>2, <1>3

\* A role changed in the database keeps the invariant.
LEMMA InvChangeRole ==
  ASSUME SessionsInv, NEW id \in Ids, NEW role \in Roles, changeRole(id, role)
  PROVE  SessionsInv' /\ Grows
  <1>1. /\ accounts' \in Seq(Rows) /\ Len(accounts') = Len(accounts)
        /\ \A i \in Ids : accounts'[i].email = accounts[i].email
        /\ \A i \in Ids \ {id} : accounts'[i] = accounts[i]
    <2>1. \A i \in Ids : accounts[i] \in Rows
      BY DEF SessionsInv, TablesInv, Ids
    <2>2. accounts' = [accounts EXCEPT ![id] = [@ EXCEPT !.role = role]]
      BY DEF changeRole
    <2>3. [accounts[id] EXCEPT !.role = role] \in Rows
          /\ [accounts[id] EXCEPT !.role = role].email = accounts[id].email
      BY <2>1 DEF Rows
    <2>4. QED
      BY <2>2, <2>3 DEF SessionsInv, TablesInv, Ids
  <1>2. Ids' = Ids
    BY <1>1 DEF Ids
  <1>3. TablesInv'
    BY <1>1, <1>2, MoveCounted
    DEF changeRole, SessionsInv, TablesInv, OneAccountPerEmail
  <1>4. Grows
    BY <1>1, <1>2 DEF Grows, changeRole
  <1>5. UNCHANGED <<cookie, tabs, requests, adrift>>
    BY DEF changeRole
  <1>6. SessionsInv'
    BY <1>3, <1>4, <1>5, GoodStays DEF SessionsInv, TabsInv, RequestsInv
  <1>7. QED
    BY <1>4, <1>6

-----------------------------------------------------------------------------
(* The answers                                                             *)

\* A heeded answer leaves the other requests, and no other profile request of
\* its tab.
LEMMA AnswerTaken ==
  ASSUME SessionsInv, NEW r \in requests, Done(r), UNCHANGED <<accounts, moves, rerolled>>
  PROVE  /\ TablesInv' /\ Grows
         /\ r \in RequestShape /\ WellFormed(r) /\ Restores(r, cookie, tabs, adrift)
         /\ Good(r.answer, accounts, rerolled)
         /\ \A t \in Tabs : Restoring(t, requests') => Restoring(t, requests)
         /\ \A t \in Tabs : Restoring(t, requests) =>
               Restoring(t, requests') \/ (r.kind = "restore" /\ r.tab = t)
         /\ r.kind = "restore" => \A q \in requests' : q.kind = "restore" => q.tab # r.tab
         /\ requests' \subseteq requests
  <1>1. TablesInv' /\ Grows
    BY SameTables
  <1>2. WellFormed(r) /\ Restores(r, cookie, tabs, adrift) /\ Good(r.answer, accounts, rerolled)
    BY DEF SessionsInv, RequestsInv
  <1>3. requests' = requests \ {r}
    BY DEF Done
  <1>4. \A t \in Tabs : Restoring(t, requests) =>
           Restoring(t, requests') \/ (r.kind = "restore" /\ r.tab = t)
    BY <1>3 DEF Restoring
  <1>5. \A t \in Tabs : Restoring(t, requests') => Restoring(t, requests)
    BY <1>3 DEF Restoring
  <1>6. r.kind = "restore" => \A q \in requests' : q.kind = "restore" => q.tab # r.tab
    BY <1>3 DEF SessionsInv, RequestsInv
  <1>7. QED
    BY <1>1, <1>2, <1>3, <1>4, <1>5, <1>6 DEF WellFormed

\* The answer to the profile request of a tab keeps the invariant.
LEMMA InvRestored == ASSUME SessionsInv, NEW r \in requests, restored(r) PROVE SessionsInv'
  <1> DEFINE t == r.tab
  <1>1. r.kind = "restore" /\ r.at = "answered" /\ Done(r) /\ UNCHANGED <<accounts, cookie, moves, rerolled>>
    BY DEF restored, Answered
  <1>2. t \in Tabs /\ r.answer \in TokenShape /\ tabs[t] \in TabShape
    BY <1>1, AnswerTaken DEF RequestShape, SessionsInv, TabsInv
  <1>3. /\ tabs' \in [Tabs -> TabShape]
        /\ \A u \in Tabs \ {t} : tabs'[u] = tabs[u]
        /\ tabs'[t] = IF r.ok THEN [tabs[t] EXCEPT !.user = r.answer, !.loading = FALSE]
                             ELSE [FreshTab EXCEPT !.loading = FALSE]
    BY <1>2 DEF restored, SessionsInv, TabsInv, TabShape, FreshTab, TokenShape, Nobody
  <1>4. /\ ~tabs'[t].loading
        /\ r.ok => tabs'[t].user = r.answer /\ tabs'[t].token = tabs[t].token
        /\ ~r.ok => tabs'[t].user = Nobody /\ tabs'[t].token = Nobody
    BY <1>2, <1>3 DEF TabShape, FreshTab
  <1>5. adrift' = IF r.input = "lost" THEN adrift \cup {t} ELSE adrift
    BY DEF restored
  <1> HIDE DEF t
  <1>6. tabs[t].loading /\ Restores(r, cookie, tabs, adrift) /\ Good(r.answer, accounts, rerolled)
    BY <1>1, AnswerTaken DEF Restores, t
  <1>7. InStep(t, cookie', tabs', requests', adrift')
    BY <1>1, <1>2, <1>4, <1>5, <1>6 DEF InStep, Restores, SessionsInv, TabsInv, Nobody, t
  <1>8. \A u \in Tabs \ {t} : InStep(u, cookie', tabs', requests', adrift')
    BY <1>1, <1>3, <1>5, AnswerTaken DEF InStep, SessionsInv, TabsInv, t
  <1>9. TabsInv'
    <2>1. \A u \in Tabs : /\ Good(tabs'[u].user, accounts, rerolled)
                         /\ Good(tabs'[u].token, accounts, rerolled)
      <3>1. Good(Nobody, accounts, rerolled)
        BY DEF Good
      <3>2. QED
        BY <3>1, <1>2, <1>3, <1>4, <1>6 DEF SessionsInv, TabsInv
    <2>2. adrift' \subseteq Tabs
      BY <1>2, <1>5 DEF SessionsInv, TabsInv
    <2>3. QED
      BY <2>1, <2>2, <1>1, <1>3, <1>7, <1>8, TabsPrimed DEF SessionsInv, TabsInv
  <1>10. \A q \in requests' : Restores(q, cookie', tabs', adrift')
    <2>1. \A q \in requests' : q \in requests /\ q.tab \in Tabs /\ Restores(q, cookie, tabs, adrift)
      BY <1>1, AnswerTaken DEF SessionsInv, RequestsInv, WellFormed, RequestShape
    <2>2. \A q \in requests' : q.kind = "restore" => q.tab # t
      BY <1>1, AnswerTaken DEF t
    <2>3. QED
      BY <2>1, <2>2, <1>1, <1>3, <1>5 DEF Restores
  <1>11. QED
    BY <1>1, <1>9, <1>10, AnswerTaken DEF SessionsInv, RequestsInv

\* An answer of login, signup or logout that sets the cookie, and the user and
\* the token of its tab with it, keeps the invariant.
LEMMA CookieSet ==
  ASSUME SessionsInv, NEW r \in requests, r.kind # "restore", Done(r),
         UNCHANGED <<accounts, moves, rerolled>>,
         NEW new, Good(new, accounts, rerolled), cookie' = new,
         tabs' = [tabs EXCEPT ![r.tab].user = new, ![r.tab].token = new],
         adrift' = AdriftAfter(r.tab, new)
  PROVE  SessionsInv'
  <1> DEFINE t == r.tab
  <1>1. t \in Tabs /\ tabs[t] \in TabShape /\ new \in TokenShape
    BY AnswerTaken, GoodShape DEF RequestShape, SessionsInv, TabsInv, TablesInv
  <1>2. /\ tabs' \in [Tabs -> TabShape]
        /\ \A u \in Tabs \ {t} : tabs'[u] = tabs[u]
        /\ tabs'[t].user = new /\ tabs'[t].token = new /\ tabs'[t].loading = tabs[t].loading
    BY <1>1 DEF SessionsInv, TabsInv, TabShape
  <1>3. /\ adrift' \subseteq Tabs
        /\ Pending(t, "restore") => t \in adrift'
        /\ new # cookie => Tabs \ {t} \subseteq adrift'
        /\ adrift \ {t} \subseteq adrift'
    BY <1>1 DEF AdriftAfter, Others, SessionsInv, TabsInv, t
  <1>4. \A u \in Tabs : Restoring(u, requests') <=> Restoring(u, requests)
    BY AnswerTaken
  <1>5. tabs[t].loading => Restoring(t, requests) /\ Pending(t, "restore")
    BY <1>1 DEF SessionsInv, TabsInv, InStep, Restoring, Pending
  <1> HIDE DEF t
  <1>6. InStep(t, cookie', tabs', requests', adrift')
    BY <1>1, <1>2, <1>3, <1>4, <1>5 DEF InStep
  <1>7. \A u \in Tabs \ {t} : InStep(u, cookie', tabs', requests', adrift')
    BY <1>2, <1>3, <1>4 DEF InStep, SessionsInv, TabsInv
  <1>8. TabsInv'
    <2>1. \A u \in Tabs : /\ Good(tabs'[u].user, accounts, rerolled)
                         /\ Good(tabs'[u].token, accounts, rerolled)
      BY <1>2 DEF SessionsInv, TabsInv
    <2>2. QED
      BY <2>1, <1>2, <1>3, <1>6, <1>7, TabsPrimed
  <1>9. \A q \in requests' : Restores(q, cookie', tabs', adrift')
    <2>1. \A q \in requests' :
             q \in requests /\ q.tab \in Tabs /\ WellFormed(q) /\ Restores(q, cookie, tabs, adrift)
      BY AnswerTaken DEF SessionsInv, RequestsInv, WellFormed, RequestShape
    <2>2. \A q \in requests' : q.kind = "restore" /\ q.tab = t => t \in adrift' /\ tabs'[t].loading
      BY <2>1, <1>2, <1>3 DEF Pending, WellFormed, Restores
    <2>3. \A q \in requests' : q.kind = "restore" /\ q.tab # t => Restores(q, cookie', tabs', adrift')
      BY <2>1, <1>2, <1>3 DEF Restores
    <2>4. QED
      BY <2>1, <2>2, <2>3 DEF Restores
  <1>10. QED
    BY <1>8, <1>9, AnswerTaken DEF SessionsInv, RequestsInv

\* The answers of login and signup keep the invariant.
LEMMA InvSignedIn == ASSUME SessionsInv, NEW r \in requests, signedIn(r) PROVE SessionsInv'
  <1>1. r.kind # "restore" /\ Done(r) /\ UNCHANGED <<accounts, moves, rerolled>>
    BY DEF signedIn, Answered
  <1>2. CASE r.ok
    BY <1>1, <1>2, AnswerTaken, CookieSet DEF signedIn
  <1>3. CASE ~r.ok
    BY <1>1, <1>3, AnswerTaken DEF signedIn, SessionsInv, TabsInv, RequestsInv, InStep
  <1>4. QED
    BY <1>2, <1>3

\* The answer of logout keeps the invariant.
LEMMA InvLoggedOut == ASSUME SessionsInv, NEW r \in requests, loggedOut(r) PROVE SessionsInv'
  <1>1. r.kind = "logout" /\ Done(r) /\ UNCHANGED <<accounts, moves, rerolled>>
        /\ tabs' = [tabs EXCEPT ![r.tab].user = Nobody, ![r.tab].token = Nobody]
    BY DEF loggedOut, Answered
  <1>2. Good(Nobody, accounts, rerolled)
    BY DEF Good
  <1>3. CASE r.ok
    BY <1>1, <1>2, <1>3, CookieSet DEF loggedOut, clearCookie
  <1>4. CASE ~r.ok
    <2> DEFINE t == r.tab
    <2>1. cookie' = cookie /\ adrift' = adrift \cup {t}
      BY <1>4 DEF loggedOut
    <2>2. t \in Tabs /\ tabs[t] \in TabShape /\ Nobody \in TokenShape
      BY <1>1, AnswerTaken DEF RequestShape, SessionsInv, TabsInv, TokenShape, Nobody
    <2>3. /\ tabs' \in [Tabs -> TabShape]
          /\ \A u \in Tabs \ {t} : tabs'[u] = tabs[u]
          /\ tabs'[t].user = Nobody /\ tabs'[t].token = Nobody /\ tabs'[t].loading = tabs[t].loading
      BY <1>1, <2>2 DEF SessionsInv, TabsInv, TabShape
    <2> HIDE DEF t
    <2>4. \A u \in Tabs : InStep(u, cookie', tabs', requests', adrift')
      <3>1. \A u \in Tabs : Restoring(u, requests) => Restoring(u, requests')
        BY <1>1, AnswerTaken
      <3>2. \A u \in Tabs : InStep(u, cookie, tabs, requests, adrift)
        BY DEF SessionsInv, TabsInv
      <3>3. \A u \in Tabs \ {t} : InStep(u, cookie', tabs', requests', adrift')
        BY <2>1, <2>3, <3>1, <3>2 DEF InStep
      <3>4. InStep(t, cookie', tabs', requests', adrift')
        BY <2>1, <2>2, <2>3, <3>1, <3>2 DEF InStep
      <3>5. QED
        BY <3>3, <3>4
    <2>5. TabsInv'
      <3>1. \A u \in Tabs : /\ Good(tabs'[u].user, accounts, rerolled)
                           /\ Good(tabs'[u].token, accounts, rerolled)
        BY <1>2, <2>3 DEF SessionsInv, TabsInv
      <3>2. QED
        BY <3>1, <1>1, <2>1, <2>2, <2>3, <2>4, TabsPrimed DEF SessionsInv, TabsInv
    <2>6. \A q \in requests' : q \in requests /\ q.tab \in Tabs /\ Restores(q, cookie, tabs, adrift)
      BY <1>1, AnswerTaken DEF SessionsInv, RequestsInv, WellFormed, RequestShape
    <2>7. \A q \in requests' : Restores(q, cookie', tabs', adrift')
      BY <2>1, <2>3, <2>6 DEF Restores
    <2>8. QED
      BY <1>1, <2>5, <2>7, AnswerTaken DEF SessionsInv, RequestsInv
  <1>5. QED
    BY <1>3, <1>4

-----------------------------------------------------------------------------
(* The sessions as a whole                                                 *)

\* The invariant holds in every initial state.
LEMMA InvInit == Init => SessionsInv
  <1> SUFFICES ASSUME Init PROVE SessionsInv
    OBVIOUS
  <1>1. /\ accounts = SeedAccounts /\ moves = 0 /\ adrift = {} /\ rerolled = {}
        /\ cookie \in {Nobody} \cup {createToken(id) : id \in Ids}
        /\ tabs \in [Tabs -> {FreshTab, SignedInTab}]
        /\ requests = {NewRequest(t, "restore", "none", "none") : t \in {s \in Tabs : tabs[s].loading}}
    BY DEF Init, SessionsInit
  <1>2. TablesInv
    BY <1>1, SessionsAssumption DEF SessionsAssumption, TablesInv, OneAccountPerEmail, Ids, Rows
  <1>3. Good(cookie, accounts, rerolled) /\ Good(Nobody, accounts, rerolled)
    BY <1>1, <1>2, IssuedGood DEF Good
  <1>4. cookie \in TokenShape /\ Nobody \in TokenShape
    BY <1>2, <1>3, GoodShape DEF TablesInv
  <1>5. \A r \in requests :
           /\ WellFormed(r) /\ r.kind = "restore" /\ r.at = "sent" /\ r.heeded
           /\ r.token = cookie /\ r.answer = Nobody
           /\ r.tab \in Tabs /\ tabs[r.tab].loading
           /\ r = NewRequest(r.tab, "restore", "none", "none")
    <2>1. \A t \in Tabs : LET r == NewRequest(t, "restore", "none", "none")
                         IN  /\ WellFormed(r) /\ r.kind = "restore" /\ r.at = "sent" /\ r.heeded
                             /\ r.token = cookie /\ r.answer = Nobody /\ r.tab = t
      BY <1>4 DEF NewRequest, WellFormed, RequestShape
    <2>2. \A r \in requests : \E t \in Tabs :
             tabs[t].loading /\ r = NewRequest(t, "restore", "none", "none")
      BY <1>1
    <2>3. QED
      BY <2>1, <2>2
  <1>6. \A t \in Tabs : tabs[t].loading => Restoring(t, requests)
    <2>1. \A t \in Tabs : tabs[t].loading => NewRequest(t, "restore", "none", "none") \in requests
      BY <1>1
    <2>2. QED
      BY <2>1 DEF Restoring, NewRequest
  <1>7. \A t \in Tabs : tabs[t] = FreshTab \/ tabs[t] = SignedInTab
    BY <1>1
  <1>8. FreshTab \in TabShape /\ SignedInTab \in TabShape
    BY <1>4 DEF FreshTab, SignedInTab, TabShape
  <1>9. TabsInv
    <2>1. tabs \in [Tabs -> TabShape]
      BY <1>1, <1>8
    <2>2. \A t \in Tabs :
             /\ Good(tabs[t].user, accounts, rerolled) /\ Good(tabs[t].token, accounts, rerolled)
             /\ InStep(t, cookie, tabs, requests, adrift)
      BY <1>3, <1>6, <1>7 DEF FreshTab, SignedInTab, InStep
    <2>3. QED
      BY <2>1, <2>2, <1>1, <1>3 DEF TabsInv
  <1>10. RequestsInv
    BY <1>3, <1>5 DEF RequestsInv, Restores
  <1>11. QED
    BY <1>2, <1>9, <1>10 DEF SessionsInv

\* Every step of the sessions keeps the invariant.
LEMMA InvSessionStep == ASSUME SessionsInv, SessionStep PROVE SessionsInv' /\ Grows
  <1>1. ASSUME NEW t \in Tabs, NEW email \in Emails, submitLogin(t, email) PROVE SessionsInv' /\ Grows
    BY <1>1, RequestSent, SameTable DEF submitLogin
  <1>2. ASSUME NEW t \in Tabs, NEW email \in Emails, NEW role \in {"USER", "ADMIN"},
               submitSignup(t, email, role)
        PROVE  SessionsInv' /\ Grows
    BY <1>2, InvForms, SameTable DEF submitSignup
  <1>3. ASSUME NEW t \in Tabs, clickLogout(t) PROVE SessionsInv' /\ Grows
    BY <1>3, RequestSent, SameTable DEF clickLogout
  <1>4. ASSUME NEW id \in Ids, NEW role \in GrantedRoles, changeRole(id, role) PROVE SessionsInv' /\ Grows
    BY <1>4, InvChangeRole, SessionsAssumption DEF SessionsAssumption
  <1>5. ASSUME NEW r \in requests, Serve(r) PROVE SessionsInv' /\ Grows
    <2>1. CASE createUser(r)
      BY <2>1, InvCreateUser
    <2>2. CASE profile(r) \/ login(r) \/ findUser(r) \/ logout(r)
      <3>1. UNCHANGED <<accounts, rerolled>>
        BY <2>2 DEF profile, login, findUser, logout, unchangedInBrowser
      <3>2. QED
        BY <2>2, <3>1, SameTable, InvProfile, InvLogin, InvFindUser, InvLogout
    <2>3. QED
      BY <1>5, <2>1, <2>2 DEF Serve
  <1>6. ASSUME NEW r \in requests, lose(r) PROVE SessionsInv' /\ Grows
    BY <1>6, InvLose, SameTable DEF lose
  <1>7. ASSUME NEW r \in requests, Answer(r) PROVE SessionsInv' /\ Grows
    <2>1. UNCHANGED <<accounts, rerolled>>
      BY <1>7 DEF Answer, restored, signedIn, loggedOut
    <2>2. QED
      BY <1>7, <2>1, SameTable, InvRestored, InvSignedIn, InvLoggedOut DEF Answer
  <1>8. QED
    BY <1>1, <1>2, <1>3, <1>4, <1>5, <1>6, <1>7 DEF SessionStep

\* A step that changes no more of the sessions than the count of the moves.
LEMMA InvElsewhere ==
  ASSUME SessionsInv, Move \/ UNCHANGED moves,
         UNCHANGED <<accounts, cookie, tabs, requests, adrift, rerolled>>
  PROVE  SessionsInv'
  <1>1. moves' \in 0..MaxMoves
    BY MoveCounted DEF SessionsInv, TablesInv
  <1>2. QED
    BY <1>1 DEF SessionsInv, TablesInv, TabsInv, RequestsInv, OneAccountPerEmail, Ids, InStep

\* Every step keeps the invariant.
LEMMA InvStep == ASSUME SessionsInv, [Next]_vars PROVE SessionsInv'
  <1>1. ASSUME NEW t \in Tabs, reloadTab(t) PROVE SessionsInv'
    BY <1>1, InvReload DEF reloadTab
  <1>2. ASSUME NEW t \in Tabs, tokenEffect(t) PROVE SessionsInv'
    BY <1>2, InvElsewhere DEF tokenEffect, sessionVars
  <1>3. CASE SessionStep
    BY <1>3, InvSessionStep
  <1>4. ASSUME NEW id \in Ids, emitEvent(id) PROVE SessionsInv'
    BY <1>4, InvElsewhere DEF emitEvent
  <1>5. ASSUME NEW l \in links, connect(l) \/ dropConnection(l) \/ handleEvent(l) PROVE SessionsInv'
    BY <1>5, InvElsewhere DEF connect, dropConnection, handleEvent, sessionVars
  <1>6. CASE UNCHANGED vars
    BY <1>6, InvElsewhere DEF vars, sessionVars
  <1>7. QED
    BY <1>1, <1>2, <1>3, <1>4, <1>5, <1>6 DEF Next

\* The invariant holds in every reachable state.
LEMMA SessionsInvariance == Spec => []SessionsInv
  BY InvInit, InvStep, PTL DEF Spec

\* However signups interleave, no two accounts ever have the same email.
THEOREM AccountsUnique == Spec => []OneAccountPerEmail
  <1>1. SessionsInv => OneAccountPerEmail
    BY DEF SessionsInv, TablesInv
  <1>2. QED
    BY <1>1, SessionsInvariance, PTL

\* With any number of tabs, a tab that is not adrift and has restored shows the
\* account of the browser's cookie.
THEOREM SessionShown == Spec => []ShownIsSession
  <1>1. SessionsInv => ShownIsSession
    BY DEF SessionsInv, TabsInv, InStep, ShownIsSession
  <1>2. QED
    BY <1>1, SessionsInvariance, PTL

\* And it shows the role the backend reads in that cookie, unless the role was
\* changed in the database.
THEOREM RoleServed == Spec => []ShownRoleIsServed
  <1>1. SessionsInv => ShownRoleIsServed
    <2> SUFFICES ASSUME SessionsInv, NEW t \in Tabs \ adrift, ~tabs[t].loading,
                        cookie.id \notin rerolled
                 PROVE  tabs[t].user.role = cookie.role
      BY DEF ShownRoleIsServed
    <2>1. tabs[t].user.id = cookie.id
      BY DEF SessionsInv, TabsInv, InStep
    <2>2. Good(tabs[t].user, accounts, rerolled) /\ Good(cookie, accounts, rerolled)
      BY DEF SessionsInv, TabsInv
    <2>3. CASE cookie.id = 0
      BY <2>1, <2>2, <2>3, GoodShape DEF SessionsInv, TablesInv
    <2>4. CASE cookie.id # 0
      BY <2>1, <2>2, <2>4 DEF Good, Nobody
    <2>5. QED
      BY <2>3, <2>4
  <1>2. QED
    BY <1>1, SessionsInvariance, PTL
=============================================================================
