------------------------------ MODULE Sessions ------------------------------
(***************************************************************************)
(* Accounts, the session cookie and what each browser tab believes of it.  *)
(* The cookie is the only session the backend knows: a signed token that   *)
(* repeats the id and the role the User row had when it was issued, shared *)
(* by all tabs of the browser.  AuthContext keeps its own copy per tab:    *)
(* the user shown, and the token handed to the socket, which a reload      *)
(* forgets.  Every call is a request that travels, is served by            *)
(* authController and answered; any may be lost on the way there or back.  *)
(***************************************************************************)
EXTENDS Naturals, Sequences, FiniteSets

CONSTANTS
    Tabs,           \* tabs of one browser
    Emails,
    SeedAccounts,   \* the User table at the start, a sequence of [email, role]
    GrantedRoles,   \* roles an operator gives to accounts in the database
    MaxMoves        \* bound: what users, administrators and the network do

Roles == {"USER", "AUDITOR", "SENIOR_MANAGER", "SUPER_ADMIN"}

SessionsAssumption ==
    /\ MaxMoves \in Nat
    /\ GrantedRoles \subseteq Roles
    /\ SeedAccounts \in Seq([email : Emails, role : Roles])
    /\ \A i, j \in DOMAIN SeedAccounts :
          SeedAccounts[i].email = SeedAccounts[j].email => i = j

ASSUME SessionsAssumption

VARIABLES
    accounts,   \* the User table; an id is a position
    cookie,     \* the token of the browser's cookie jar, or Nobody
    tabs,       \* AuthContext of each tab: user, token and loading
    requests,   \* calls of /api/auth on their way
    moves,      \* history: moves made so far
    adrift,     \* history: tabs that missed a change of the cookie
    rerolled    \* history: accounts whose role was changed in the database

sessionVars == <<accounts, cookie, tabs, requests, moves, adrift, rerolled>>

-----------------------------------------------------------------------------
(* Tokens, requests and their answers                                      *)

Nobody == [id |-> 0, role |-> "NONE"]

Ids == 1..Len(accounts)

\* What createToken signs, and login and signup answer as the user.
createToken(id) == [id |-> id, role |-> accounts[id].role]

normalizeRole(role) ==
    CASE role \in {"ADMIN", "SUPERADMIN", "SUPER_ADMIN"} -> "SUPER_ADMIN"
      [] role \in Roles \ {"SUPER_ADMIN"} -> role
      [] OTHER -> "USER"

\* Mutant: the row is read without its role, and the form's default is shown.
profileRowDefault(id) == [id |-> id, role |-> "USER"]

profileRow(id) == [id |-> id, role |-> accounts[id].role]

IdsOf(email) == {id \in Ids : accounts[id].email = email}

NewRequest(t, kind, email, input) ==
    [tab |-> t, kind |-> kind, at |-> "sent", token |-> cookie, email |-> email,
     input |-> input, ok |-> FALSE, answer |-> Nobody, heeded |-> TRUE]

Pending(t, kind) ==
    \E r \in requests : r.tab = t /\ r.kind = kind /\ r.heeded

Send(r) == requests' = requests \cup {r}

\* The answer of a request whose tab has been reloaded reaches nobody.
Reply(r, s) == requests' = (requests \ {r}) \cup (IF r.heeded THEN {s} ELSE {})

Succeed(r, answer) ==
    Reply(r, [r EXCEPT !.at = "answered", !.ok = TRUE, !.answer = answer])

Refuse(r) == Reply(r, [r EXCEPT !.at = "answered"])

Move == moves < MaxMoves /\ moves' = moves + 1

-----------------------------------------------------------------------------
(* What a user does                                                        *)

FreshTab == [user |-> Nobody, token |-> Nobody, loading |-> TRUE]

\* A tab is opened or reloaded: AuthContext starts anew and asks for the
\* profile.  The answers the tab was waiting for reach nobody; a signup
\* already on its way is served all the same.
Reload(t) ==
    /\ Move
    /\ tabs' = [tabs EXCEPT ![t] = FreshTab]
    /\ requests' = {r \in requests : r.tab # t}
          \cup {[r EXCEPT !.heeded = FALSE] :
                   r \in {s \in requests : s.tab = t /\ s.kind = "signup" /\ s.at # "answered"}}
          \cup {NewRequest(t, "restore", "none", "none")}
    /\ adrift' = adrift \ {t}
    /\ UNCHANGED <<accounts, cookie, rerolled>>

\* The login page is open to a tab that is signed in or still restoring.
submitLogin(t, email) ==
    /\ Move
    /\ ~Pending(t, "login")
    /\ Send(NewRequest(t, "login", email, "none"))
    /\ UNCHANGED <<accounts, cookie, tabs, adrift, rerolled>>

submitSignup(t, email, role) ==
    /\ Move
    /\ ~Pending(t, "signup")
    /\ Send(NewRequest(t, "signup", email, role))
    /\ UNCHANGED <<accounts, cookie, tabs, adrift, rerolled>>

\* Navbar offers it to a tab that shows a user.
clickLogout(t) ==
    /\ Move
    /\ tabs[t].user # Nobody
    /\ ~Pending(t, "logout")
    /\ Send(NewRequest(t, "logout", "none", "none"))
    /\ UNCHANGED <<accounts, cookie, tabs, adrift, rerolled>>

\* An operator updates the role in the database, as the guide suggests.
changeRole(id, role) ==
    /\ Move
    /\ role # accounts[id].role
    /\ accounts' = [accounts EXCEPT ![id].role = role]
    /\ rerolled' = rerolled \cup {id}
    /\ UNCHANGED <<cookie, tabs, requests, adrift>>

-----------------------------------------------------------------------------
(* authController, behind authMiddleware where the route says so           *)

\* authMiddleware lets a request pass whose cookie holds a token that verifies.
Authenticated(r) == r.token # Nobody

unchangedInBrowser == UNCHANGED <<cookie, tabs, moves, adrift, rerolled>>

profile(r) ==
    /\ r.kind = "restore" /\ r.at = "sent"
    /\ IF Authenticated(r) THEN Succeed(r, profileRow(r.token.id)) ELSE Refuse(r)
    /\ UNCHANGED accounts /\ unchangedInBrowser

\* Refused to an unknown email and to a wrong password.
login(r) ==
    /\ r.kind = "login" /\ r.at = "sent"
    /\ \/ \E id \in IdsOf(r.email) : Succeed(r, createToken(id))
       \/ Refuse(r)
    /\ UNCHANGED accounts /\ unchangedInBrowser

\* Mutant: the column has no unique constraint.
UniqueEmailUnchecked(email) == TRUE

UniqueEmail(email) == IdsOf(email) = {}

\* signup looks for the email, hashes the password, and only then inserts.
findUser(r) ==
    /\ r.kind = "signup" /\ r.at = "sent"
    /\ IF IdsOf(r.email) # {} THEN Refuse(r)
       ELSE requests' = (requests \ {r}) \cup {[r EXCEPT !.at = "hashing"]}
    /\ UNCHANGED accounts /\ unchangedInBrowser

createUser(r) ==
    LET row == [email |-> r.email, role |-> normalizeRole(r.input)]
    IN  /\ r.kind = "signup" /\ r.at = "hashing"
        /\ \/ /\ UniqueEmail(r.email)
              /\ accounts' = Append(accounts, row)
              /\ Succeed(r, [id |-> Len(accounts) + 1, role |-> row.role])
           \/ /\ ~UniqueEmail(r.email)
              /\ Refuse(r)
              /\ UNCHANGED accounts
        /\ unchangedInBrowser

logout(r) ==
    /\ r.kind = "logout" /\ r.at = "sent"
    /\ IF Authenticated(r) THEN Succeed(r, Nobody) ELSE Refuse(r)
    /\ UNCHANGED accounts /\ unchangedInBrowser

\* The request, the server's work on it or its answer is lost: the tab sees
\* an error, whether or not the server has acted.
lose(r) ==
    /\ r.at # "answered" \/ r.ok
    /\ Move
    /\ Reply(r, [r EXCEPT !.at = "answered", !.ok = FALSE, !.answer = Nobody,
                          !.input = "lost"])
    /\ UNCHANGED <<accounts, cookie, tabs, adrift, rerolled>>

-----------------------------------------------------------------------------
(* The answers, in AuthContext                                             *)

\* Mutant: the attributes differ from those the cookie was set with.
clearCookieMissed == cookie

clearCookie == Nobody

Answered(r, kind) == r.kind = kind /\ r.at = "answered" /\ r.heeded

Done(r) == requests' = requests \ {r}

Others(t) == Tabs \ {t}

\* The tabs that are adrift once t has set the cookie to this token: those that
\* have not seen the change, and t itself while its first profile request, sent
\* with the cookie of before, can still overwrite what it shows.
AdriftAfter(t, token) ==
    (IF token = cookie THEN adrift \ {t} ELSE Others(t))
        \cup (IF Pending(t, "restore") THEN {t} ELSE {})

restored(r) ==
    /\ Answered(r, "restore")
    /\ Done(r)
    /\ tabs' = [tabs EXCEPT ![r.tab] =
          IF r.ok THEN [@ EXCEPT !.user = r.answer, !.loading = FALSE]
                  ELSE [FreshTab EXCEPT !.loading = FALSE]]
    /\ adrift' = IF r.input = "lost" THEN adrift \cup {r.tab} ELSE adrift
    /\ UNCHANGED <<accounts, cookie, moves, rerolled>>

\* login and signup end the same way: the answer sets the cookie, then the tab.
signedIn(r) ==
    /\ Answered(r, "login") \/ Answered(r, "signup")
    /\ Done(r)
    /\ IF r.ok
       THEN /\ cookie' = r.answer
            /\ tabs' = [tabs EXCEPT ![r.tab].user = r.answer, ![r.tab].token = r.answer]
            /\ adrift' = AdriftAfter(r.tab, r.answer)
       ELSE UNCHANGED <<cookie, tabs, adrift>>
    /\ UNCHANGED <<accounts, moves, rerolled>>

\* An error is swallowed: the tab forgets the user, the cookie stays.
loggedOut(r) ==
    /\ Answered(r, "logout")
    /\ Done(r)
    /\ tabs' = [tabs EXCEPT ![r.tab].user = Nobody, ![r.tab].token = Nobody]
    /\ IF r.ok
       THEN /\ cookie' = clearCookie
            /\ adrift' = AdriftAfter(r.tab, Nobody)
       ELSE /\ adrift' = adrift \cup {r.tab}
            /\ UNCHANGED cookie
    /\ UNCHANGED <<accounts, moves, rerolled>>

-----------------------------------------------------------------------------
SignedInTab == [user |-> cookie, token |-> cookie, loading |-> FALSE]

\* Each tab has just been opened, or has signed in earlier.
SessionsInit ==
    /\ accounts = SeedAccounts
    /\ cookie \in {Nobody} \cup {createToken(id) : id \in Ids}
    /\ tabs \in [Tabs -> {FreshTab, SignedInTab}]
    /\ requests = {NewRequest(t, "restore", "none", "none") :
                      t \in {s \in Tabs : tabs[s].loading}}
    /\ moves = 0
    /\ adrift = {}
    /\ rerolled = {}

Serve(r) == profile(r) \/ login(r) \/ findUser(r) \/ createUser(r) \/ logout(r)

Answer(r) == restored(r) \/ signedIn(r) \/ loggedOut(r)

\* Everything but a reload, which takes more than the session with it.
SessionStep ==
    \/ \E t \in Tabs, email \in Emails :
          \/ submitLogin(t, email)
          \/ \E role \in {"USER", "ADMIN"} : submitSignup(t, email, role)
    \/ \E t \in Tabs : clickLogout(t)
    \/ \E id \in Ids, role \in GrantedRoles : changeRole(id, role)
    \/ \E r \in requests : Serve(r) \/ lose(r) \/ Answer(r)

-----------------------------------------------------------------------------
(* Properties                                                              *)

Tokens == {Nobody} \cup [id : Ids, role : Roles]

\* The shape of the state: a table with known roles, tokens of existing
\* accounts, and requests of the four kinds.
SessionsTypeOK ==
    /\ accounts \in Seq([email : Emails, role : Roles])
    /\ cookie \in Tokens
    /\ tabs \in [Tabs -> [user : Tokens, token : Tokens, loading : BOOLEAN]]
    /\ requests \subseteq
          [tab : Tabs, kind : {"restore", "login", "signup", "logout"},
           at : {"sent", "hashing", "answered"}, token : Tokens,
           email : Emails \cup {"none"},
           input : {"none", "USER", "ADMIN", "lost"},
           ok : BOOLEAN, answer : Tokens, heeded : BOOLEAN]
    /\ moves \in 0..MaxMoves
    /\ adrift \subseteq Tabs
    /\ rerolled \subseteq Ids

\* One account per email, although signup looks for the email and inserts the
\* row in two steps with the hashing of the password between them.
OneAccountPerEmail ==
    \A i, j \in Ids : accounts[i].email = accounts[j].email => i = j

\* A tab that has finished restoring shows the account whose cookie its calls
\* carry, and hands its socket a token of that account or none: all that can
\* set them apart is another tab's call, a lost answer, or a login that
\* overtook the profile request of the tab's start.
ShownIsSession ==
    \A t \in Tabs \ adrift :
        ~tabs[t].loading =>
            /\ tabs[t].user.id = cookie.id
            /\ tabs[t].token.id \in {0, cookie.id}

\* The pages open to the role a tab shows are those rbacMiddleware serves to
\* its cookie, unless the role was changed after the cookie was issued.
ShownRoleIsServed ==
    \A t \in Tabs \ adrift :
        ~tabs[t].loading /\ cookie.id \notin rerolled => tabs[t].user.role = cookie.role
=============================================================================
