----------------------------- MODULE EventFeed -----------------------------
(***************************************************************************)
(* The live event feed.  The bus of the server hands every event to        *)
(* broadcast, which sends it to the room of the account it is about and to *)
(* the room of the administrators; SocketContext keeps a connection for    *)
(* the token of its tab and shows the newest events it has received.  An   *)
(* effect of SocketContext follows the token, a moment after AuthContext   *)
(* has changed it, and socket.io reconnects by itself, without what was    *)
(* sent meanwhile.                                                         *)
(***************************************************************************)
EXTENDS Sessions

CONSTANT FeedCap    \* events a tab keeps (50)

FeedAssumption == FeedCap \in Nat \ {0}

ASSUME FeedAssumption

VARIABLES
    links,      \* the socket.io clients: tab, token, connected or not, channel
    seen,       \* the token the effect of each tab ran for last
    feed,       \* SocketContext's events, newest first
    emitted,    \* history: the account each event was about, in order
    feedOf      \* history: tokens a tab has listened with since its feed was cleared

feedVars == <<links, seen, feed, emitted, feedOf>>

vars == <<sessionVars, feedVars>>

-----------------------------------------------------------------------------
ADMIN_ROLES == {"SUPER_ADMIN", "SENIOR_MANAGER", "AUDITOR"}

\* An event about an account reaches a connected socket once for each of the
\* two rooms, user:<id> and admin, that its token has joined.
Copies(link, subject) ==
    IF ~link.up THEN 0
    ELSE (IF link.token.id = subject THEN 1 ELSE 0)
            + (IF link.token.role \in ADMIN_ROLES THEN 1 ELSE 0)

Client(t, token) == [tab |-> t, token |-> token, up |-> FALSE, channel |-> <<>>]

\* emitEvent of the bus and broadcast: one event, numbered by its position in
\* emitted, into the channel of every socket it is for.
emitEvent(subject) ==
    /\ Move
    /\ emitted' = Append(emitted, subject)
    /\ links' = {[l EXCEPT !.channel = @ \o [i \in 1..Copies(l, subject) |-> Len(emitted')]] :
                    l \in links}
    /\ UNCHANGED <<accounts, cookie, tabs, requests, adrift, rerolled, seen, feed, feedOf>>

\* The handshake: the token is verified and the rooms are joined.
connect(l) ==
    /\ ~l.up
    /\ links' = (links \ {l}) \cup {[l EXCEPT !.up = TRUE]}
    /\ UNCHANGED <<sessionVars, seen, feed, emitted, feedOf>>

\* The connection or the server goes down, with what was under way.
dropConnection(l) ==
    /\ Move
    /\ l.up
    /\ links' = (links \ {l}) \cup {Client(l.tab, l.token)}
    /\ UNCHANGED <<accounts, cookie, tabs, requests, adrift, rerolled,
                   seen, feed, emitted, feedOf>>

\* Mutant: one event too many is kept.
TrimLate(list) == IF Len(list) > FeedCap + 1 THEN SubSeq(list, 1, FeedCap + 1) ELSE list

\* slice(0, 50)
Trim(list) == IF Len(list) > FeedCap THEN SubSeq(list, 1, FeedCap) ELSE list

\* Mutant: the new event goes to the end.
WithNewestLast(n, list) == Append(list, n)

WithNewest(n, list) == <<n>> \o list

handleEvent(l) ==
    /\ l.channel # <<>>
    /\ feed' = [feed EXCEPT ![l.tab] = Trim(WithNewest(Head(l.channel), @))]
    /\ links' = (links \ {l}) \cup {[l EXCEPT !.channel = Tail(@)]}
    /\ UNCHANGED <<sessionVars, seen, emitted, feedOf>>

\* Mutant: the effect returns no cleanup.
LinksAfterCleanupMissed(t) == links

LinksAfterCleanup(t) == {l \in links : l.tab # t}

\* The effect on [token], for another token: the cleanup of the run before it disconnects its
\* client; without a token the feed is cleared, with one a client is started
\* and the feed goes on.
tokenEffect(t) ==
    LET token == tabs[t].token
    IN  /\ token # seen[t]
        /\ seen' = [seen EXCEPT ![t] = token]
        /\ IF token = Nobody
           THEN /\ links' = LinksAfterCleanup(t)
                /\ feed' = [feed EXCEPT ![t] = <<>>]
                /\ feedOf' = [feedOf EXCEPT ![t] = {}]
           ELSE /\ links' = LinksAfterCleanup(t) \cup {Client(t, token)}
                /\ feedOf' = [feedOf EXCEPT ![t] = @ \cup {token}]
                /\ UNCHANGED feed
        /\ UNCHANGED <<sessionVars, emitted>>

\* A reload takes the socket and the feed with it.
reloadTab(t) ==
    /\ Reload(t)
    /\ links' = {l \in links : l.tab # t}
    /\ seen' = [seen EXCEPT ![t] = Nobody]
    /\ feed' = [feed EXCEPT ![t] = <<>>]
    /\ feedOf' = [feedOf EXCEPT ![t] = {}]
    /\ UNCHANGED emitted

-----------------------------------------------------------------------------
Init ==
    /\ SessionsInit
    /\ links = {}
    /\ seen = [t \in Tabs |-> Nobody]
    /\ feed = [t \in Tabs |-> <<>>]
    /\ emitted = <<>>
    /\ feedOf = [t \in Tabs |-> {}]

Next ==
    \/ \E t \in Tabs : reloadTab(t) \/ tokenEffect(t)
    \/ SessionStep /\ UNCHANGED feedVars
    \/ \E id \in Ids : emitEvent(id)
    \/ \E l \in links : connect(l) \/ dropConnection(l) \/ handleEvent(l)

Spec == Init /\ [][Next]_vars

-----------------------------------------------------------------------------
(* Properties                                                              *)

\* The shape of the state: at most one socket.io client per tab, for the token
\* its effect ran for last, and events that were emitted.
TypeOK ==
    /\ SessionsTypeOK
    /\ links \subseteq [tab : Tabs, token : Tokens \ {Nobody}, up : BOOLEAN,
                        channel : Seq(DOMAIN emitted)]
    /\ \A l \in links : l.token = seen[l.tab]
    /\ \A l, m \in links : l.tab = m.tab => l = m
    /\ seen \in [Tabs -> Tokens]
    /\ feed \in [Tabs -> Seq(DOMAIN emitted)]
    /\ \A t \in Tabs : Len(feed[t]) <= FeedCap
    /\ emitted \in Seq(Ids)
    /\ feedOf \in [Tabs -> SUBSET (Tokens \ {Nobody})]

IsFor(token, n) == token.id = emitted[n] \/ token.role \in ADMIN_ROLES

\* A tab shows only events sent to a token it has held since its feed was last
\* cleared, and nothing once it is signed out: the events of a session do not
\* outlive its logout, whatever is still in the channel.
FeedIsAddressed ==
    \A t \in Tabs : \A i \in DOMAIN feed[t] :
        \E token \in feedOf[t] : IsFor(token, feed[t][i])

\* The newest event is on top, across reconnections and changes of account, and
\* none is shown twice but to an administrator it is about, who is in both
\* rooms.
FeedNewestFirst ==
    \A t \in Tabs : \A i, j \in DOMAIN feed[t] :
        i < j =>
            \/ feed[t][i] > feed[t][j]
            \/ /\ feed[t][i] = feed[t][j]
               /\ j = i + 1
               /\ \E token \in feedOf[t] :
                     token.id = emitted[feed[t][i]] /\ token.role \in ADMIN_ROLES
=============================================================================
