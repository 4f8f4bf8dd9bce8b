-------------------------- MODULE EventFeedProofs --------------------------
(***************************************************************************)
(* The event feed, for any number of tabs, accounts, moves and events and  *)
(* any length of the feed: the types, for whom an event in a feed was, and *)
(* in which order a feed shows its events.                                 *)
(***************************************************************************)
EXTENDS SessionsProofs, SequenceTheorems

-----------------------------------------------------------------------------
(* The inductive invariant                                                 *)

LinkShape == [tab : Tabs, token : TokenShape, up : BOOLEAN, channel : Seq(Nat)]

\* An event about subject is for the holder of token.
ForToken(token, subject) == token.id = subject \/ token.role \in ADMIN_ROLES

\* An event about subject reaches the holder of token twice.
Twice(token, subject) == token.id = subject /\ token.role \in ADMIN_ROLES

\* A client belongs to the token its tab has now, and carries events for it.
LinkInv(l, tokenNow, held, events) ==
    /\ l \in LinkShape
    /\ l.token # Nobody /\ l.token = tokenNow[l.tab] /\ l.token \in held[l.tab]
    /\ \A i \in 1..Len(l.channel) :
          l.channel[i] \in 1..Len(events) /\ ForToken(l.token, events[l.channel[i]])

\* A feed holds events for tokens the tab has held, and not too many.
FeedInvOf(t, shown, held, events) ==
    /\ Len(shown[t]) <= FeedCap
    /\ \A i \in 1..Len(shown[t]) :
          /\ shown[t][i] \in 1..Len(events)
          /\ \E token \in held[t] : ForToken(token, events[shown[t][i]])

\* Events wait in a channel in the order they were emitted, later than all the
\* feed has; an event is twice in the two only for an administrator it is about,
\* and then in a row.
LinkOrder(l, shown, events) ==
    /\ \A i, j \in 1..Len(l.channel) : i < j =>
          \/ l.channel[i] < l.channel[j]
          \/ /\ l.channel[i] = l.channel[j] /\ j = i + 1
             /\ Twice(l.token, events[l.channel[i]])
    /\ \A i \in 1..Len(shown[l.tab]), j \in 1..Len(l.channel) :
          \/ shown[l.tab][i] < l.channel[j]
          \/ /\ shown[l.tab][i] = l.channel[j] /\ i = 1 /\ j = 1
             /\ Twice(l.token, events[l.channel[j]])

FeedOrder(t, shown, held, events) ==
    \A i, j \in 1..Len(shown[t]) : i < j =>
        \/ shown[t][i] > shown[t][j]
        \/ /\ shown[t][i] = shown[t][j] /\ j = i + 1
           /\ \E token \in held[t] : Twice(token, events[shown[t][i]])

HistoryInv ==
    /\ emitted \in Seq(Nat)
    /\ \A i \in 1..Len(emitted) : emitted[i] \in Ids
    /\ seen \in [Tabs -> TokenShape]
    /\ feedOf \in [Tabs -> SUBSET TokenShape]
    /\ \A t \in Tabs :
          /\ Good(seen[t], accounts, rerolled)
          /\ \A token \in feedOf[t] : token # Nobody /\ Good(token, accounts, rerolled)

LinksInv ==
    /\ \A l \in links : LinkInv(l, seen, feedOf, emitted) /\ LinkOrder(l, feed, emitted)
    /\ \A l, m \in links : l.tab = m.tab => l = m

FeedsInv ==
    /\ feed \in [Tabs -> Seq(Nat)]
    /\ \A t \in Tabs : FeedInvOf(t, feed, feedOf, emitted) /\ FeedOrder(t, feed, feedOf, emitted)

FeedInv == HistoryInv /\ LinksInv /\ FeedsInv

\* The two invariants of a step, from their parts.
LEMMA FeedsPrimed ==
  ASSUME feed' \in [Tabs -> Seq(Nat)],
         \A u \in Tabs : FeedInvOf(u, feed', feedOf', emitted'),
         \A u \in Tabs : FeedOrder(u, feed', feedOf', emitted')
  PROVE  FeedsInv'
  <1>1. \A u \in Tabs : FeedInvOf(u, feed, feedOf, emitted)'
    BY DEF FeedInvOf, ForToken
  <1>2. \A u \in Tabs : FeedOrder(u, feed, feedOf, emitted)'
    BY DEF FeedOrder, Twice
  <1>3. QED
    BY <1>1, <1>2 DEF FeedsInv

LEMMA LinksPrimed ==
  ASSUME \A l \in links' : LinkInv(l, seen', feedOf', emitted'),
         \A l \in links' : LinkOrder(l, feed', emitted'),
         \A l, m \in links' : l.tab = m.tab => l = m
  PROVE  LinksInv'
  <1>1. \A l \in links' : LinkInv(l, seen, feedOf, emitted)'
    BY DEF LinkInv, ForToken
  <1>2. \A l \in links' : LinkOrder(l, feed, emitted)'
    BY DEF LinkOrder, Twice
  <1>3. QED
    BY <1>1, <1>2 DEF LinksInv

\* The invariant holds in every initial state.
LEMMA FeedInit == Init => FeedInv
  <1> SUFFICES ASSUME Init PROVE FeedInv
    OBVIOUS
  <1>1. /\ links = {} /\ emitted = <<>>
        /\ seen = [t \in Tabs |-> Nobody] /\ feed = [t \in Tabs |-> <<>>]
        /\ feedOf = [t \in Tabs |-> {}]
    BY DEF Init
  <1>2. HistoryInv
    BY <1>1 DEF HistoryInv, TokenShape, Nobody, Good
  <1>3. LinksInv
    BY <1>1 DEF LinksInv
  <1>4. FeedsInv
    BY <1>1, FeedAssumption DEF FeedsInv, FeedInvOf, FeedOrder, FeedAssumption
  <1>5. QED
    BY <1>2, <1>3, <1>4 DEF FeedInv

\* A step of the sessions leaves the feed alone and its tokens good.
LEMMA FeedSessionStep == ASSUME FeedInv, Grows, UNCHANGED feedVars PROVE FeedInv'
  <1>1. HistoryInv'
    BY GoodStays DEF FeedInv, HistoryInv, feedVars, Grows
  <1>2. LinksInv' /\ FeedsInv'
    BY DEF FeedInv, LinksInv, FeedsInv, feedVars
  <1>3. QED
    BY <1>1, <1>2 DEF FeedInv

\* A cleared feed holds nothing, and a client of another tab is none the wiser.
LEMMA FeedCleared ==
  ASSUME FeedInv, NEW t \in Tabs, emitted' = emitted,
         feed' = [feed EXCEPT ![t] = <<>>], feedOf' = [feedOf EXCEPT ![t] = {}]
  PROVE  /\ FeedsInv'
         /\ \A l \in links : l.tab # t => LinkOrder(l, feed', emitted')
  <1>1. feed \in [Tabs -> Seq(Nat)] /\ feedOf \in [Tabs -> SUBSET TokenShape]
    BY DEF FeedInv, FeedsInv, HistoryInv
  <1>2. feed' \in [Tabs -> Seq(Nat)] /\ feed'[t] = <<>>
    BY <1>1
  <1>3. \A u \in Tabs \ {t} : feed'[u] = feed[u] /\ feedOf'[u] = feedOf[u]
    BY <1>1
  <1>4. FeedInvOf(t, feed', feedOf', emitted') /\ FeedOrder(t, feed', feedOf', emitted')
    BY <1>2, FeedAssumption DEF FeedInvOf, FeedOrder, FeedAssumption
  <1>5. \A u \in Tabs \ {t} : /\ FeedInvOf(u, feed', feedOf', emitted')
                             /\ FeedOrder(u, feed', feedOf', emitted')
    BY <1>3 DEF FeedInv, FeedsInv, FeedInvOf, FeedOrder
  <1>6. FeedsInv'
    BY <1>2, <1>4, <1>5, FeedsPrimed
  <1>7. \A l \in links : l.tab # t => LinkOrder(l, feed', emitted')
    BY <1>3 DEF FeedInv, LinksInv, LinkInv, LinkShape, LinkOrder
  <1>8. QED
    BY <1>6, <1>7

\* A reload clears what its tab had.
LEMMA FeedReload == ASSUME FeedInv, NEW t \in Tabs, reloadTab(t) PROVE FeedInv'
  <1>1. Grows
    BY SameTable DEF reloadTab, Reload
  <1>2. /\ seen' = [seen EXCEPT ![t] = Nobody] /\ feed' = [feed EXCEPT ![t] = <<>>]
        /\ feedOf' = [feedOf EXCEPT ![t] = {}] /\ emitted' = emitted
        /\ links' = {l \in links : l.tab # t}
    BY DEF reloadTab
  <1>3. HistoryInv'
    <2>1. Nobody \in TokenShape /\ Good(Nobody, accounts', rerolled')
      BY DEF TokenShape, Nobody, Good
    <2>2. QED
      BY <1>1, <1>2, <2>1, GoodStays DEF FeedInv, HistoryInv, Grows
  <1>4. LinksInv'
    <2>1. \A l \in links : l.tab # t => LinkInv(l, seen', feedOf', emitted')
      BY <1>2 DEF FeedInv, LinksInv, LinkInv, LinkShape, HistoryInv
    <2>2. \A l \in links' : LinkOrder(l, feed', emitted')
      BY <1>2, FeedCleared
    <2>3. QED
      BY <1>2, <2>1, <2>2, LinksPrimed DEF FeedInv, LinksInv
  <1>5. FeedsInv'
    BY <1>2, FeedCleared
  <1>6. QED
    BY <1>3, <1>4, <1>5 DEF FeedInv

\* The effect starts a client for the new token, or clears the feed.
LEMMA FeedEffect == ASSUME SessionsInv, FeedInv, NEW t \in Tabs, tokenEffect(t) PROVE FeedInv'
  <1> DEFINE token == tabs[t].token
             client == Client(t, token)
  <1>1. Grows /\ emitted' = emitted /\ seen' = [seen EXCEPT ![t] = token]
        /\ UNCHANGED <<accounts, rerolled>>
    BY SameTable DEF tokenEffect, sessionVars
  <1>2. token \in TokenShape /\ Good(token, accounts, rerolled)
    BY DEF SessionsInv, TabsInv, TabShape
  <1>3. CASE token = Nobody
    <2>1. /\ links' = {l \in links : l.tab # t}
          /\ feed' = [feed EXCEPT ![t] = <<>>] /\ feedOf' = [feedOf EXCEPT ![t] = {}]
      BY <1>3 DEF tokenEffect, LinksAfterCleanup
    <2> HIDE DEF token
    <2>2. HistoryInv'
      BY <1>1, <1>2, <2>1 DEF FeedInv, HistoryInv, Ids
    <2>3. LinksInv'
      <3>1. \A l \in links : l.tab # t => LinkInv(l, seen', feedOf', emitted')
        BY <1>1, <2>1 DEF FeedInv, LinksInv, LinkInv, LinkShape, HistoryInv
      <3>2. \A l \in links' : LinkOrder(l, feed', emitted')
        BY <1>1, <2>1, FeedCleared
      <3>3. QED
        BY <2>1, <3>1, <3>2, LinksPrimed DEF FeedInv, LinksInv
    <2>4. FeedsInv'
      BY <1>1, <2>1, FeedCleared
    <2>5. QED
      BY <2>2, <2>3, <2>4 DEF FeedInv
  <1>4. CASE token # Nobody
    <2>1. /\ links' = {l \in links : l.tab # t} \cup {client}
          /\ feed' = feed /\ feedOf' = [feedOf EXCEPT ![t] = @ \cup {token}]
      BY <1>4 DEF tokenEffect, LinksAfterCleanup
    <2>2. client.tab = t /\ client.token = token /\ client.channel = <<>> /\ client \in LinkShape
      BY <1>2 DEF Client, LinkShape
    <2> HIDE DEF token, client
    <2>3. HistoryInv'
      BY <1>1, <1>2, <1>4, <2>1 DEF FeedInv, HistoryInv, Ids
    <2>4. LinkInv(client, seen', feedOf', emitted')
      BY <1>1, <1>4, <2>1, <2>2 DEF LinkInv, FeedInv, HistoryInv
    <2>5. \A l \in links : l.tab # t => LinkInv(l, seen', feedOf', emitted')
      BY <1>1, <2>1 DEF FeedInv, LinksInv, LinkInv, LinkShape, HistoryInv
    <2>6. LinksInv'
      <3>1. LinkOrder(client, feed', emitted')
        BY <2>2 DEF LinkOrder
      <3>2. \A l \in links : LinkOrder(l, feed', emitted')
        BY <1>1, <2>1 DEF FeedInv, LinksInv
      <3>3. \A l \in links' : LinkInv(l, seen', feedOf', emitted') /\ LinkOrder(l, feed', emitted')
        BY <2>1, <2>4, <2>5, <3>1, <3>2
      <3>4. \A l, m \in links' : l.tab = m.tab => l = m
        BY <2>1, <2>2 DEF FeedInv, LinksInv
      <3>5. QED
        BY <3>3, <3>4, LinksPrimed
    <2>7. FeedsInv'
      <3>1. \A u \in Tabs : feedOf[u] \subseteq feedOf'[u]
        BY <2>1 DEF FeedInv, HistoryInv
      <3>2. \A u \in Tabs : FeedInvOf(u, feed', feedOf', emitted')
        BY <1>1, <2>1, <3>1 DEF FeedInv, FeedsInv, FeedInvOf
      <3>3. \A u \in Tabs : FeedOrder(u, feed', feedOf', emitted')
        BY <1>1, <2>1, <3>1 DEF FeedInv, FeedsInv, FeedOrder
      <3>4. feed' \in [Tabs -> Seq(Nat)]
        BY <2>1 DEF FeedInv, FeedsInv
      <3>5. QED
        BY <3>2, <3>3, <3>4, FeedsPrimed
    <2>8. QED
      BY <2>3, <2>6, <2>7 DEF FeedInv
  <1>5. QED
    BY <1>3, <1>4

\* A socket that comes up or goes down loses events but gains none.
LEMMA FeedConnection ==
  ASSUME FeedInv, NEW l \in links, connect(l) \/ dropConnection(l) PROVE FeedInv'
  <1> DEFINE up == [l EXCEPT !.up = TRUE]
             down == Client(l.tab, l.token)
  <1>1. UNCHANGED <<accounts, rerolled, seen, feed, emitted, feedOf>>
    BY DEF connect, dropConnection, sessionVars
  <1>2. HistoryInv' /\ FeedsInv'
    BY <1>1 DEF FeedInv, HistoryInv, FeedsInv, Ids
  <1>3. LinkInv(l, seen, feedOf, emitted)
    BY DEF FeedInv, LinksInv
  <1>4. LinkInv(up, seen, feedOf, emitted) /\ up.tab = l.tab
    BY <1>3 DEF LinkInv, LinkShape
  <1>5. LinkInv(down, seen, feedOf, emitted) /\ down.tab = l.tab
    BY <1>3 DEF LinkInv, LinkShape, Client
  <1>6. LinkOrder(up, feed, emitted) /\ LinkOrder(down, feed, emitted)
    <2>1. LinkOrder(l, feed, emitted)
      BY DEF FeedInv, LinksInv
    <2>2. up.tab = l.tab /\ up.token = l.token /\ up.channel = l.channel
      BY <1>3 DEF LinkInv, LinkShape
    <2>3. down.channel = <<>>
      BY DEF Client
    <2> HIDE DEF up, down
    <2>4. LinkOrder(up, feed, emitted)
      BY <2>1, <2>2 DEF LinkOrder
    <2>5. LinkOrder(down, feed, emitted)
      BY <2>3 DEF LinkOrder
    <2>6. QED
      BY <2>4, <2>5
  <1>7. links' = (links \ {l}) \cup {up} \/ links' = (links \ {l}) \cup {down}
    BY DEF connect, dropConnection
  <1> HIDE DEF up, down
  <1>8. LinksInv'
    <2>1. \A m \in links' : LinkInv(m, seen', feedOf', emitted')
      BY <1>1, <1>4, <1>5, <1>7 DEF FeedInv, LinksInv
    <2>2. \A m \in links' : LinkOrder(m, feed', emitted')
      BY <1>1, <1>6, <1>7 DEF FeedInv, LinksInv
    <2>3. \A m, n \in links' : m.tab = n.tab => m = n
      BY <1>4, <1>5, <1>7 DEF FeedInv, LinksInv
    <2>4. QED
      BY <2>1, <2>2, <2>3, LinksPrimed
  <1>9. QED
    BY <1>2, <1>8 DEF FeedInv

\* A channel with k more copies of event n.
Extended(l, k, n) == [l EXCEPT !.channel = @ \o [i \in 1..k |-> n]]

LEMMA ExtendedChannel ==
  ASSUME NEW l \in LinkShape, NEW k \in 0..2, NEW n \in Nat
  PROVE  LET e == Extended(l, k, n)
         IN  /\ e \in LinkShape /\ e.tab = l.tab /\ e.token = l.token
             /\ Len(e.channel) = Len(l.channel) + k
             /\ \A i \in 1..Len(l.channel) : e.channel[i] = l.channel[i]
             /\ \A i \in 1..Len(e.channel) : i > Len(l.channel) => e.channel[i] = n
  <1> DEFINE more == [i \in 1..k |-> n]
             e == Extended(l, k, n)
  <1>1. more \in Seq(Nat) /\ Len(more) = k /\ l.channel \in Seq(Nat)
    BY DEF LinkShape
  <1>2. \A i \in 1..k : more[i] = n
    OBVIOUS
  <1>3. e.channel = l.channel \o more /\ e.tab = l.tab /\ e.token = l.token /\ e.up = l.up
    BY DEF Extended, LinkShape
  <1>4. \A list \in Seq(Nat) : [l EXCEPT !.channel = list] \in LinkShape
    BY DEF LinkShape
  <1> HIDE DEF more
  <1>5. /\ l.channel \o more \in Seq(Nat)
        /\ Len(l.channel \o more) = Len(l.channel) + k
        /\ \A i \in 1..(Len(l.channel) + k) :
              (l.channel \o more)[i] =
                 IF i <= Len(l.channel) THEN l.channel[i] ELSE more[i - Len(l.channel)]
    BY <1>1, ConcatProperties
  <1>6. e \in LinkShape
    <2>1. e = [l EXCEPT !.channel = l.channel \o more]
      BY DEF e, Extended, more
    <2>2. QED
      BY <1>4, <1>5, <2>1
  <1>7. Len(l.channel) \in Nat
    BY <1>1
  <1> HIDE DEF e
  <1>8. \A i \in 1..Len(l.channel) : e.channel[i] = l.channel[i]
    BY <1>3, <1>5, <1>7
  <1>9. \A i \in 1..Len(e.channel) : i > Len(l.channel) => e.channel[i] = n
    BY <1>2, <1>3, <1>5, <1>7
  <1>10. QED
    BY <1>3, <1>5, <1>6, <1>8, <1>9 DEF e

\* How many copies there are, and for whom.
LEMMA CopiesFor ==
  ASSUME NEW l \in LinkShape, NEW subject
  PROVE  /\ Copies(l, subject) \in 0..2
         /\ Copies(l, subject) > 0 => ForToken(l.token, subject)
         /\ Copies(l, subject) = 2 => Twice(l.token, subject)
  BY DEF Copies, ForToken, Twice

\* An event joins the channels it is for, later than all that is there.
LEMMA FeedEmit ==
  ASSUME TablesInv, FeedInv, NEW subject \in Ids, emitEvent(subject) PROVE FeedInv'
  <1> DEFINE n == Len(emitted')
             e(l) == Extended(l, Copies(l, subject), n)
  <1>1. /\ UNCHANGED <<accounts, rerolled, seen, feed, feedOf>>
        /\ emitted' = Append(emitted, subject)
        /\ links' = {e(l) : l \in links}
    BY DEF emitEvent, Extended
  <1>2. subject \in Nat /\ emitted \in Seq(Nat)
    BY DEF Ids, TablesInv, FeedInv, HistoryInv
  <1>3. /\ emitted' \in Seq(Nat) /\ n = Len(emitted) + 1 /\ emitted'[n] = subject
        /\ \A i \in 1..Len(emitted) : emitted'[i] = emitted[i]
    BY <1>1, <1>2
  <1>4. n \in Nat /\ Len(emitted) \in Nat
    BY <1>2, <1>3
  <1> HIDE DEF n
  <1>5. HistoryInv'
    <2>1. \A i \in 1..Len(emitted') : emitted'[i] \in Ids
      BY <1>3, <1>4 DEF FeedInv, HistoryInv, n
    <2>2. Ids' = Ids
      BY <1>1 DEF Ids
    <2>3. QED
      BY <1>1, <1>3, <2>1, <2>2 DEF FeedInv, HistoryInv
  <1>6. ASSUME NEW l \in links
        PROVE  /\ LinkInv(e(l), seen', feedOf', emitted') /\ LinkOrder(e(l), feed', emitted')
               /\ e(l).tab = l.tab
    <2>1. LinkInv(l, seen, feedOf, emitted) /\ LinkOrder(l, feed, emitted) /\ l \in LinkShape
      BY DEF FeedInv, LinksInv, LinkInv
    <2> DEFINE k == Copies(l, subject)
               d == e(l)
    <2>2. k \in 0..2 /\ (k > 0 => ForToken(l.token, subject)) /\ (k = 2 => Twice(l.token, subject))
      BY <2>1, CopiesFor
    <2>3. /\ d \in LinkShape /\ d.tab = l.tab /\ d.token = l.token
          /\ Len(d.channel) = Len(l.channel) + k
          /\ \A i \in 1..Len(l.channel) : d.channel[i] = l.channel[i]
          /\ \A i \in 1..Len(d.channel) : i > Len(l.channel) => d.channel[i] = n
      BY <1>4, <2>1, <2>2, ExtendedChannel
    <2> HIDE DEF k, d
    <2>4. Len(l.channel) \in Nat /\ l.tab \in Tabs
      BY <2>1 DEF LinkShape
    <2>5. \A i \in 1..Len(l.channel) :
             /\ d.channel[i] \in 1..Len(emitted) /\ emitted'[d.channel[i]] = emitted[l.channel[i]]
             /\ d.channel[i] < n
      BY <1>3, <1>4, <2>1, <2>3 DEF LinkInv
    <2>6. LinkInv(d, seen', feedOf', emitted')
      <3>1. \A i \in 1..Len(d.channel) :
               d.channel[i] \in 1..Len(emitted') /\ ForToken(d.token, emitted'[d.channel[i]])
        <4>1. TAKE i \in 1..Len(d.channel)
        <4>2. CASE i \in 1..Len(l.channel)
          BY <1>3, <1>4, <2>1, <2>3, <2>5, <4>2 DEF LinkInv, n
        <4>3. CASE i > Len(l.channel)
          <5>1. d.channel[i] = n /\ k > 0
            BY <2>2, <2>3, <2>4, <4>3
          <5>2. QED
            BY <1>3, <1>4, <2>2, <2>3, <5>1 DEF n
        <4>4. QED
          BY <2>3, <2>4, <4>2, <4>3, <2>2
      <3>2. QED
        BY <1>1, <2>1, <2>3, <3>1 DEF LinkInv
    <2>7. \A i, j \in 1..Len(d.channel) : i < j =>
             \/ d.channel[i] < d.channel[j]
             \/ /\ d.channel[i] = d.channel[j] /\ j = i + 1
                /\ Twice(d.token, emitted'[d.channel[i]])
      <3>1. TAKE i, j \in 1..Len(d.channel)
      <3>2. HAVE i < j
      <3>3. CASE j \in 1..Len(l.channel)
        <4>1. i \in 1..Len(l.channel)
          BY <2>4, <3>2, <3>3
        <4>2. QED
          BY <2>1, <2>3, <2>5, <3>2, <3>3, <4>1 DEF LinkOrder
      <3>4. CASE j > Len(l.channel) /\ i \in 1..Len(l.channel)
        BY <2>3, <2>5, <3>4
      <3>5. CASE i > Len(l.channel)
        <4>1. j > Len(l.channel) /\ d.channel[i] = n /\ d.channel[j] = n
          BY <2>2, <2>3, <2>4, <3>2, <3>5
        <4>2. k = 2 /\ j = i + 1
          BY <2>2, <2>3, <2>4, <3>2, <3>5, <4>1
        <4>3. QED
          BY <1>3, <2>2, <2>3, <4>1, <4>2
      <3>6. QED
        BY <2>2, <2>3, <2>4, <3>3, <3>4, <3>5
    <2>8. \A i \in 1..Len(feed[d.tab]), j \in 1..Len(d.channel) :
             \/ feed[d.tab][i] < d.channel[j]
             \/ /\ feed[d.tab][i] = d.channel[j] /\ i = 1 /\ j = 1
                /\ Twice(d.token, emitted'[d.channel[j]])
      <3>1. TAKE i \in 1..Len(feed[d.tab]), j \in 1..Len(d.channel)
      <3>2. feed[d.tab][i] \in 1..Len(emitted)
        BY <2>3, <2>4 DEF FeedInv, FeedsInv, FeedInvOf
      <3>3. CASE j > Len(l.channel)
        BY <1>3, <1>4, <2>3, <3>2, <3>3
      <3>4. CASE j \in 1..Len(l.channel)
        BY <2>1, <2>3, <2>5, <3>4 DEF LinkOrder
      <3>5. QED
        BY <2>2, <2>3, <2>4, <3>3, <3>4
    <2>9. LinkOrder(d, feed', emitted')
      BY <1>1, <2>7, <2>8 DEF LinkOrder
    <2>10. QED
      BY <2>3, <2>6, <2>9 DEF d
  <1>7. LinksInv'
    <2> HIDE DEF e
    <2>1. \A m \in links' : LinkInv(m, seen', feedOf', emitted') /\ LinkOrder(m, feed', emitted')
      BY <1>1, <1>6
    <2>2. \A l, m \in links' : l.tab = m.tab => l = m
      BY <1>1, <1>6 DEF FeedInv, LinksInv
    <2>3. QED
      BY <2>1, <2>2, LinksPrimed
  <1>8. FeedsInv'
    <2>1. \A u \in Tabs : \A i \in 1..Len(feed[u]) :
             feed[u][i] \in 1..Len(emitted') /\ emitted'[feed[u][i]] = emitted[feed[u][i]]
      BY <1>3, <1>4 DEF FeedInv, FeedsInv, FeedInvOf, n
    <2>2. \A u \in Tabs : FeedInvOf(u, feed', feedOf', emitted')
      BY <1>1, <2>1 DEF FeedInv, FeedsInv, FeedInvOf
    <2>3. \A u \in Tabs : FeedOrder(u, feed', feedOf', emitted')
      BY <1>1, <2>1 DEF FeedInv, FeedsInv, FeedOrder
    <2>4. QED
      BY <1>1, <2>2, <2>3, FeedsPrimed DEF FeedInv, FeedsInv
  <1>9. QED
    BY <1>5, <1>7, <1>8 DEF FeedInv

\* A feed with one more event on top, cut to its length.
LEMMA TrimmedFeed ==
  ASSUME NEW list \in Seq(Nat), NEW h \in Nat
  PROVE  LET new == Trim(WithNewest(h, list))
         IN  /\ new \in Seq(Nat) /\ Len(new) <= FeedCap
             /\ new[1] = h
             /\ \A i \in 1..Len(new) : i > 1 => i - 1 \in 1..Len(list) /\ new[i] = list[i - 1]
  <1> DEFINE longer == WithNewest(h, list)
             new == Trim(longer)
  <1>1. longer = <<h>> \o list
    BY DEF WithNewest
  <1>2. <<h>> \in Seq(Nat) /\ Len(<<h>>) = 1 /\ <<h>>[1] = h
    OBVIOUS
  <1>3. /\ longer \in Seq(Nat) /\ Len(longer) = Len(list) + 1
        /\ \A i \in 1..(Len(list) + 1) : longer[i] = IF i <= 1 THEN <<h>>[i] ELSE list[i - 1]
    BY <1>1, <1>2, ConcatProperties
  <1>4. Len(list) \in Nat /\ FeedCap \in Nat \ {0}
    BY FeedAssumption DEF FeedAssumption
  <1> HIDE DEF longer
  <1>5. /\ new \in Seq(Nat) /\ Len(new) <= FeedCap
        /\ Len(new) \in 1..(Len(list) + 1)
        /\ \A i \in 1..Len(new) : new[i] = longer[i]
    <2>1. CASE Len(longer) > FeedCap
      <3>1. new = SubSeq(longer, 1, FeedCap)
        BY <2>1 DEF Trim
      <3>2. QED
        BY <1>3, <1>4, <2>1, <3>1, SubSeqProperties
    <2>2. CASE ~(Len(longer) > FeedCap)
      <3>1. new = longer
        BY <2>2 DEF Trim
      <3>2. QED
        BY <1>3, <1>4, <2>2, <3>1
    <2>3. QED
      BY <2>1, <2>2
  <1> HIDE DEF new
  <1>6. new[1] = h
    BY <1>2, <1>3, <1>4, <1>5
  <1>7. \A i \in 1..Len(new) : i > 1 => i - 1 \in 1..Len(list) /\ new[i] = list[i - 1]
    <2>1. TAKE i \in 1..Len(new)
    <2>2. HAVE i > 1
    <2>3. i \in 1..(Len(list) + 1) /\ new[i] = longer[i]
      BY <1>4, <1>5
    <2>4. longer[i] = list[i - 1]
      BY <1>3, <2>2, <2>3
    <2>5. i - 1 \in 1..Len(list)
      BY <1>4, <2>2, <2>3
    <2>6. QED
      BY <2>3, <2>4, <2>5
  <1>8. QED
    BY <1>5, <1>6, <1>7 DEF new, longer

\* A tab takes the first event of its channel to the top of its feed.
LEMMA FeedHandle == ASSUME FeedInv, NEW l \in links, handleEvent(l) PROVE FeedInv'
  <1> DEFINE t == l.tab
             h == Head(l.channel)
             new == Trim(WithNewest(h, feed[t]))
             d == [l EXCEPT !.channel = Tail(@)]
  <1>1. /\ UNCHANGED <<accounts, rerolled, seen, emitted, feedOf>>
        /\ l.channel # <<>>
        /\ feed' = [feed EXCEPT ![t] = new]
        /\ links' = (links \ {l}) \cup {d}
    BY DEF handleEvent, sessionVars
  <1>2. HistoryInv'
    BY <1>1 DEF FeedInv, HistoryInv, Ids
  <1>3. LinkInv(l, seen, feedOf, emitted) /\ LinkOrder(l, feed, emitted)
    BY DEF FeedInv, LinksInv
  <1>4. l \in LinkShape /\ t \in Tabs /\ l.channel \in Seq(Nat)
    BY <1>3 DEF LinkInv, LinkShape
  <1>5. /\ h = l.channel[1] /\ Tail(l.channel) \in Seq(Nat)
        /\ Len(Tail(l.channel)) = Len(l.channel) - 1
        /\ \A j \in 1..Len(Tail(l.channel)) : Tail(l.channel)[j] = l.channel[j + 1]
        /\ Len(l.channel) \in Nat \ {0}
    BY <1>1, <1>4, HeadTailProperties
  <1>6. /\ d \in LinkShape /\ d.tab = t /\ d.token = l.token
        /\ Len(d.channel) = Len(l.channel) - 1
        /\ \A j \in 1..Len(d.channel) : j + 1 \in 1..Len(l.channel) /\ d.channel[j] = l.channel[j + 1]
    <2>1. \A list \in Seq(Nat) : /\ [l EXCEPT !.channel = list] \in LinkShape
                                  /\ [l EXCEPT !.channel = list].tab = l.tab
                                  /\ [l EXCEPT !.channel = list].token = l.token
                                  /\ [l EXCEPT !.channel = list].channel = list
      BY <1>4 DEF LinkShape
    <2>2. d = [l EXCEPT !.channel = Tail(l.channel)]
      OBVIOUS
    <2> HIDE DEF d
    <2>3. d.channel = Tail(l.channel)
      BY <1>5, <2>1, <2>2
    <2>4. \A j \in 1..Len(d.channel) : j + 1 \in 1..Len(l.channel)
      BY <1>5, <2>3
    <2>5. QED
      BY <1>5, <2>1, <2>2, <2>3, <2>4
  <1>7. feed \in [Tabs -> Seq(Nat)] /\ feed[t] \in Seq(Nat) /\ h \in Nat
    BY <1>3, <1>4, <1>5 DEF FeedInv, FeedsInv
  <1>8. /\ new \in Seq(Nat) /\ Len(new) <= FeedCap /\ new[1] = h
        /\ \A i \in 1..Len(new) : i > 1 => i - 1 \in 1..Len(feed[t]) /\ new[i] = feed[t][i - 1]
    BY <1>7, TrimmedFeed
  <1> HIDE DEF new, d, h
  <1>9. /\ feed' \in [Tabs -> Seq(Nat)] /\ feed'[t] = new
        /\ \A u \in Tabs : u # t => feed'[u] = feed[u]
    BY <1>1, <1>4, <1>7, <1>8
  <1>10. h \in 1..Len(emitted) /\ ForToken(l.token, emitted[h]) /\ l.token \in feedOf[t]
    BY <1>3, <1>5 DEF LinkInv
  <1>11. Len(new) \in Nat /\ Len(d.channel) \in Nat
    BY <1>6, <1>8 DEF LinkShape
  <1>12. LinksInv'
    <2>1. LinkInv(d, seen', feedOf', emitted')
      BY <1>1, <1>3, <1>6 DEF LinkInv
    <2>2. LinkOrder(d, feed', emitted')
      <3>1. \A i, j \in 1..Len(d.channel) : i < j =>
               \/ d.channel[i] < d.channel[j]
               \/ /\ d.channel[i] = d.channel[j] /\ j = i + 1
                  /\ Twice(d.token, emitted[d.channel[i]])
        BY <1>3, <1>6, <1>11 DEF LinkOrder
      <3>2. \A i \in 1..Len(new), j \in 1..Len(d.channel) :
               \/ new[i] < d.channel[j]
               \/ /\ new[i] = d.channel[j] /\ i = 1 /\ j = 1
                  /\ Twice(d.token, emitted[d.channel[j]])
        <4>1. TAKE i \in 1..Len(new), j \in 1..Len(d.channel)
        <4>2. d.channel[j] = l.channel[j + 1] /\ j + 1 \in 1..Len(l.channel)
          BY <1>6
        <4>3. CASE i = 1
          <5>1. /\ 1 \in 1..Len(l.channel) /\ 1 < j + 1
            BY <1>5, <1>11
          <5>2. \/ l.channel[1] < l.channel[j + 1]
                \/ /\ l.channel[1] = l.channel[j + 1] /\ j + 1 = 1 + 1
                   /\ Twice(l.token, emitted[l.channel[1]])
            BY <1>3, <4>2, <5>1 DEF LinkOrder
          <5>3. QED
            BY <1>5, <1>6, <1>8, <1>11, <4>2, <4>3, <5>2
        <4>4. CASE i > 1
          <5>1. i - 1 \in 1..Len(feed[t]) /\ new[i] = feed[t][i - 1]
            BY <1>8, <4>4
          <5>2. feed[t][i - 1] < l.channel[j + 1] \/ j + 1 = 1
            BY <1>3, <4>2, <5>1 DEF LinkOrder
          <5>3. QED
            BY <1>11, <4>2, <5>1, <5>2
        <4>5. QED
          BY <1>11, <4>3, <4>4
      <3>3. QED
        BY <1>1, <1>6, <1>9, <3>1, <3>2 DEF LinkOrder
    <2>3. \A m \in links : m # l => m.tab # t /\ m.tab \in Tabs
      BY DEF FeedInv, LinksInv, LinkInv, LinkShape
    <2>4. \A m \in links : m # l => LinkInv(m, seen', feedOf', emitted')
      BY <1>1 DEF FeedInv, LinksInv
    <2>5. \A m \in links : m # l => LinkOrder(m, feed', emitted')
      BY <1>1, <1>9, <2>3 DEF FeedInv, LinksInv, LinkOrder
    <2>6. \A m, n \in links' : m.tab = n.tab => m = n
      BY <1>1, <1>6, <2>3 DEF FeedInv, LinksInv
    <2>7. QED
      BY <1>1, <2>1, <2>2, <2>4, <2>5, <2>6, LinksPrimed
  <1>13. FeedsInv'
    <2>1. FeedInvOf(t, feed', feedOf', emitted')
      <3>1. \A i \in 1..Len(new) : new[i] \in 1..Len(emitted)
               /\ \E token \in feedOf[t] : ForToken(token, emitted[new[i]])
        <4>1. TAKE i \in 1..Len(new)
        <4>2. CASE i = 1
          BY <1>8, <1>10, <4>2
        <4>3. CASE i > 1
          BY <1>4, <1>8, <4>3 DEF FeedInv, FeedsInv, FeedInvOf
        <4>4. QED
          BY <1>11, <4>2, <4>3
      <3>2. QED
        BY <1>1, <1>8, <1>9, <3>1 DEF FeedInvOf
    <2>2. FeedOrder(t, feed', feedOf', emitted')
      <3>1. \A i, j \in 1..Len(new) : i < j =>
               \/ new[i] > new[j]
               \/ /\ new[i] = new[j] /\ j = i + 1
                  /\ \E token \in feedOf[t] : Twice(token, emitted[new[i]])
        <4>1. TAKE i, j \in 1..Len(new)
        <4>2. HAVE i < j
        <4>3. j > 1 /\ j - 1 \in 1..Len(feed[t]) /\ new[j] = feed[t][j - 1]
          BY <1>8, <1>11, <4>2
        <4>4. CASE i = 1
          <5>1. 1 \in 1..Len(l.channel)
            BY <1>5
          <5>2. \/ feed[t][j - 1] < l.channel[1]
                \/ /\ feed[t][j - 1] = l.channel[1] /\ j - 1 = 1
                   /\ Twice(l.token, emitted[l.channel[1]])
            BY <1>3, <4>3, <5>1 DEF LinkOrder
          <5>3. new[i] = l.channel[1]
            BY <1>5, <1>8, <4>4
          <5>4. new[i] \in Nat /\ new[j] \in Nat
            <6>1. h \in Nat /\ new[i] = h
              BY <1>7, <1>8, <4>4
            <6>2. feed[t][j - 1] \in Nat
              BY <1>7, <4>3
            <6>3. QED
              BY <4>3, <6>1, <6>2
          <5>5. CASE feed[t][j - 1] < l.channel[1]
            BY <4>3, <5>3, <5>4, <5>5
          <5>6. CASE /\ feed[t][j - 1] = l.channel[1] /\ j - 1 = 1
                     /\ Twice(l.token, emitted[l.channel[1]])
            <6>1. new[i] = new[j] /\ j = i + 1
              BY <1>11, <4>3, <4>4, <5>3, <5>6
            <6>2. \E token \in feedOf[t] : Twice(token, emitted[new[i]])
              BY <1>10, <5>3, <5>6
            <6>3. QED
              BY <6>1, <6>2
          <5>7. QED
            BY <5>2, <5>5, <5>6
        <4>5. CASE i > 1
          <5>1. i - 1 \in 1..Len(feed[t]) /\ new[i] = feed[t][i - 1] /\ i - 1 < j - 1
            BY <1>8, <1>11, <4>2, <4>5
          <5>2. \/ feed[t][i - 1] > feed[t][j - 1]
                \/ /\ feed[t][i - 1] = feed[t][j - 1] /\ j - 1 = (i - 1) + 1
                   /\ \E token \in feedOf[t] : Twice(token, emitted[feed[t][i - 1]])
            BY <1>4, <4>3, <5>1 DEF FeedInv, FeedsInv, FeedOrder
          <5>3. j - 1 = (i - 1) + 1 => j = i + 1
            BY <1>11
          <5>4. QED
            BY <4>3, <5>1, <5>2, <5>3
        <4>6. QED
          BY <1>11, <4>4, <4>5
      <3>2. QED
        BY <1>1, <1>9, <3>1 DEF FeedOrder
    <2>3. \A u \in Tabs : u # t => FeedInvOf(u, feed', feedOf', emitted')
      BY <1>1, <1>9 DEF FeedInv, FeedsInv, FeedInvOf
    <2>4. \A u \in Tabs : u # t => FeedOrder(u, feed', feedOf', emitted')
      BY <1>1, <1>9 DEF FeedInv, FeedsInv, FeedOrder
    <2>5. QED
      BY <1>9, <2>1, <2>2, <2>3, <2>4, FeedsPrimed
  <1>14. QED
    BY <1>2, <1>12, <1>13 DEF FeedInv

\* Every step keeps the invariant.
LEMMA FeedStep == ASSUME SessionsInv, FeedInv, [Next]_vars PROVE FeedInv'
  <1>1. ASSUME NEW t \in Tabs, reloadTab(t) \/ tokenEffect(t) PROVE FeedInv'
    BY <1>1, FeedReload, FeedEffect
  <1>2. CASE SessionStep /\ UNCHANGED feedVars
    BY <1>2, InvSessionStep, FeedSessionStep
  <1>3. ASSUME NEW id \in Ids, emitEvent(id) PROVE FeedInv'
    BY <1>3, FeedEmit DEF SessionsInv
  <1>4. ASSUME NEW l \in links, connect(l) \/ dropConnection(l) \/ handleEvent(l) PROVE FeedInv'
    BY <1>4, FeedConnection, FeedHandle
  <1>5. CASE UNCHANGED vars
    <2>1. UNCHANGED <<accounts, rerolled>> /\ UNCHANGED feedVars
      BY <1>5 DEF vars, sessionVars
    <2>2. QED
      BY <2>1, SameTable, FeedSessionStep
  <1>6. QED
    BY <1>1, <1>2, <1>3, <1>4, <1>5 DEF Next

\* The invariant holds in every reachable state.
LEMMA FeedInvariance == Spec => [](SessionsInv /\ FeedInv)
  <1>1. Init => SessionsInv /\ FeedInv
    BY InvInit, FeedInit
  <1>2. SessionsInv /\ FeedInv /\ [Next]_vars => (SessionsInv /\ FeedInv)'
    BY InvStep, FeedStep
  <1>3. QED
    BY <1>1, <1>2, PTL DEF Spec

-----------------------------------------------------------------------------
(* The theorems                                                            *)

\* Whatever is still in a channel when a tab changes its account, signs out or
\* reloads: a feed shows only events for a token its tab has held since the
\* feed was cleared.
THEOREM FeedAddressed == Spec => []FeedIsAddressed
  <1>1. FeedInv => FeedIsAddressed
    <2> SUFFICES ASSUME FeedInv, NEW t \in Tabs, NEW i \in DOMAIN feed[t]
                 PROVE  \E token \in feedOf[t] : IsFor(token, feed[t][i])
      BY DEF FeedIsAddressed
    <2>1. i \in 1..Len(feed[t])
      BY DEF FeedInv, FeedsInv
    <2>2. QED
      BY <2>1 DEF FeedInv, FeedsInv, FeedInvOf, ForToken, IsFor
  <1>2. QED
    BY <1>1, FeedInvariance, PTL

\* Through lost connections, new clients and changes of account, a feed shows
\* its events newest first, and twice only to an administrator they are about.
THEOREM FeedOrdered == Spec => []FeedNewestFirst
  <1>1. FeedInv => FeedNewestFirst
    <2> SUFFICES ASSUME FeedInv, NEW t \in Tabs, NEW i \in DOMAIN feed[t],
                        NEW j \in DOMAIN feed[t], i < j
                 PROVE  \/ feed[t][i] > feed[t][j]
                        \/ /\ feed[t][i] = feed[t][j] /\ j = i + 1
                           /\ \E token \in feedOf[t] :
                                 token.id = emitted[feed[t][i]] /\ token.role \in ADMIN_ROLES
      BY DEF FeedNewestFirst
    <2>1. i \in 1..Len(feed[t]) /\ j \in 1..Len(feed[t])
      BY DEF FeedInv, FeedsInv
    <2>2. QED
      BY <2>1 DEF FeedInv, FeedsInv, FeedOrder, Twice
  <1>2. QED
    BY <1>1, FeedInvariance, PTL

\* Every token of a reachable state is nobody's or that of an account, every
\* event in a feed or a channel was emitted, and every tab has one client.
THEOREM TypesHold == Spec => []TypeOK
  <1>1. SessionsInv /\ FeedInv => TypeOK
    <2> SUFFICES ASSUME SessionsInv, FeedInv PROVE TypeOK
      OBVIOUS
    <2>1. \A token : Good(token, accounts, rerolled) => token \in Tokens
      BY DEF Good, Tokens, Ids
    <2>2. SessionsTypeOK
      <3>1. accounts \in Seq([email : Emails, role : Roles]) /\ rerolled \subseteq Ids
            /\ moves \in 0..MaxMoves /\ adrift \subseteq Tabs
        BY DEF SessionsInv, TablesInv, TabsInv, Rows
      <3>2. cookie \in Tokens /\ tabs \in [Tabs -> [user : Tokens, token : Tokens, loading : BOOLEAN]]
        BY <2>1 DEF SessionsInv, TabsInv, TabShape
      <3>3. ASSUME NEW r \in requests
            PROVE  r \in [tab : Tabs, kind : {"restore", "login", "signup", "logout"},
                          at : {"sent", "hashing", "answered"}, token : Tokens,
                          email : Emails \cup {"none"}, input : {"none", "USER", "ADMIN", "lost"},
                          ok : BOOLEAN, answer : Tokens, heeded : BOOLEAN]
        <4>1. r \in RequestShape /\ r.token \in Tokens /\ r.answer \in Tokens
          BY <2>1 DEF SessionsInv, RequestsInv, WellFormed
        <4>2. QED
          BY <4>1 DEF RequestShape
      <3>4. QED
        BY <3>1, <3>2, <3>3 DEF SessionsTypeOK
    <2>3. links \subseteq [tab : Tabs, token : Tokens \ {Nobody}, up : BOOLEAN,
                           channel : Seq(DOMAIN emitted)]
      <3> SUFFICES ASSUME NEW l \in links
                   PROVE  l \in [tab : Tabs, token : Tokens \ {Nobody}, up : BOOLEAN,
                                 channel : Seq(DOMAIN emitted)]
        OBVIOUS
      <3>1. l \in LinkShape /\ l.token # Nobody /\ l.token = seen[l.tab]
            /\ \A i \in 1..Len(l.channel) : l.channel[i] \in 1..Len(emitted)
        BY DEF FeedInv, LinksInv, LinkInv
      <3>2. l.token \in Tokens
        BY <2>1, <3>1 DEF FeedInv, HistoryInv, LinkShape
      <3>3. DOMAIN emitted = 1..Len(emitted)
        BY DEF FeedInv, HistoryInv
      <3>4. l.channel \in Seq(DOMAIN emitted)
        BY <3>1, <3>3 DEF LinkShape
      <3>5. QED
        BY <3>1, <3>2, <3>4 DEF LinkShape
    <2>4. /\ \A l \in links : l.token = seen[l.tab]
          /\ \A l, m \in links : l.tab = m.tab => l = m
      BY DEF FeedInv, LinksInv, LinkInv
    <2>5. seen \in [Tabs -> Tokens] /\ feedOf \in [Tabs -> SUBSET (Tokens \ {Nobody})]
      BY <2>1 DEF FeedInv, HistoryInv
    <2>6. emitted \in Seq(Ids) /\ DOMAIN emitted = 1..Len(emitted)
      BY DEF FeedInv, HistoryInv
    <2>7. feed \in [Tabs -> Seq(DOMAIN emitted)] /\ \A t \in Tabs : Len(feed[t]) <= FeedCap
      <3>1. \A t \in Tabs : feed[t] \in Seq(DOMAIN emitted)
        BY <2>6 DEF FeedInv, FeedsInv, FeedInvOf
      <3>2. QED
        BY <3>1 DEF FeedInv, FeedsInv, FeedInvOf
    <2>8. QED
      BY <2>2, <2>3, <2>4, <2>5, <2>6, <2>7 DEF TypeOK
  <1>2. QED
    BY <1>1, FeedInvariance, PTL
=============================================================================
