------------------------ MODULE LedgerRecoveryProofs ------------------------
(***************************************************************************)
(* A ledger whose stored data may be corrupted, for any number of          *)
(* corruptions (those of LedgerControl!Corrupt), verifications, repairs    *)
(* and failing calls: a verification that finds nothing has read contents  *)
(* and hashes of the audit pipeline, a repair restores its rows, and an    *)
(* incident that was resolved stays so.                                    *)
(***************************************************************************)
EXTENDS LedgerControlProofs

-----------------------------------------------------------------------------
(* What the pipeline writes, and what corruption leaves of it              *)

\* A row as the audit worker writes it: its hash is as long as the chain up to it.
Written(r) ==
    /\ r.seq >= 1
    /\ r.txn >= 1
    /\ r.data = r.txn
    /\ r.at = Stamp
    /\ r.hash = generateHash(r.data, r.prev, r.at)
    /\ Len(r.prev) = r.seq - 1

Distinct(rows) == \A q, r \in rows : q.seq = r.seq => q = r

\* Each row has the number and the transaction of one that was committed.
Numbered(rows, committed) ==
    \A r \in rows : \E c \in committed : c.seq = r.seq /\ c.txn = r.txn

\* Times are as written, and a hash is one that was committed or garbled.
Traced(rows, committed) ==
    \A r \in rows :
       /\ r.at = Stamp
       /\ r.hash # Garbled => \E c \in committed : c.hash = r.hash

\* Contents are as created or garbled.
Created(contents) == \A t \in 1 .. Len(contents) : contents[t] \in {t, 0}

Within(rows, n) == \A r \in rows : r.txn \in 1 .. n

\* A backup has this number, or there is no such row.
BackedUp(objects, n) == n = 0 \/ \E b \in objects : b.seq = n

\* The first number that a repair from this start restores: an incident may be about a row
\* that was given the number 0.
First(start) == IF start = 0 THEN 1 ELSE start

-----------------------------------------------------------------------------
(* Hashes and numbers                                                      *)

\* A hash is one longer than the hash before it, determines what was hashed and is not
\* one that corruption leaves.
LEMMA HashOpens ==
  ASSUME NEW content \in Nat, NEW prev \in Hashes, NEW at \in Nat
  PROVE  /\ Len(generateHash(content, prev, at)) = Len(prev) + 1
         /\ \A c \in Nat, p \in Hashes, a \in Nat :
               generateHash(c, p, a) = generateHash(content, prev, at)
               => c = content /\ p = prev /\ a = at
         /\ at = Stamp => generateHash(content, prev, at) # Garbled
  <1>1. prev \in Seq(Nat \X Nat) /\ <<content, at>> \in Nat \X Nat
    BY DEF Hashes
  <1>2. Len(generateHash(content, prev, at)) = Len(prev) + 1
    BY <1>1, AppendProperties DEF generateHash
  <1>3. ASSUME NEW c \in Nat, NEW p \in Hashes, NEW a \in Nat,
               generateHash(c, p, a) = generateHash(content, prev, at)
        PROVE  c = content /\ p = prev /\ a = at
    <2> DEFINE S == Nat \X Nat
               x == <<c, a>>
               y == <<content, at>>
    <2>1. p \in Seq(S) /\ x \in S /\ prev \in Seq(S) /\ y \in S
      BY <1>1 DEF Hashes
    <2>2. Append(p, x) = Append(prev, y)
      BY <1>3 DEF generateHash
    <2> HIDE DEF S, x, y
    <2>3. p = prev /\ x = y
      BY <2>1, <2>2, AppendInjective
    <2>4. QED
      BY <2>3 DEF x, y
  <1>4. ASSUME at = Stamp, generateHash(content, prev, at) = Garbled PROVE FALSE
    <2>1. Len(prev) = 0
      BY <1>1, <1>2, <1>4 DEF Garbled
    <2>2. generateHash(content, prev, at)[Len(prev) + 1] = <<content, at>>
      BY <1>1, AppendProperties DEF generateHash
    <2>3. <<content, at>> = <<0, 2>>
      BY <1>4, <2>1, <2>2 DEF Garbled
    <2>4. QED
      BY <1>4, <2>3 DEF Stamp
  <1>5. QED
    BY <1>2, <1>3, <1>4

\* Equal hashes are of equal contents after equal hashes.
LEMMA HashDetermines ==
  ASSUME NEW c \in Nat, NEW p \in Hashes, NEW a \in Nat,
         NEW d \in Nat, NEW q \in Hashes, NEW b \in Nat,
         generateHash(c, p, a) = generateHash(d, q, b)
  PROVE  c = d /\ p = q /\ a = b
  BY HashOpens

\* A row of the pipeline has a hash as long as the chain up to it.
LEMMA WrittenHash ==
  ASSUME NEW r \in Rows, Written(r)
  PROVE  Len(r.hash) = r.seq
  BY HashOpens DEF Written, Rows

\* Numbers whose predecessors are there, down to low, leave no gap.
LEMMA NoGap ==
  ASSUME NEW S \in SUBSET Nat, NEW low \in Nat, NEW high \in S,
         \A x \in S : x > low => x - 1 \in S
  PROVE  low .. high \subseteq S
  <1> SUFFICES ASSUME NEW n \in low .. high, n \notin S PROVE FALSE
    OBVIOUS
  <1> DEFINE T == {x \in S : x > n}
  <1>1. T \in SUBSET Nat /\ high \in T
    <2>1. high \in Nat /\ n \in Nat /\ n <= high /\ n # high
      OBVIOUS
    <2>2. high > n
      BY <2>1
    <2>3. QED
      BY <2>2
  <1>2. PICK x \in T : \A y \in T : x <= y
    <2> HIDE DEF T
    <2>1. QED
      BY <1>1, LeastNumber
  <1>3. x - 1 \in S /\ x - 1 >= n /\ x \in Nat
    BY <1>2
  <1>4. x - 1 \in T
    BY <1>3
  <1>5. QED
    BY <1>2, <1>3, <1>4

\* From 1 on, there are as many as the greatest says.
LEMMA InitialSegment ==
  ASSUME NEW S \in SUBSET Nat, IsFiniteSet(S),
         \A x \in S : x >= 1 /\ (x > 1 => x - 1 \in S)
  PROVE  S = 1 .. Cardinality(S)
  <1>1. CASE S = {}
    BY <1>1, FS_EmptySet
  <1>2. CASE S # {}
    <2>1. PICK m \in S : \A x \in S : x <= m
      <3> DEFINE U == {[seq |-> x] : x \in S}
                 f == [x \in S |-> [seq |-> x]]
      <3>1. IsFiniteSet(U)
        <4>1. f \in Surjection(S, U)
          BY DEF Surjection
        <4> HIDE DEF f, U
        <4>2. QED
          BY <4>1, FS_Surjection
      <3>2. U # {} /\ \A u \in U : u.seq \in S
        <4>1. U # {}
          BY <1>2
        <4>2. ASSUME NEW u \in U PROVE u.seq \in S
          <5>1. PICK x \in S : u = [seq |-> x]
            OBVIOUS
          <5>2. QED
            BY <5>1
        <4>3. QED
          BY <4>1, <4>2
      <3>3. \E u \in U : \A o \in U : o.seq <= u.seq
        <4> HIDE DEF U
        <4>1. QED
          BY <3>1, <3>2, GreatestSeq
      <3>4. PICK u \in U : \A o \in U : o.seq <= u.seq
        BY <3>3
      <3>5. \A x \in S : x <= u.seq
        <4>1. TAKE x \in S
        <4>2. [seq |-> x] \in U /\ [seq |-> x].seq = x
          OBVIOUS
        <4>3. QED
          BY <3>4, <4>2
      <3>6. QED
        BY <3>2, <3>5
    <2>2. 1 .. m \subseteq S
      <3>1. 1 \in Nat /\ \A x \in S : x > 1 => x - 1 \in S
        OBVIOUS
      <3>2. QED
        BY <2>1, <3>1, NoGap
    <2>3. S = 1 .. m
      <3>1. \A x \in S : x \in 1 .. m
        <4>1. m \in Nat
          OBVIOUS
        <4>2. QED
          BY <2>1, <4>1
      <3>2. QED
        BY <2>2, <3>1
    <2>4. Cardinality(S) = m
      BY <2>1, <2>3, FS_Interval
    <2>5. QED
      BY <2>3, <2>4
  <1>3. QED
    BY <1>1, <1>2

-----------------------------------------------------------------------------
(* What a verification that finds nothing has read                         *)

\* The hash that a row is checked against is its predecessor's, if it has one.
LEMMA PrecedingRow ==
  ASSUME NEW rows \in SUBSET Rows, IsFiniteSet(rows), NEW r \in rows
  PROVE  \/ PrecedingHash(rows, r) = Genesis /\ \A q \in rows : ~(q.seq < r.seq)
         \/ \E q \in rows : /\ q.seq < r.seq /\ PrecedingHash(rows, r) = q.hash
                           /\ \A p \in rows : p.seq < r.seq => p.seq <= q.seq
  <1> DEFINE below == {q \in rows : q.seq < r.seq}
             last == CHOOSE q \in below : \A p \in below : p.seq <= q.seq
  <1>1. PrecedingHash(rows, r) = IF below = {} THEN Genesis ELSE last.hash
    BY DEF PrecedingHash
  <1>2. CASE below = {}
    BY <1>1, <1>2
  <1>3. CASE below # {}
    <2>1. IsFiniteSet(below)
      BY FS_Subset
    <2>2. \A b \in below : b.seq \in Nat
      BY DEF Rows
    <2>3. \E q \in below : \A p \in below : p.seq <= q.seq
      <3> HIDE DEF below
      <3>1. QED
        BY <1>3, <2>1, <2>2, GreatestSeq
    <2>4. last \in below /\ \A p \in below : p.seq <= last.seq
      BY <2>3
    <2>5. QED
      BY <1>1, <1>3, <2>4
  <1>4. QED
    BY <1>2, <1>3

\* A row that passes the checks, in a set of rows that all do.
Passes(rows, contents, r) == HashMatches(rows, r) /\ r.data = contents[r.txn]

\* When no row is compromised every row passes the checks.
LEMMA NoneCompromised ==
  ASSUME NEW rows \in SUBSET Rows, NEW latest, NEW contents,
         Compromised(rows, latest, contents) = {}, NEW r \in rows
  PROVE  Passes(rows, contents, r)
  <1> DEFINE c == [seq |-> r.seq, reason |-> Reason(rows, r, latest, contents)]
  <1>1. c \in {[seq |-> q.seq, reason |-> Reason(rows, q, latest, contents)] : q \in rows}
    OBVIOUS
  <1>2. c.reason = "none"
    BY <1>1 DEF Compromised
  <1>3. Reason(rows, r, latest, contents) = "none"
    BY <1>2
  <1>4. QED
    BY <1>3 DEF Reason, Passes, snapshotsMatch

\* Its hash is one that was committed, and so is all that was hashed.
LEMMA PassingRow ==
  ASSUME NEW committed \in SUBSET Rows, \A c \in committed : Written(c),
         NEW rows \in SUBSET Rows, IsFiniteSet(rows), Traced(rows, committed),
         NEW contents \in Seq(Nat), Within(rows, Len(contents)), Created(contents),
         NEW r \in rows, Passes(rows, contents, r)
  PROVE  /\ contents[r.txn] = r.txn
         /\ \E c \in committed : /\ c.txn = r.txn /\ c.data = r.data /\ c.hash = r.hash /\ c.at = r.at
                                 /\ c.prev = PrecedingHash(rows, r)
  <1> DEFINE prev == PrecedingHash(rows, r)
  <1>1. /\ r \in Rows /\ r.seq \in Nat /\ r.txn \in Nat /\ r.data \in Nat /\ r.at \in Nat
        /\ r.hash \in Hashes
    BY DEF Rows
  <1>2. prev \in Hashes
    <2>1. \A q \in rows : q.hash \in Hashes
      BY DEF Rows
    <2>2. QED
      BY <2>1, PrecedingRow, RowTypes
  <1>3. r.at = Stamp /\ r.hash = generateHash(r.data, prev, r.at)
    BY DEF Passes, HashMatches, Traced
  <1> HIDE DEF prev
  <1>4. r.hash # Garbled
    BY <1>1, <1>2, <1>3, HashOpens
  <1>5. PICK c \in committed : c.hash = r.hash
    BY <1>4 DEF Traced
  <1>6. /\ c \in Rows /\ c.data \in Nat /\ c.prev \in Hashes /\ c.at \in Nat
        /\ c.txn >= 1 /\ c.data = c.txn /\ c.at = Stamp
        /\ c.hash = generateHash(c.data, c.prev, c.at)
    BY <1>5 DEF Written, Rows
  <1>7. c.data = r.data /\ c.prev = prev
    <2>1. generateHash(c.data, c.prev, c.at) = generateHash(r.data, prev, r.at)
      BY <1>3, <1>5, <1>6
    <2>2. c.data \in Nat /\ c.prev \in Hashes /\ c.at \in Nat /\ r.data \in Nat /\ r.at \in Nat
      BY <1>1, <1>6
    <2>3. QED
      BY <1>2, <2>1, <2>2, HashDetermines
  <1>8. r.data = r.txn /\ contents[r.txn] = r.txn
    <2>1. r.data = contents[r.txn]
      BY DEF Passes
    <2>2. contents[r.txn] \in {r.txn, 0}
      BY DEF Within, Created
    <2>3. r.data >= 1
      BY <1>6, <1>7
    <2>4. QED
      BY <2>1, <2>2, <2>3
  <1>9. QED
    BY <1>3, <1>5, <1>6, <1>7, <1>8 DEF prev

\* A row whose hash is one longer than that of the row before it, or of length 1 when there
\* is none.
Climbs(rows, r) ==
    /\ Len(r.hash) >= 1
    /\ Len(r.hash) = 1 => \A q \in rows : ~(q.seq < r.seq)
    /\ Len(r.hash) > 1 =>
          \E q \in rows : /\ q.seq < r.seq /\ Len(q.hash) = Len(r.hash) - 1
                          /\ \A p \in rows : p.seq < r.seq => p.seq <= q.seq

\* Then hashes grow with the numbers,
LEMMA HashesGrow ==
  ASSUME NEW rows \in SUBSET Rows, Distinct(rows), \A r \in rows : Climbs(rows, r),
         NEW q \in rows, NEW r \in rows, q.seq < r.seq
  PROVE  Len(q.hash) < Len(r.hash)
  <1> DEFINE Grows(x) == \A y \in rows : y.seq < x.seq => Len(y.hash) < Len(x.hash)
             bad == {x.seq : x \in {y \in rows : ~Grows(y)}}
  <1>1. \A x \in rows : x.seq \in Nat /\ Len(x.hash) \in Nat
    <2>1. \A x \in rows : x.seq \in Nat /\ x.hash \in Seq(Nat \X Nat)
      BY DEF Rows, Hashes
    <2>2. QED
      BY <2>1
  <1>2. SUFFICES ASSUME ~Grows(r) PROVE FALSE
    OBVIOUS
  <1>3. bad \in SUBSET Nat /\ bad # {}
    BY <1>1, <1>2
  <1>4. PICK n \in bad : \A m \in bad : n <= m
    <2> HIDE DEF bad
    <2>1. QED
      BY <1>3, LeastNumber
  <1>5. PICK x \in rows : x.seq = n /\ ~Grows(x)
    OBVIOUS
  <1>6. \A y \in rows : y.seq < x.seq => Grows(y)
    <2>1. ASSUME NEW y \in rows, ~Grows(y) PROVE ~(y.seq < x.seq)
      <3>1. y.seq \in bad
        BY <2>1
      <3> HIDE DEF bad
      <3>2. QED
        BY <1>1, <1>4, <1>5, <3>1
    <2>2. QED
      BY <2>1
  <1>7. PICK y \in rows : y.seq < x.seq /\ ~(Len(y.hash) < Len(x.hash))
    BY <1>5
  <1>8. Climbs(rows, x)
    OBVIOUS
  <1>9. Len(x.hash) > 1
    <2>1. Len(x.hash) # 1
      <3>1. Len(x.hash) = 1 => \A q2 \in rows : ~(q2.seq < x.seq)
        BY <1>8 DEF Climbs
      <3> HIDE DEF bad, Grows
      <3>2. QED
        BY <1>7, <3>1
    <2>2. Len(x.hash) >= 1 /\ Len(x.hash) \in Nat
      BY <1>1, <1>8 DEF Climbs
    <2> DEFINE k == Len(x.hash)
    <2>3. k \in Nat /\ k >= 1 /\ k # 1
      BY <2>1, <2>2
    <2> HIDE DEF k
    <2>4. k > 1
      BY <2>3
    <2>5. QED
      BY <2>4 DEF k
  <1>10. PICK p \in rows : /\ p.seq < x.seq /\ Len(p.hash) = Len(x.hash) - 1
                           /\ \A z \in rows : z.seq < x.seq => z.seq <= p.seq
    BY <1>8, <1>9 DEF Climbs
  <1>11. CASE y.seq = p.seq
    <2>1. y = p
      BY <1>11 DEF Distinct
    <2>2. QED
      BY <1>1, <1>7, <1>10, <2>1
  <1>12. CASE y.seq # p.seq
    <2>1. y.seq < p.seq /\ Grows(p)
      BY <1>1, <1>6, <1>7, <1>10, <1>12
    <2>2. Len(y.hash) < Len(p.hash)
      BY <2>1
    <2>3. QED
      BY <1>1, <1>7, <1>10, <2>2
  <1>13. QED
    BY <1>11, <1>12

\* no two are of one length,
LEMMA HashLengthsDiffer ==
  ASSUME NEW rows \in SUBSET Rows, Distinct(rows), \A r \in rows : Climbs(rows, r),
         NEW q \in rows, NEW r \in rows, Len(q.hash) = Len(r.hash)
  PROVE  q = r
  <1>1. q.seq \in Nat /\ r.seq \in Nat /\ Len(q.hash) \in Nat /\ Len(r.hash) \in Nat
    BY DEF Rows, Hashes
  <1>2. ~(q.seq < r.seq) /\ ~(r.seq < q.seq)
    BY <1>1, HashesGrow
  <1>3. q.seq = r.seq
    BY <1>1, <1>2
  <1>4. QED
    BY <1>3 DEF Distinct

\* and the length of a row's hash says which of the rows it is.
LEMMA HashTellsPosition ==
  ASSUME NEW rows \in SUBSET Rows, IsFiniteSet(rows), Distinct(rows),
         \A r \in rows : Climbs(rows, r), NEW r \in rows
  PROVE  Len(r.hash) = Position(rows, r)
  <1> DEFINE upTo == {q \in rows : q.seq <= r.seq}
             lengths == {Len(q.hash) : q \in upTo}
  <1>1. \A q \in rows : q.seq \in Nat /\ Len(q.hash) \in Nat
    BY DEF Rows, Hashes
  <1>2. IsFiniteSet(upTo) /\ r \in upTo
    BY <1>1, FS_Subset
  <1>3. lengths \in SUBSET Nat
    BY <1>1
  <1>4. ASSUME NEW x \in lengths PROVE x >= 1 /\ (x > 1 => x - 1 \in lengths)
    <2>1. PICK q \in upTo : x = Len(q.hash)
      OBVIOUS
    <2>2. Climbs(rows, q) /\ q \in rows /\ q.seq <= r.seq
      BY <2>1
    <2>3. x >= 1
      BY <2>1, <2>2 DEF Climbs
    <2>4. ASSUME x > 1 PROVE x - 1 \in lengths
      <3>1. PICK p \in rows : p.seq < q.seq /\ Len(p.hash) = Len(q.hash) - 1
        BY <2>1, <2>2, <2>4 DEF Climbs
      <3>2. p \in upTo
        BY <1>1, <2>2, <3>1
      <3>3. QED
        BY <2>1, <3>1, <3>2
    <2>5. QED
      BY <2>3, <2>4
  <1>5. IsFiniteSet(lengths) /\ Cardinality(lengths) = Cardinality(upTo)
    <2> DEFINE length == [q \in upTo |-> Len(q.hash)]
    <2>1. length \in [upTo -> lengths]
      OBVIOUS
    <2>2. \A q, p \in upTo : length[q] = length[p] => q = p
      BY HashLengthsDiffer
    <2>3. \A x \in lengths : \E q \in upTo : length[q] = x
      OBVIOUS
    <2> HIDE DEF length, lengths, upTo
    <2>4. length \in Bijection(upTo, lengths)
      BY <2>1, <2>2, <2>3 DEF Bijection, Injection, Surjection, IsInjective
    <2>5. QED
      BY <1>2, <2>4, FS_Bijection DEF ExistsBijection
  <1>6. lengths = 1 .. Cardinality(lengths)
    <2> HIDE DEF lengths
    <2>1. QED
      BY <1>3, <1>4, <1>5, InitialSegment
  <1>7. Len(r.hash) \in lengths
    BY <1>2
  <1>8. \A x \in lengths : x <= Len(r.hash)
    <2>1. ASSUME NEW q \in upTo PROVE Len(q.hash) <= Len(r.hash)
      <3>1. CASE q.seq = r.seq
        BY <1>1, <3>1 DEF Distinct
      <3>2. CASE q.seq # r.seq
        <4>1. q.seq < r.seq
          BY <1>1, <3>2
        <4>2. Len(q.hash) < Len(r.hash)
          BY <4>1, HashesGrow
        <4>3. QED
          BY <1>1, <4>2
      <3>3. QED
        BY <3>1, <3>2
    <2>2. QED
      BY <2>1
  <1>9. Cardinality(lengths) \in Nat
    <2> HIDE DEF lengths
    <2>1. QED
      BY <1>5, FS_CardinalityType
  <1> HIDE DEF lengths
  <1>10. Cardinality(lengths) \in lengths
    BY <1>6, <1>7, <1>9
  <1>11. Len(r.hash) = Cardinality(lengths)
    BY <1>1, <1>6, <1>7, <1>8, <1>9, <1>10
  <1>12. QED
    BY <1>5, <1>11 DEF Position

Unbroken(rows, contents, committed) ==
    \A r \in rows :
       /\ contents[r.txn] = r.txn
       /\ \E c \in committed :
            /\ c.txn = r.txn /\ c.data = r.data /\ c.hash = r.hash /\ c.at = r.at
            /\ c.seq = Position(rows, r)
            /\ \A q \in rows : Position(rows, q) = c.seq - 1 => c.prev = q.hash

\* So all rows are of the pipeline's chain, and hashes as long as the chain leave no row out.
LEMMA PassIntact ==
  ASSUME NEW committed \in SUBSET Rows, \A c \in committed : Written(c),
         NEW rows \in SUBSET Rows, IsFiniteSet(rows), Distinct(rows), Traced(rows, committed),
         NEW contents \in Seq(Nat), Within(rows, Len(contents)), Created(contents),
         NEW latest, Compromised(rows, latest, contents) = {}
  PROVE  Unbroken(rows, contents, committed)
  <1> DEFINE WrittenAs(r, c) == /\ c.txn = r.txn /\ c.data = r.data /\ c.hash = r.hash /\ c.at = r.at
                                /\ c.prev = PrecedingHash(rows, r)
  <1>1. ASSUME NEW r \in rows
        PROVE  contents[r.txn] = r.txn /\ \E c \in committed : WrittenAs(r, c)
    <2>1. Passes(rows, contents, r)
      BY NoneCompromised
    <2>2. QED
      BY <2>1, PassingRow
  <1>2. ASSUME NEW r \in rows, NEW c \in committed, WrittenAs(r, c)
        PROVE  c.seq = Len(r.hash) /\ c.seq \in Nat /\ c.seq >= 1 /\ Len(c.prev) = Len(r.hash) - 1
    <2>1. c \in Rows /\ Written(c) /\ c.seq \in Nat
      BY DEF Rows
    <2>2. Len(c.hash) = c.seq
      BY <2>1, WrittenHash
    <2>3. QED
      BY <1>2, <2>1, <2>2 DEF Written
  <1>3. ASSUME NEW r \in rows PROVE Climbs(rows, r)
    <2>1. PICK c \in committed : WrittenAs(r, c)
      BY <1>1
    <2>2. Len(r.hash) \in Nat /\ Len(r.hash) >= 1 /\ Len(c.prev) = Len(r.hash) - 1
      BY <1>2, <2>1
    <2>3. CASE c.prev = Genesis /\ \A q \in rows : ~(q.seq < r.seq)
      <3>1. Len(r.hash) = 1
        BY <2>2, <2>3 DEF Genesis
      <3>2. QED
        BY <2>3, <3>1 DEF Climbs
    <2>4. CASE \E q \in rows : /\ q.seq < r.seq /\ c.prev = q.hash
                               /\ \A p \in rows : p.seq < r.seq => p.seq <= q.seq
      <3>1. PICK q \in rows : /\ q.seq < r.seq /\ c.prev = q.hash
                              /\ \A p \in rows : p.seq < r.seq => p.seq <= q.seq
        BY <2>4
      <3>2. Len(q.hash) = Len(r.hash) - 1
        BY <2>2, <3>1
      <3>3. Len(q.hash) >= 1
        <4>1. PICK d \in committed : WrittenAs(q, d)
          BY <1>1
        <4>2. QED
          BY <1>2, <4>1
      <3>4. Len(r.hash) > 1 /\ Len(r.hash) >= 1 /\ Len(r.hash) # 1
        <4> DEFINE k == Len(r.hash)
        <4>1. k \in Nat /\ k - 1 >= 1
          BY <2>2, <3>2, <3>3
        <4> HIDE DEF k
        <4>2. k > 1 /\ k >= 1 /\ k # 1
          BY <4>1
        <4>3. QED
          BY <4>2 DEF k
      <3>5. \E q2 \in rows : /\ q2.seq < r.seq /\ Len(q2.hash) = Len(r.hash) - 1
                             /\ \A p \in rows : p.seq < r.seq => p.seq <= q2.seq
        BY <3>1, <3>2
      <3> HIDE DEF WrittenAs
      <3>6. QED
        BY <3>4, <3>5 DEF Climbs
    <2>5. QED
      BY <2>1, <2>3, <2>4, PrecedingRow
  <1>4. \A r \in rows : Len(r.hash) = Position(rows, r)
    BY <1>3, HashTellsPosition
  <1>5. ASSUME NEW r \in rows, NEW c \in committed, WrittenAs(r, c),
               NEW q \in rows, Position(rows, q) = c.seq - 1
        PROVE  c.prev = q.hash
    <2>1. c.seq = Len(r.hash) /\ Len(q.hash) = Len(r.hash) - 1 /\ Len(r.hash) \in Nat
      BY <1>2, <1>4, <1>5
    <2>2. Climbs(rows, q)
      BY <1>3
    <2>3. ~\A p \in rows : ~(p.seq < r.seq)
      <3>1. Len(r.hash) > 1 /\ Climbs(rows, r)
        BY <1>3, <2>1, <2>2 DEF Climbs
      <3>2. QED
        BY <3>1 DEF Climbs
    <2>4. PICK p \in rows : p.seq < r.seq /\ c.prev = p.hash
      BY <1>5, <2>3, PrecedingRow
    <2>5. Len(p.hash) = Len(q.hash)
      BY <1>2, <1>5, <2>1, <2>4
    <2>6. p = q
      BY <1>3, <2>5, HashLengthsDiffer
    <2>7. QED
      BY <2>4, <2>6
  <1>6. ASSUME NEW r \in rows, NEW c \in committed, WrittenAs(r, c)
        PROVE  c.seq = Position(rows, r)
    BY <1>2, <1>4, <1>6
  <1>7. QED
    BY <1>1, <1>5, <1>6 DEF Unbroken

-----------------------------------------------------------------------------
(* What a repair reads and restores                                        *)

\* Numbers of rows, and predecessors in them.
LEMMA NumbersReach ==
  ASSUME NEW rows \in SUBSET Rows, NEW low \in Nat, NEW last \in rows,
         \A b \in rows : b.seq > low => \E a \in rows : a.seq = b.seq - 1
  PROVE  \A n \in low .. last.seq : \E b \in rows : b.seq = n
  <1> DEFINE S == {b.seq : b \in rows}
  <1>1. S \in SUBSET Nat /\ last.seq \in S
    BY DEF Rows
  <1>2. ASSUME NEW x \in S, x > low PROVE x - 1 \in S
    <2>1. PICK b \in rows : x = b.seq
      OBVIOUS
    <2>2. PICK a \in rows : a.seq = b.seq - 1
      BY <1>2, <2>1
    <2>3. QED
      BY <2>1, <2>2
  <1>3. low .. last.seq \subseteq S
    <2> HIDE DEF S
    <2>1. QED
      BY <1>1, <1>2, NoGap
  <1>4. QED
    BY <1>3

\* While the backups have all numbers up to the last, a listing that reaches a start or
\* beyond it has the start.
LEMMA StartListed ==
  ASSUME NEW objects \in SUBSET Rows, IsFiniteSet(objects), NEW start \in Nat, start >= 1,
         \A b \in objects : BackedUp(objects, b.seq - 1),
         FromStart(Listed(objects), start) # {}
  PROVE  \E b \in FromStart(Listed(objects), start) : b.seq = start
  <1>1. PICK b \in Listed(objects) : b.seq >= start
    BY DEF FromStart
  <1>2. b \in objects /\ Cardinality({o \in objects : Before(o, b)}) < ListingBudget
    BY <1>1 DEF Listed
  <1>3. \A o \in objects : o.seq \in Nat /\ o.txn \in Nat
    BY DEF Rows
  <1>4. PICK o \in objects : o.seq = start
    <2>1. ASSUME NEW x \in objects, x.seq > start PROVE \E a \in objects : a.seq = x.seq - 1
      <3>1. x.seq - 1 # 0 /\ BackedUp(objects, x.seq - 1)
        BY <1>3, <2>1
      <3>2. QED
        BY <3>1 DEF BackedUp
    <2>2. start \in start .. b.seq
      BY <1>1, <1>2, <1>3
    <2>3. QED
      BY <1>2, <2>1, <2>2, NumbersReach
  <1>5. CASE b.seq = start
    BY <1>1, <1>5 DEF FromStart
  <1>6. CASE b.seq # start
    <2> DEFINE ahead(x) == {p \in objects : Before(p, x)}
    <2>1. o.seq < b.seq
      BY <1>1, <1>2, <1>3, <1>4, <1>6
    <2>2. ahead(o) \subseteq ahead(b)
      BY <1>2, <1>3, <2>1 DEF Before
    <2>3. IsFiniteSet(ahead(b)) /\ IsFiniteSet(ahead(o))
      BY FS_Subset
    <2>4. /\ Cardinality(ahead(o)) <= Cardinality(ahead(b))
          /\ Cardinality(ahead(o)) \in Nat /\ Cardinality(ahead(b)) \in Nat
      <3> HIDE DEF ahead
      <3>1. QED
        BY <2>2, <2>3, FS_Subset, FS_CardinalityType
    <2>5. ListingBudget \in Nat
      BY LedgerAssumption
    <2>6. Cardinality(ahead(o)) < ListingBudget
      <3>1. Cardinality(ahead(b)) < ListingBudget
        BY <1>2
      <3> HIDE DEF ahead
      <3>2. QED
        BY <2>4, <2>5, <3>1
    <2>7. o \in Listed(objects)
      BY <2>6 DEF Listed
    <2>8. QED
      BY <1>3, <1>4, <2>7 DEF FromStart
  <1>7. QED
    BY <1>5, <1>6

\* The last of the records that a repair restores.
LEMMA LastOfRecords ==
  ASSUME NEW records \in SUBSET Rows, IsFiniteSet(records), records # {}
  PROVE  LastRecord(records) \in records /\ \A b \in records : b.seq <= LastRecord(records).seq
  <1>1. \E b \in records : \A o \in records : o.seq <= b.seq
    BY GreatestSeq DEF Rows
  <1>2. QED
    BY <1>1 DEF LastRecord

\* They have every number from the first one to the last.
LEMMA ContiguousCovers ==
  ASSUME NEW records \in SUBSET Rows, IsFiniteSet(records), Contiguous(records),
         NEW start \in Nat, \E b \in records : b.seq = start
  PROVE  \A n \in start .. LastRecord(records).seq : \E b \in records : b.seq = n
  <1> DEFINE seqs == {b.seq : b \in records}
  <1>1. records # {} /\ \A b \in records : b.seq \in Nat
    BY DEF Rows
  <1>2. \E b \in records : \A o \in records : b.seq <= o.seq
    <2>1. seqs \in SUBSET Nat /\ seqs # {}
      BY <1>1
    <2>2. \E x \in seqs : \A y \in seqs : x <= y
      <3> HIDE DEF seqs
      <3>1. QED
        BY <2>1, LeastNumber
    <2>3. QED
      BY <2>2
  <1>3. FirstRecord(records) \in records /\ \A o \in records : FirstRecord(records).seq <= o.seq
    BY <1>2 DEF FirstRecord
  <1>4. ASSUME NEW b \in records, b.seq > start PROVE \E a \in records : a.seq = b.seq - 1
    <2>1. b # FirstRecord(records)
      BY <1>1, <1>3, <1>4
    <2>2. PICK a \in records : b.seq = a.seq + 1
      BY <2>1 DEF Contiguous
    <2>3. a.seq = b.seq - 1
      BY <1>1, <2>2
    <2>4. QED
      BY <2>3
  <1>5. LastRecord(records) \in records
    BY <1>1, LastOfRecords
  <1>6. QED
    BY <1>4, <1>5, NumbersReach

\* What the upsert of a backup's row writes, whatever row it finds.
LEMMA RestoredFields ==
  ASSUME NEW rows, NEW committed, NEW b \in committed
  PROVE  /\ RestoredRow(rows, b).seq = b.seq
         /\ RestoredRow(rows, b).data = b.data
         /\ RestoredRow(rows, b).prev = b.prev
         /\ RestoredRow(rows, b).at = HashTime(rows, b)
         /\ RestoredRow(rows, b).hash = generateHash(b.data, b.prev, HashTime(rows, b))
         /\ RestoredRow(rows, b).txn = RestoredTxn(rows, b)
         /\ Numbered(rows, committed) => \E c \in committed : c.seq = b.seq /\ c.txn = RestoredTxn(rows, b)
         /\ \A n : Within(rows, n) /\ b.txn \in 1 .. n => RestoredTxn(rows, b) \in 1 .. n
         /\ Written(b) /\ Traced(rows, committed) => HashTime(rows, b) = Stamp
  <1>1. CASE RowsAt(rows, b.seq) = {}
    BY <1>1 DEF RestoredRow, RestoredTxn, HashTime, Written
  <1>2. CASE RowsAt(rows, b.seq) # {}
    <2> DEFINE r == CHOOSE q \in RowsAt(rows, b.seq) : TRUE
    <2>1. r \in rows /\ r.seq = b.seq
      BY <1>2 DEF RowsAt
    <2>2. RestoredTxn(rows, b) = r.txn /\ HashTime(rows, b) = r.at
      BY <1>2 DEF RestoredTxn, HashTime
    <2> HIDE DEF r
    <2>3. /\ Numbered(rows, committed) => \E c \in committed : c.seq = b.seq /\ c.txn = RestoredTxn(rows, b)
          /\ \A n : Within(rows, n) => RestoredTxn(rows, b) \in 1 .. n
      BY <2>1, <2>2 DEF Numbered, Within
    <2>4. Traced(rows, committed) => HashTime(rows, b) = Stamp
      BY <2>1, <2>2 DEF Traced
    <2>5. QED
      BY <2>3, <2>4 DEF RestoredRow
  <1>3. QED
    BY <1>1, <1>2

\* It is the row that was committed but for its transaction, while times are as written.
LEMMA RestoredGenuine ==
  ASSUME NEW committed \in SUBSET Rows, NEW rows, Traced(rows, committed),
         NEW b \in committed, Written(b)
  PROVE  RestoredRow(rows, b) = [b EXCEPT !.txn = RestoredTxn(rows, b)]
  <1> DEFINE at == HashTime(rows, b)
             txn == RestoredTxn(rows, b)
  <1>1. at = Stamp /\ b.at = Stamp
    BY RestoredFields DEF Written
  <1>2. RestoredRow(rows, b) = [seq |-> b.seq, txn |-> txn, data |-> b.data, prev |-> b.prev,
                                hash |-> generateHash(b.data, b.prev, at), at |-> at]
    BY DEF RestoredRow
  <1> HIDE DEF at, txn
  <1>3. generateHash(b.data, b.prev, at) = b.hash
    BY <1>1 DEF Written
  <1>4. [b EXCEPT !.txn = txn] = [seq |-> b.seq, txn |-> txn, data |-> b.data, prev |-> b.prev,
                                  hash |-> b.hash, at |-> b.at]
    BY DEF Rows
  <1>5. QED
    BY <1>1, <1>2, <1>3, <1>4 DEF txn

\* And of that transaction, while the log's rows are and no number was given twice.
LEMMA RestoredKeys ==
  ASSUME NEW committed, NEW rows, Numbered(rows, committed), NEW b \in committed,
         \A c, d \in committed : c.seq = d.seq => c = d
  PROVE  RestoredTxn(rows, b) = b.txn
  <1>1. PICK c \in committed : c.seq = b.seq /\ c.txn = RestoredTxn(rows, b)
    BY RestoredFields
  <1>2. QED
    BY <1>1

\* The Transaction rows after the upserts.
LEMMA RestoredContents ==
  ASSUME NEW records, \A b \in records : Written(b), NEW contents \in Seq(Nat),
         RestoredLive(contents, records) \in Seq(Nat)
  PROVE  /\ Len(RestoredLive(contents, records)) = Len(contents)
         /\ Created(contents) => Created(RestoredLive(contents, records))
         /\ \A b \in records : b.txn \in 1 .. Len(contents) => RestoredLive(contents, records)[b.txn] = b.txn
  <1> DEFINE restored == RestoredLive(contents, records)
  <1>1. DOMAIN restored = 1 .. Len(contents)
    BY DEF RestoredLive
  <1>2. Len(restored) = Len(contents)
    <2>1. /\ DOMAIN restored = 1 .. Len(restored)
          /\ Len(restored) \in Nat /\ Len(contents) \in Nat
      BY LenProperties
    <2> HIDE DEF restored
    <2>2. QED
      BY <1>1, <2>1
  <1>3. ASSUME NEW t \in 1 .. Len(contents)
        PROVE  restored[t] = IF \E b \in records : b.txn = t THEN t ELSE contents[t]
    <2>1. CASE \E b \in records : b.txn = t
      <3> DEFINE c == CHOOSE b \in records : b.txn = t
      <3>1. c \in records /\ c.txn = t
        BY <2>1
      <3>2. restored[t] = c.data
        BY <2>1 DEF RestoredLive
      <3> HIDE DEF c, restored
      <3>3. QED
        BY <2>1, <3>1, <3>2 DEF Written
    <2>2. CASE ~\E b \in records : b.txn = t
      BY <2>2 DEF RestoredLive
    <2>3. QED
      BY <2>1, <2>2
  <1> HIDE DEF restored
  <1>4. Created(contents) => Created(restored)
    BY <1>2, <1>3 DEF Created
  <1>5. QED
    BY <1>2, <1>3, <1>4 DEF restored

\* The SecurityLog rows after the upserts.
LEMMA RestoredRows ==
  ASSUME NEW committed \in SUBSET Rows, \A c \in committed : Written(c),
         NEW rows, IsFiniteSet(rows), Distinct(rows),
         NEW records \in SUBSET committed, IsFiniteSet(records), Contiguous(records)
  PROVE  /\ IsFiniteSet(RestoredLog(rows, records))
         /\ Distinct(RestoredLog(rows, records))
         /\ \A n : Within(rows, n) /\ Within(records, n) => Within(RestoredLog(rows, records), n)
         /\ Numbered(rows, committed) => Numbered(RestoredLog(rows, records), committed)
         /\ Traced(rows, committed) => Traced(RestoredLog(rows, records), committed)
  <1> DEFINE kept == {r \in rows : \A b \in records : b.seq # r.seq}
             written == {RestoredRow(rows, b) : b \in records}
  <1>1. RestoredLog(rows, records) = kept \cup written
    BY DEF RestoredLog
  <1>2. \A r \in kept : r \in rows /\ \A b \in records : b.seq # r.seq
    OBVIOUS
  <1>3. ASSUME NEW r \in written
        PROVE  \E b \in records : r = RestoredRow(rows, b) /\ r.seq = b.seq
    <2>1. PICK b \in records : r = RestoredRow(rows, b)
      OBVIOUS
    <2>2. QED
      BY <2>1, RestoredFields
  <1>4. IsFiniteSet(kept \cup written)
    <2>1. IsFiniteSet(kept)
      BY FS_Subset
    <2>2. IsFiniteSet(written)
      <3> DEFINE upsert == [b \in records |-> RestoredRow(rows, b)]
      <3>1. upsert \in Surjection(records, written)
        BY DEF Surjection
      <3> HIDE DEF upsert, written
      <3>2. QED
        BY <3>1, FS_Surjection
    <2> HIDE DEF kept, written
    <2>3. QED
      BY <2>1, <2>2, FS_Union
  <1> HIDE DEF kept, written
  <1>5. Distinct(kept \cup written)
    <2> SUFFICES ASSUME NEW q \in kept \cup written, NEW r \in kept \cup written, q.seq = r.seq
                 PROVE  q = r
      BY DEF Distinct
    <2>1. CASE q \in kept /\ r \in kept
      BY <1>2, <2>1 DEF Distinct
    <2>2. CASE q \in written /\ r \in written
      <3>1. PICK b \in records : q = RestoredRow(rows, b) /\ q.seq = b.seq
        BY <1>3, <2>2
      <3>2. PICK c \in records : r = RestoredRow(rows, c) /\ r.seq = c.seq
        BY <1>3, <2>2
      <3>3. b = c
        BY <3>1, <3>2 DEF Contiguous
      <3>4. QED
        BY <3>1, <3>2, <3>3
    <2>3. CASE (q \in kept /\ r \in written) \/ (q \in written /\ r \in kept)
      BY <1>2, <1>3, <2>3
    <2>4. QED
      BY <2>1, <2>2, <2>3
  <1>6. ASSUME Numbered(rows, committed) PROVE Numbered(kept \cup written, committed)
    <2> SUFFICES ASSUME NEW r \in kept \cup written
                 PROVE  \E c \in committed : c.seq = r.seq /\ c.txn = r.txn
      BY DEF Numbered
    <2>1. CASE r \in kept
      BY <1>2, <1>6, <2>1 DEF Numbered
    <2>2. CASE r \in written
      <3>1. PICK b \in records : r = RestoredRow(rows, b) /\ r.seq = b.seq
        BY <1>3, <2>2
      <3>2. QED
        BY <1>6, <3>1, RestoredFields
    <2>3. QED
      BY <2>1, <2>2
  <1>7. ASSUME Traced(rows, committed) PROVE Traced(kept \cup written, committed)
    <2> SUFFICES ASSUME NEW r \in kept \cup written
                 PROVE  /\ r.at = Stamp
                        /\ r.hash # Garbled => \E c \in committed : c.hash = r.hash
      BY DEF Traced
    <2>1. CASE r \in kept
      BY <1>2, <1>7, <2>1 DEF Traced
    <2>2. CASE r \in written
      <3>1. PICK b \in records : r = RestoredRow(rows, b) /\ r.seq = b.seq
        BY <1>3, <2>2
      <3>2. b \in committed /\ Written(b)
        BY <3>1
      <3>3. r.at = Stamp /\ r.hash = generateHash(b.data, b.prev, Stamp)
        BY <1>7, <3>1, <3>2, RestoredFields
      <3>4. r.hash = b.hash
        BY <3>2, <3>3 DEF Written
      <3>5. QED
        BY <3>1, <3>2, <3>3, <3>4
    <2>3. QED
      BY <2>1, <2>2
  <1>8. ASSUME NEW n, Within(rows, n), Within(records, n) PROVE Within(kept \cup written, n)
    <2>1. \A r \in kept : r.txn \in 1 .. n
      BY <1>2, <1>8 DEF Within
    <2>2. ASSUME NEW r \in written PROVE r.txn \in 1 .. n
      <3>1. PICK b \in records : r = RestoredRow(rows, b)
        BY <1>3
      <3>2. b \in committed /\ b.txn \in 1 .. n
        BY <1>8 DEF Within
      <3>3. QED
        BY <1>8, <3>1, <3>2, RestoredFields
    <2>3. QED
      BY <2>1, <2>2 DEF Within
  <1>9. QED
    BY <1>1, <1>4, <1>5, <1>6, <1>7, <1>8

\* The chain's head after them.
LEMMA RestoredHeadLinks ==
  ASSUME NEW committed \in SUBSET Rows, NEW rows \in SUBSET Rows,
         NEW records \in SUBSET committed, IsFiniteSet(records), records # {},
         \A b \in records : Written(b)
  PROVE  /\ \E b \in records : RestoredHead(rows, records).seq = b.seq
         /\ Len(RestoredHead(rows, records).hash) = RestoredHead(rows, records).seq
  <1> DEFINE last == LastRecord(records)
             at == HashTime(rows, last)
  <1>1. last \in records /\ last \in Rows /\ Written(last)
    BY LastOfRecords
  <1>2. last.seq \in Nat /\ last.data \in Nat /\ last.prev \in Hashes /\ Len(last.prev) = last.seq - 1
    BY <1>1 DEF Written, Rows
  <1>3. at \in Nat
    <2>1. RestoredRow(rows, last) \in Rows /\ RestoredRow(rows, last).at = at
      BY <1>1, RestoredRowType, RestoredFields
    <2>2. QED
      BY <2>1 DEF Rows
  <1>4. RestoredHead(rows, records) = [seq |-> last.seq, hash |-> generateHash(last.data, last.prev, at)]
    BY <1>1, RestoredFields DEF RestoredHead
  <1> HIDE DEF last, at
  <1>5. Len(generateHash(last.data, last.prev, at)) = Len(last.prev) + 1
    BY <1>2, <1>3, HashOpens
  <1>6. QED
    BY <1>1, <1>2, <1>4, <1>5

-----------------------------------------------------------------------------
(* The inductive invariant                                                 *)

HistoryShape ==
    [committed : SUBSET Rows, corruptions : Nat, kinds : SUBSET AllCorruptionKinds, faults : Nat,
     lost : BOOLEAN, disturbed : SUBSET Checked]

\* The rows that were committed, and those who have one of them in hand.
CommittedInv ==
    /\ \A c \in history.committed : Written(c) /\ c.txn \in 1 .. Len(live)
    /\ backups \subseteq history.committed
    /\ \A w \in RepairWorkers : repairer[w].records \subseteq history.committed

\* The head's hash is as long as the chain, and so the next row's will be.
AuditorInv ==
    /\ Len(head.hash) = head.seq
    /\ auditor.next >= 1
    /\ auditor.pc = "commit" => Written(auditor.row) /\ auditor.row.txn \in 1 .. Len(live)
    /\ auditor.pc = "backup" => auditor.row \in history.committed

\* No number and no transactionId was written by someone else.
KeysKept == history.kinds \cap {"seq", "txn"} = {}

StoresInv ==
    /\ Created(live)
    /\ IsFiniteSet(log) /\ Distinct(log) /\ Within(log, Len(live))
    /\ KeysKept => Numbered(log, history.committed)
    /\ "time" \notin history.kinds => Traced(log, history.committed)

VerifiersInv ==
    \A v \in Verifiers : verifier[v].pc = "anchor" =>
       LET rows == verifier[v].rows
       IN /\ Created(verifier[v].live)
          /\ IsFiniteSet(rows) /\ Distinct(rows) /\ Within(rows, Len(verifier[v].live))
          /\ "time" \notin history.kinds => Traced(rows, history.committed)

\* While no backup is lost the backups have all numbers up to the last, and the only row
\* without one is the auditor's.
BackupsInv ==
    ~history.lost =>
       /\ \A b \in backups : BackedUp(backups, b.seq - 1)
       /\ \A w \in RepairWorkers : \A b \in repairer[w].records : BackedUp(backups, b.seq)
       /\ auditor.pc # "idle" => BackedUp(backups, auditor.row.seq - 1)
       /\ BackedUp(backups, head.seq) \/ (auditor.pc = "backup" /\ head.seq = auditor.row.seq)

Fetched == {"boundary", "lock", "mark", "restore"}

\* What a repair has read starts at the incident's row and has no gap.
RecordsInv ==
    \A w \in RepairWorkers : repairer[w].pc \in Fetched =>
       /\ Contiguous(repairer[w].records)
       /\ \A b \in repairer[w].records : b.seq >= incidents[IncidentOf(w)].start
       /\ ~history.lost => \E b \in repairer[w].records : b.seq = First(incidents[IncidentOf(w)].start)

RecoveryInv ==
    /\ history \in HistoryShape
    /\ CommittedInv
    /\ AuditorInv
    /\ StoresInv
    /\ VerifiersInv
    /\ BackupsInv
    /\ RecordsInv

-----------------------------------------------------------------------------
(* What steps leave alone                                                  *)

\* The part of the history that the invariant speaks of.
SameHistory ==
    /\ history' \in HistoryShape
    /\ history'.committed = history.committed
    /\ history'.kinds = history.kinds
    /\ history'.lost = history.lost

\* Nothing that was remembered is forgotten.
HistoryGrows ==
    /\ history' \in HistoryShape
    /\ history.committed \subseteq history'.committed
    /\ history.kinds \subseteq history'.kinds
    /\ history.lost => history'.lost

\* What is the same has not forgotten anything.
LEMMA SameHistoryGrows == SameHistory => HistoryGrows
  BY DEF SameHistory, HistoryGrows

\* A fault is counted; what the invariant speaks of stays the same.
LEMMA FaultRemembers ==
  ASSUME history \in HistoryShape, Fault
  PROVE  SameHistory /\ history' # history
  <1> DEFINE faults == history.faults + 1
  <1>1. faults \in Nat /\ faults # history.faults
    BY DEF HistoryShape
  <1>2. history' = [history EXCEPT !.faults = faults]
    BY DEF Fault
  <1> HIDE DEF faults
  <1>3. history'.faults = faults /\ SameHistory
    BY <1>1, <1>2 DEF HistoryShape, SameHistory
  <1>4. QED
    BY <1>1, <1>3

\* So it does when the status of a ledger under repair is written by others.
LEMMA DisturbRemembers ==
  ASSUME history \in HistoryShape, Disturb
  PROVE  SameHistory
  <1> DEFINE disturbed == history.disturbed \cup ({repairer[w].pc : w \in RepairWorkers} \cap Checked)
  <1>1. disturbed \in SUBSET Checked
    BY DEF HistoryShape
  <1>2. history' = [history EXCEPT !.disturbed = disturbed]
    BY DEF Disturb
  <1> HIDE DEF disturbed
  <1>3. QED
    BY <1>1, <1>2 DEF HistoryShape, SameHistory

\* A step that leaves the history alone.
LEMMA HistoryStays == history \in HistoryShape /\ UNCHANGED history => SameHistory
  BY DEF SameHistory

\* A worker gets records from nowhere but S3.
RecordsMove ==
    \A w \in RepairWorkers : repairer'[w].records \subseteq repairer[w].records \cup backups

\* A worker that has records after a step has had them before it, for the same incident.
WorkerKeeps(w) ==
    repairer'[w].pc \in Fetched =>
       /\ repairer[w].pc \in Fetched
       /\ repairer'[w].records = repairer[w].records
       /\ jobs'[repairer'[w].job].incident = IncidentOf(w)

\* Incidents stay about the row that they were opened for.
StartsStay == \A i \in Incidents : i \in Incidents' /\ incidents'[i].start = incidents[i].start

\* Workers that have read the records are under way.
LEMMA FetchedUnderway == Fetched \subseteq Underway /\ Fetched = Underway \ {"find", "fetch"}
  BY DEF Fetched, Underway

\* The stores and the auditor are left alone.
LEMMA DataLeftAlone ==
  ASSUME RecoveryInv, UNCHANGED data, SameHistory, RecordsMove
  PROVE  history' \in HistoryShape /\ CommittedInv' /\ AuditorInv' /\ StoresInv' /\ BackupsInv'
  <1>1. UNCHANGED <<live, log, head, backups, auditor>>
    BY DEF data
  <1>2. CommittedInv'
    BY <1>1 DEF RecoveryInv, CommittedInv, SameHistory, RecordsMove
  <1>3. AuditorInv' /\ StoresInv'
    BY <1>1 DEF RecoveryInv, AuditorInv, StoresInv, KeysKept, SameHistory
  <1>4. BackupsInv'
    <2> SUFFICES ASSUME ~history.lost PROVE BackupsInv'
      BY DEF BackupsInv, SameHistory
    <2>1. \A w \in RepairWorkers : \A b \in repairer'[w].records : BackedUp(backups, b.seq)
      <3>1. TAKE w \in RepairWorkers
      <3>2. TAKE b \in repairer'[w].records
      <3>3. b \in repairer[w].records \/ b \in backups
        BY DEF RecordsMove
      <3>4. QED
        BY <3>3 DEF RecoveryInv, BackupsInv, BackedUp
    <2>2. QED
      BY <1>1, <2>1 DEF RecoveryInv, BackupsInv, BackedUp
  <1>5. QED
    BY <1>2, <1>3, <1>4 DEF SameHistory

\* The records of the workers are those they had.
LEMMA RecordsStay ==
  ASSUME Inv, RecordsInv, HistoryGrows, StartsStay, \A w \in RepairWorkers : WorkerKeeps(w)
  PROVE  RecordsInv'
  <1> SUFFICES ASSUME NEW w \in RepairWorkers, repairer'[w].pc \in Fetched
               PROVE  LET start == incidents'[jobs'[repairer'[w].job].incident].start
                      IN /\ Contiguous(repairer'[w].records)
                         /\ \A b \in repairer'[w].records : b.seq >= start
                         /\ ~history'.lost => \E b \in repairer'[w].records : b.seq = First(start)
    BY DEF RecordsInv, IncidentOf
  <1>1. /\ repairer[w].pc \in Fetched
        /\ repairer'[w].records = repairer[w].records
        /\ jobs'[repairer'[w].job].incident = IncidentOf(w)
    BY DEF WorkerKeeps
  <1>2. IncidentOf(w) \in Incidents
    BY <1>1, IncidentOfType, FetchedUnderway
  <1>3. incidents'[IncidentOf(w)].start = incidents[IncidentOf(w)].start
    BY <1>2 DEF StartsStay
  <1>4. QED
    BY <1>1, <1>3 DEF RecordsInv, HistoryGrows

\* Repairs are left alone, and the incidents' rows.
LEMMA WorkersLeftAlone ==
  ASSUME Inv, RecordsInv, HistoryGrows, StartsStay, UNCHANGED repairer,
         \A w \in RepairWorkers : repairer[w].pc \in Underway =>
            jobs'[repairer[w].job].incident = IncidentOf(w)
  PROVE  RecordsInv' /\ RecordsMove
  <1>1. \A w \in RepairWorkers : WorkerKeeps(w)
    BY FetchedUnderway DEF WorkerKeeps
  <1>2. RecordsMove
    BY DEF RecordsMove
  <1>3. QED
    BY <1>1, <1>2, RecordsStay

\* Incidents that are left alone keep their starts.
LEMMA SameIncidents ==
  ASSUME UNCHANGED incidents PROVE StartsStay
  BY DEF StartsStay, Incidents

\* Verifications are left alone.
LEMMA VerifiersLeftAlone ==
  ASSUME VerifiersInv, HistoryGrows, UNCHANGED verifier PROVE VerifiersInv'
  <1>1. \A rows : Traced(rows, history.committed) => Traced(rows, history'.committed)
    BY DEF Traced, HistoryGrows
  <1>2. "time" \notin history'.kinds => "time" \notin history.kinds
    BY DEF HistoryGrows
  <1>3. QED
    BY <1>1, <1>2 DEF VerifiersInv

-----------------------------------------------------------------------------
(* Steps of verification                                                   *)

\* A verification that goes on with a report, or ends.
LEMMA ReportMoves ==
  ASSUME Inv, VerifiersInv, SameHistory, NEW v \in Verifiers, NEW next,
         verifier' = [verifier EXCEPT ![v] = next],
         next.pc # "anchor"
  PROVE  VerifiersInv'
  <1>1. \A u \in Verifiers : verifier'[u] = IF u = v THEN next ELSE verifier[u]
    BY DEF Inv, Shapes, VerifyInv
  <1>2. QED
    BY <1>1 DEF VerifiersInv, SameHistory

\* A verification that turns to its report has read both.
LEMMA ReportHasRead == ASSUME NEW todo PROVE Report(todo).pc # "anchor"
  BY DEF Report, IdleVerifier

\* What a verification reads is what the stores hold.
LEMMA ReadLogsVerifiers ==
  ASSUME Inv, RecoveryInv, NEW v \in Verifiers, readLogs(v) PROVE VerifiersInv'
  <1> DEFINE next == [verifier[v] EXCEPT !.pc = "anchor", !.rows = log, !.live = live]
  <1>1. verifier[v] \in VerifierShape
    BY DEF Inv, Shapes, VerifyInv
  <1>2. next.pc = "anchor" /\ next.rows = log /\ next.live = live
    BY <1>1 DEF VerifierShape
  <1>3. verifier' = [verifier EXCEPT ![v] = next]
    BY DEF readLogs
  <1> HIDE DEF next
  <1>4. \A u \in Verifiers : verifier'[u] = IF u = v THEN next ELSE verifier[u]
    BY <1>3 DEF Inv, Shapes, VerifyInv
  <1>5. UNCHANGED history
    BY DEF readLogs
  <1>6. /\ Created(live) /\ IsFiniteSet(log) /\ Distinct(log) /\ Within(log, Len(live))
        /\ "time" \notin history.kinds => Traced(log, history.committed)
    BY DEF RecoveryInv, StoresInv
  <1>7. ASSUME NEW u \in Verifiers, verifier'[u].pc = "anchor"
        PROVE  LET rows == verifier'[u].rows
               IN /\ Created(verifier'[u].live)
                  /\ IsFiniteSet(rows) /\ Distinct(rows) /\ Within(rows, Len(verifier'[u].live))
                  /\ "time" \notin history.kinds => Traced(rows, history.committed)
    <2>1. CASE u = v
      BY <1>2, <1>4, <1>6, <2>1
    <2>2. CASE u # v
      BY <1>4, <1>7, <2>2 DEF RecoveryInv, VerifiersInv
    <2>3. QED
      BY <2>1, <2>2
  <1>8. QED
    BY <1>5, <1>7 DEF VerifiersInv

\* One that has read both turns to its report.
LEMMA ReadLatestBackupVerifiers ==
  ASSUME Inv, RecoveryInv, NEW v \in Verifiers, readLatestBackup(v) PROVE VerifiersInv'
  <1> DEFINE todo == Compromised(verifier[v].rows, LatestBackup(backups), verifier[v].live)
  <1>1. verifier' = [verifier EXCEPT ![v] = Report(todo)]
    BY DEF readLatestBackup
  <1> HIDE DEF todo
  <1>2. VerifiersInv /\ SameHistory
    BY HistoryStays DEF RecoveryInv, readLatestBackup
  <1>3. QED
    BY <1>1, <1>2, ReportHasRead, ReportMoves

\* An incident is added behind the others.
LEMMA CreateIncidentStarts ==
  ASSUME Inv, RecoveryInv, NEW v \in Verifiers, createIncident(v)
  PROVE  StartsStay /\ VerifiersInv' /\ \A i \in Incidents : incidents'[i] = incidents[i]
  <1> DEFINE new == [start |-> Current(v).seq, reason |-> Current(v).reason,
                     status |-> "OPEN", credit |-> 0]
  <1>1. /\ Current(v) \in Reports
        /\ verifier[v].pc = "open" /\ verifier[v] \in VerifierShape
    BY CurrentType DEF createIncident, Inv, Shapes, VerifyInv
  <1>2. new \in IncidentShape
    BY <1>1 DEF Reports, IncidentShape, IncidentStatus
  <1>3. incidents' = Append(incidents, new) /\ incidents \in Seq(IncidentShape)
    BY DEF createIncident, Inv, Shapes, IncidentsInv
  <1> HIDE DEF new
  <1>4. /\ Len(incidents') = Len(incidents) + 1
        /\ \A i \in 1 .. Len(incidents) : incidents'[i] = incidents[i]
    BY <1>2, <1>3, AppendProperties
  <1>5. /\ Incidents = 1 .. Len(incidents)
        /\ Incidents' = 1 .. (Len(incidents) + 1)
        /\ Len(incidents) \in Nat
    BY <1>4, Lengths DEF Incidents
  <1>6. StartsStay
    BY <1>4, <1>5 DEF StartsStay
  <1>7. VerifiersInv'
    <2> DEFINE next == [verifier[v] EXCEPT !.pc = "lock", !.incident = Len(incidents) + 1]
    <2>1. next.pc = "lock"
      BY <1>1 DEF VerifierShape
    <2>2. verifier' = [verifier EXCEPT ![v] = next]
      BY DEF createIncident, Inv, Shapes, VerifyInv
    <2> HIDE DEF next
    <2>3. VerifiersInv /\ SameHistory
      BY HistoryStays DEF RecoveryInv, createIncident
    <2>4. QED
      BY <2>1, <2>2, <2>3, ReportMoves
  <1>8. QED
    BY <1>4, <1>5, <1>6, <1>7

\* Verifications keep the invariant.
LEMMA VerifyRecovery ==
  ASSUME Inv, RecoveryInv, NEW v \in Verifiers, VerifyStep(v) PROVE RecoveryInv'
  <1>1. UNCHANGED <<data, jobs, repairer>>
    BY DEF VerifyStep, readLogs, readLatestBackup, createIncident, lockLedger, verificationFails
  <1>2. SameHistory
    <2>1. history \in HistoryShape
      BY DEF RecoveryInv
    <2>2. CASE UNCHANGED history
      BY <2>1, <2>2, HistoryStays
    <2>3. CASE Disturb
      BY <2>1, <2>3, DisturbRemembers
    <2>4. CASE Fault
      BY <2>1, <2>4, FaultRemembers
    <2>5. QED
      BY <2>2, <2>3, <2>4
         DEF VerifyStep, readLogs, readLatestBackup, createIncident, lockLedger, verificationFails
  <1>3. VerifiersInv /\ RecordsInv /\ HistoryGrows
    BY <1>2, SameHistoryGrows DEF RecoveryInv
  <1>4. VerifiersInv'
    <2>1. CASE readLogs(v)
      BY <2>1, ReadLogsVerifiers
    <2>2. CASE readLatestBackup(v)
      BY <2>2, ReadLatestBackupVerifiers
    <2>3. CASE createIncident(v)
      BY <2>3, CreateIncidentStarts
    <2>4. CASE lockLedger(v)
      <3>1. PICK todo : verifier' = [verifier EXCEPT ![v] = Report(todo)]
        BY <2>4 DEF lockLedger
      <3>2. QED
        BY <1>2, <1>3, <3>1, ReportHasRead, ReportMoves
    <2>5. CASE verificationFails(v)
      <3>1. verifier' = [verifier EXCEPT ![v] = Report({})]
        BY <2>5 DEF verificationFails, Report
      <3>2. QED
        BY <1>2, <1>3, <3>1, ReportHasRead, ReportMoves
    <2>6. QED
      BY <2>1, <2>2, <2>3, <2>4, <2>5 DEF VerifyStep
  <1>5. StartsStay
    <2>1. CASE createIncident(v)
      BY <2>1, CreateIncidentStarts
    <2>2. CASE UNCHANGED incidents
      BY <2>2, SameIncidents
    <2>3. QED
      BY <2>1, <2>2 DEF VerifyStep, readLogs, readLatestBackup, lockLedger, verificationFails
  <1>6. RecordsInv' /\ RecordsMove
    BY <1>1, <1>3, <1>5, WorkersLeftAlone DEF IncidentOf
  <1>7. QED
    BY <1>1, <1>2, <1>4, <1>6, DataLeftAlone DEF RecoveryInv

-----------------------------------------------------------------------------
(* Steps of the pipeline, and corruption                                   *)

\* They leave verifications, incidents and repairs alone.
LEMMA AuditLeavesAlone ==
  ASSUME Inv, RecoveryInv, AuditStep, HistoryGrows
  PROVE  VerifiersInv' /\ RecordsInv' /\ RecordsMove /\ UNCHANGED repairer
  <1>1. UNCHANGED <<incidents, procs>>
    BY DEF AuditStep, ledgerMiddleware, createTransaction, readChainState, commitRow,
           commitConflicts, writeTransactionBackup, backupGivenUp, Corrupt, procs
  <1>2. VerifiersInv' /\ StartsStay
    BY <1>1, SameIncidents, VerifiersLeftAlone DEF RecoveryInv, procs
  <1>3. RecordsInv' /\ RecordsMove
    BY <1>1, <1>2, WorkersLeftAlone DEF RecoveryInv, procs, IncidentOf
  <1>4. QED
    BY <1>1, <1>2, <1>3 DEF procs

\* A new transaction keeps the invariant.
LEMMA CreateRecovery ==
  ASSUME Inv, RecoveryInv, createTransaction PROVE RecoveryInv'
  <1>1. UNCHANGED <<log, head, backups, auditor, history>> /\ live' = Append(live, Len(live) + 1)
    BY DEF createTransaction
  <1>2. SameHistory
    BY <1>1, HistoryStays DEF RecoveryInv
  <1>3. VerifiersInv' /\ RecordsInv' /\ RecordsMove /\ UNCHANGED repairer
    BY <1>2, SameHistoryGrows, AuditLeavesAlone DEF AuditStep
  <1>4. live \in Seq(Nat) /\ Len(live) \in Nat /\ Len(live) + 1 \in Nat
    BY DEF Inv, Shapes, DataInv
  <1>5. /\ Len(live') = Len(live) + 1
        /\ \A t \in 1 .. Len(live) : live'[t] = live[t]
        /\ live'[Len(live) + 1] = Len(live) + 1
    BY <1>1, <1>4, AppendProperties
  <1>6. 1 .. Len(live) \subseteq 1 .. Len(live')
    BY <1>4, <1>5
  <1>7. CommittedInv'
    BY <1>1, <1>3, <1>6 DEF RecoveryInv, CommittedInv
  <1>8. AuditorInv'
    BY <1>1, <1>6 DEF RecoveryInv, AuditorInv
  <1>9. StoresInv'
    <2>1. ASSUME NEW t \in 1 .. Len(live') PROVE live'[t] \in {t, 0}
      <3>1. CASE t \in 1 .. Len(live)
        BY <1>5, <3>1 DEF RecoveryInv, StoresInv, Created
      <3>2. CASE t = Len(live) + 1
        BY <1>5, <3>2
      <3>3. QED
        BY <1>4, <1>5, <3>1, <3>2
    <2>2. Created(live')
      BY <2>1 DEF Created
    <2>3. Within(log', Len(live'))
      BY <1>1, <1>6 DEF RecoveryInv, StoresInv, Within
    <2>4. QED
      BY <1>1, <2>2, <2>3 DEF RecoveryInv, StoresInv, KeysKept
  <1>10. BackupsInv'
    BY <1>1, <1>3 DEF RecoveryInv, BackupsInv
  <1>11. QED
    BY <1>2, <1>3, <1>7, <1>8, <1>9, <1>10 DEF RecoveryInv, SameHistory

\* The next row is linked to the head.
LEMMA NewRowWritten ==
  ASSUME Inv, RecoveryInv
  PROVE  Written(NewRow) /\ NewRow.txn = auditor.next /\ NewRow.seq = head.seq + 1
  <1> DEFINE prev == IF head.seq = 0 THEN Genesis ELSE head.hash
  <1>1. head.seq \in Nat /\ Len(head.hash) = head.seq /\ auditor.next >= 1
    BY DEF Inv, Shapes, DataInv, RecoveryInv, AuditorInv
  <1>2. Len(prev) = head.seq
    BY <1>1 DEF Genesis
  <1>3. NewRow = [seq |-> head.seq + 1, txn |-> auditor.next, data |-> auditor.next, prev |-> prev,
                  hash |-> generateHash(auditor.next, prev, Stamp), at |-> Stamp]
    BY DEF NewRow
  <1> HIDE DEF prev
  <1>4. QED
    BY <1>1, <1>2, <1>3 DEF Written

\* Reading the head prepares a row as the pipeline writes it.
LEMMA ReadChainRecovery ==
  ASSUME Inv, RecoveryInv, readChainState PROVE RecoveryInv'
  <1> DEFINE next == [auditor EXCEPT !.pc = "commit", !.row = NewRow]
  <1>1. /\ UNCHANGED <<live, log, head, backups, history>> /\ auditor' = next
        /\ auditor.pc = "idle" /\ auditor.next <= Len(live)
    BY DEF readChainState
  <1>2. next.pc = "commit" /\ next.row = NewRow /\ next.next = auditor.next
    BY DEF Inv, Shapes, DataInv
  <1> HIDE DEF next
  <1>3. SameHistory
    BY <1>1, HistoryStays DEF RecoveryInv
  <1>4. VerifiersInv' /\ RecordsInv' /\ RecordsMove /\ UNCHANGED repairer
    BY <1>3, SameHistoryGrows, AuditLeavesAlone DEF AuditStep
  <1>5. Written(NewRow) /\ NewRow.txn = auditor.next /\ NewRow.seq = head.seq + 1
    BY NewRowWritten
  <1>6. CommittedInv' /\ StoresInv'
    BY <1>1, <1>4 DEF RecoveryInv, CommittedInv, StoresInv, KeysKept
  <1>7. auditor.next \in Nat /\ Len(live) \in Nat /\ head.seq \in Nat
    BY DEF Inv, Shapes, DataInv
  <1>8. AuditorInv'
    BY <1>1, <1>2, <1>5, <1>7 DEF RecoveryInv, AuditorInv
  <1>9. BackupsInv'
    BY <1>1, <1>2, <1>4, <1>5, <1>7 DEF RecoveryInv, BackupsInv
  <1>10. QED
    BY <1>3, <1>4, <1>6, <1>8, <1>9 DEF RecoveryInv, SameHistory

\* The row is committed behind the head that it was linked to, or behind one that a repair
\* has set back: its number is free either way.
LEMMA CommitRecovery ==
  ASSUME Inv, RecoveryInv, commitRow PROVE RecoveryInv'
  <1> DEFINE row == auditor.row
             committed == history.committed \cup {row}
  <1>1. /\ UNCHANGED <<live, backups>> /\ RowsAt(log, row.seq) = {} /\ auditor.pc = "commit"
        /\ log' = log \cup {row} /\ head' = [seq |-> row.seq, hash |-> row.hash]
    BY DEF commitRow
  <1>2. history' = [history EXCEPT !.committed = committed]
    BY DEF commitRow
  <1>3. auditor' = [auditor EXCEPT !.pc = "backup"]
    BY DEF commitRow
  <1>4. auditor'.pc = "backup" /\ auditor'.row = row /\ auditor'.next = auditor.next
    BY <1>3 DEF Inv, Shapes, DataInv
  <1>5. row \in Rows /\ Written(row) /\ row.txn \in 1 .. Len(live)
    BY <1>1 DEF Inv, Shapes, DataInv, RecoveryInv, AuditorInv
  <1>6. committed \in SUBSET Rows /\ row \in committed
    BY <1>5 DEF RecoveryInv, HistoryShape
  <1> HIDE DEF committed
  <1>7. /\ history' \in HistoryShape /\ history'.committed = committed
        /\ history'.kinds = history.kinds /\ history'.lost = history.lost
    BY <1>2, <1>6 DEF RecoveryInv, HistoryShape
  <1>8. HistoryGrows
    BY <1>7 DEF HistoryGrows, committed
  <1>9. VerifiersInv' /\ RecordsInv' /\ RecordsMove /\ UNCHANGED repairer
    BY <1>8, AuditLeavesAlone DEF AuditStep
  <1>10. CommittedInv'
    BY <1>1, <1>5, <1>7, <1>9 DEF RecoveryInv, CommittedInv, committed
  <1>11. AuditorInv'
    <2>1. Len(row.hash) = row.seq
      BY <1>5, WrittenHash
    <2>2. QED
      BY <1>1, <1>4, <1>6, <1>7, <2>1 DEF RecoveryInv, AuditorInv
  <1>12. StoresInv'
    <2>1. IsFiniteSet(log') /\ Created(live') /\ Within(log', Len(live'))
      BY <1>1, <1>5, FS_AddElement DEF RecoveryInv, StoresInv, Within
    <2>2. Distinct(log')
      BY <1>1 DEF RecoveryInv, StoresInv, Distinct, RowsAt
    <2>3. KeysKept => Numbered(log', committed)
      BY <1>1, <1>6 DEF RecoveryInv, StoresInv, Numbered, committed
    <2>4. "time" \notin history.kinds => Traced(log', committed)
      <3>1. row.at = Stamp
        BY <1>5 DEF Written
      <3>2. QED
        BY <1>1, <1>6, <3>1 DEF RecoveryInv, StoresInv, Traced, committed
    <2>5. KeysKept' = KeysKept
      BY <1>7 DEF KeysKept
    <2>6. QED
      BY <1>7, <2>1, <2>2, <2>3, <2>4, <2>5 DEF StoresInv
  <1>13. BackupsInv'
    BY <1>1, <1>4, <1>7, <1>9 DEF RecoveryInv, BackupsInv
  <1>14. QED
    BY <1>7, <1>9, <1>10, <1>11, <1>12, <1>13 DEF RecoveryInv

\* The auditor is done with a row.
LEMMA AuditedIdle ==
  ASSUME Inv, RecoveryInv, auditor' \in {Audited, [Audited EXCEPT !.next = auditor.next]}
  PROVE  auditor'.pc = "idle" /\ auditor'.next >= 1
  <1>1. auditor.next \in Nat /\ auditor.next >= 1
    BY DEF Inv, Shapes, DataInv, RecoveryInv, AuditorInv
  <1>2. QED
    BY <1>1 DEF Audited

\* A commit that conflicts is given up.
LEMMA ConflictRecovery ==
  ASSUME Inv, RecoveryInv, commitConflicts PROVE RecoveryInv'
  <1>1. UNCHANGED <<live, log, head, backups, history>> /\ auditor.pc = "commit"
    BY DEF commitConflicts
  <1>2. auditor'.pc = "idle" /\ auditor'.next >= 1
    BY AuditedIdle DEF commitConflicts
  <1>3. SameHistory
    BY <1>1, HistoryStays DEF RecoveryInv
  <1>4. VerifiersInv' /\ RecordsInv' /\ RecordsMove /\ UNCHANGED repairer
    BY <1>3, SameHistoryGrows, AuditLeavesAlone DEF AuditStep
  <1>5. CommittedInv' /\ StoresInv'
    BY <1>1, <1>4 DEF RecoveryInv, CommittedInv, StoresInv, KeysKept
  <1>6. AuditorInv'
    BY <1>1, <1>2 DEF RecoveryInv, AuditorInv
  <1>7. BackupsInv'
    BY <1>1, <1>2, <1>4 DEF RecoveryInv, BackupsInv
  <1>8. QED
    BY <1>3, <1>4, <1>5, <1>6, <1>7 DEF RecoveryInv, SameHistory

\* The row that has waited for its backup gets it, and no number loses its own.
LEMMA BackupRecovery ==
  ASSUME Inv, RecoveryInv, writeTransactionBackup PROVE RecoveryInv'
  <1> DEFINE row == auditor.row
  <1>1. /\ UNCHANGED <<live, log, head, history>> /\ auditor.pc = "backup" /\ auditor' = Audited
        /\ backups' = {b \in backups : b.seq # row.seq \/ b.txn # row.txn} \cup {row}
    BY DEF writeTransactionBackup
  <1>2. auditor'.pc = "idle" /\ auditor'.next >= 1
    BY <1>1, AuditedIdle
  <1>3. SameHistory
    BY <1>1, HistoryStays DEF RecoveryInv
  <1>4. VerifiersInv' /\ RecordsInv' /\ RecordsMove /\ UNCHANGED repairer
    BY <1>3, SameHistoryGrows, AuditLeavesAlone DEF AuditStep
  <1>5. row \in history.committed
    BY <1>1 DEF RecoveryInv, AuditorInv
  <1>6. backups' \subseteq backups \cup {row} /\ row \in backups'
    BY <1>1
  <1>7. CommittedInv' /\ StoresInv'
    BY <1>1, <1>4, <1>5, <1>6 DEF RecoveryInv, CommittedInv, StoresInv, KeysKept
  <1>8. AuditorInv'
    BY <1>1, <1>2 DEF RecoveryInv, AuditorInv
  <1>9. ASSUME NEW n, BackedUp(backups, n) PROVE BackedUp(backups', n)
    <2>1. CASE n = row.seq
      BY <1>6, <2>1 DEF BackedUp
    <2>2. CASE n # row.seq
      BY <1>1, <1>9, <2>2 DEF BackedUp
    <2>3. QED
      BY <2>1, <2>2
  <1>10. BackupsInv'
    <2> SUFFICES ASSUME ~history.lost PROVE BackupsInv'
      BY <1>1 DEF BackupsInv
    <2>1. /\ \A b \in backups : BackedUp(backups, b.seq - 1)
          /\ \A w \in RepairWorkers : \A b \in repairer[w].records : BackedUp(backups, b.seq)
          /\ BackedUp(backups, row.seq - 1)
          /\ BackedUp(backups, head.seq) \/ head.seq = row.seq
      BY <1>1 DEF RecoveryInv, BackupsInv
    <2>2. \A b \in backups' : BackedUp(backups', b.seq - 1)
      BY <1>6, <1>9, <2>1
    <2>3. BackedUp(backups', head'.seq)
      BY <1>1, <1>6, <1>9, <2>1 DEF BackedUp
    <2>4. \A w \in RepairWorkers : \A b \in repairer'[w].records : BackedUp(backups', b.seq)
      BY <1>4, <1>9, <2>1
    <2>5. QED
      BY <1>2, <2>2, <2>3, <2>4 DEF BackupsInv
  <1>11. QED
    BY <1>3, <1>4, <1>7, <1>8, <1>10 DEF RecoveryInv, SameHistory

\* Nothing is claimed of the backups any more.
LEMMA GivenUpRecovery ==
  ASSUME Inv, RecoveryInv, backupGivenUp PROVE RecoveryInv'
  <1> DEFINE faults == history.faults + 1
  <1>1. UNCHANGED <<live, log, head, backups>> /\ auditor' = Audited
    BY DEF backupGivenUp
  <1>2. auditor'.pc = "idle" /\ auditor'.next >= 1
    BY <1>1, AuditedIdle
  <1>3. history' = [history EXCEPT !.faults = faults, !.lost = TRUE]
    BY DEF backupGivenUp
  <1>4. faults \in Nat
    BY DEF RecoveryInv, HistoryShape
  <1> HIDE DEF faults
  <1>5. /\ history' \in HistoryShape /\ history'.lost = TRUE
        /\ history'.committed = history.committed /\ history'.kinds = history.kinds
    BY <1>3, <1>4 DEF RecoveryInv, HistoryShape
  <1>6. VerifiersInv' /\ RecordsInv' /\ RecordsMove /\ UNCHANGED repairer
    BY <1>5, AuditLeavesAlone DEF AuditStep, HistoryGrows
  <1>7. CommittedInv' /\ StoresInv'
    BY <1>1, <1>5, <1>6 DEF RecoveryInv, CommittedInv, StoresInv, KeysKept
  <1>8. AuditorInv'
    BY <1>1, <1>2 DEF RecoveryInv, AuditorInv
  <1>9. BackupsInv'
    BY <1>5 DEF BackupsInv
  <1>10. QED
    BY <1>5, <1>6, <1>7, <1>8, <1>9 DEF RecoveryInv

\* A row that takes another's place in the log.
LEMMA ReplacedRow ==
  ASSUME NEW rows, NEW committed, NEW n, IsFiniteSet(rows), Distinct(rows), Within(rows, n),
         NEW r \in rows, NEW q, q.seq = r.seq \/ (\A p \in rows : p.seq # q.seq), q.txn \in 1 .. n
  PROVE  LET replaced == (rows \ {r}) \cup {q}
         IN /\ IsFiniteSet(replaced) /\ Distinct(replaced) /\ Within(replaced, n)
            /\ Numbered(rows, committed) /\ q.seq = r.seq /\ q.txn = r.txn => Numbered(replaced, committed)
            /\ Traced(rows, committed) /\ q.at = r.at /\ q.hash \in {r.hash, Garbled}
               => Traced(replaced, committed)
  <1> DEFINE replaced == (rows \ {r}) \cup {q}
  <1>1. IsFiniteSet(replaced)
    BY FS_RemoveElement, FS_AddElement
  <1>2. Distinct(replaced) /\ Within(replaced, n)
    BY DEF Distinct, Within
  <1>3. ASSUME Numbered(rows, committed), q.seq = r.seq, q.txn = r.txn
        PROVE  Numbered(replaced, committed)
    BY <1>3 DEF Numbered
  <1>4. ASSUME Traced(rows, committed), q.at = r.at, q.hash \in {r.hash, Garbled}
        PROVE  Traced(replaced, committed)
    BY <1>4 DEF Traced
  <1>5. QED
    BY <1>1, <1>2, <1>3, <1>4

\* Corruption gives no number to a second row, and whichever column it changes the hashes
\* of the log are those of the pipeline or garbled.
LEMMA CorruptRecovery ==
  ASSUME Inv, RecoveryInv, NEW kind \in CorruptionKinds, Corrupt(kind) PROVE RecoveryInv'
  <1> DEFINE corruptions == history.corruptions + 1
             kinds == history.kinds \cup {kind}
             ByColumn(r) == /\ kind \in RowFields
                            /\ \E q \in Altered(r, kind) : log' = (log \ {r}) \cup {q}
                            /\ UNCHANGED live
             ByDeletion(r) == kind = "row" /\ log' = log \ {r} /\ UNCHANGED live
             OfContents(r) == kind = "live" /\ live' = [live EXCEPT ![r.txn] = 0] /\ UNCHANGED log
  <1>1. UNCHANGED <<head, backups, auditor>>
    BY DEF Corrupt
  <1>2. PICK r \in log : ByColumn(r) \/ ByDeletion(r) \/ OfContents(r)
    BY DEF Corrupt
  <1>3. history' = [history EXCEPT !.corruptions = corruptions, !.kinds = kinds]
    BY DEF Corrupt
  <1>4. corruptions \in Nat /\ kinds \in SUBSET AllCorruptionKinds /\ history.kinds \subseteq kinds
        /\ kind \in kinds
    BY LedgerAssumption DEF RecoveryInv, HistoryShape
  <1> HIDE DEF corruptions, kinds
  <1>5. /\ history' \in HistoryShape /\ history'.kinds = kinds
        /\ history'.committed = history.committed /\ history'.lost = history.lost
    BY <1>3, <1>4 DEF RecoveryInv, HistoryShape
  <1>6. VerifiersInv' /\ RecordsInv' /\ RecordsMove /\ UNCHANGED repairer
    BY <1>4, <1>5, AuditLeavesAlone DEF AuditStep, HistoryGrows
  <1>7. r \in Rows /\ live \in Seq(Nat) /\ r.txn \in 1 .. Len(live)
    BY DEF Inv, Shapes, DataInv, RecoveryInv, StoresInv, Within
  <1>8. Len(live') = Len(live) /\ Created(live')
    <2>1. CASE OfContents(r)
      <3>1. live' = [live EXCEPT ![r.txn] = 0] /\ 0 \in Nat
        BY <2>1
      <3>2. /\ Len(live') = Len(live)
            /\ \A t \in 1 .. Len(live) : live'[t] = IF t = r.txn THEN 0 ELSE live[t]
        BY <1>7, <3>1, ExceptSeq
      <3>3. QED
        BY <3>2 DEF RecoveryInv, StoresInv, Created
    <2>2. CASE UNCHANGED live
      BY <2>2 DEF RecoveryInv, StoresInv
    <2>3. QED
      BY <1>2, <2>1, <2>2
  <1>9. /\ IsFiniteSet(log') /\ Distinct(log') /\ Within(log', Len(live))
        /\ kinds \cap {"seq", "txn"} = {} => Numbered(log', history.committed)
        /\ "time" \notin kinds => Traced(log', history.committed)
    <2>1. /\ IsFiniteSet(log) /\ Distinct(log) /\ Within(log, Len(live))
          /\ kinds \cap {"seq", "txn"} = {} => Numbered(log, history.committed)
          /\ "time" \notin kinds => Traced(log, history.committed)
      BY <1>4 DEF RecoveryInv, StoresInv, KeysKept
    <2>2. CASE ByColumn(r)
      <3>1. PICK q \in Altered(r, kind) : log' = (log \ {r}) \cup {q}
        BY <2>2
      <3>2. /\ kind # "seq" => q.seq = r.seq
            /\ kind = "seq" => RowsAt(log, q.seq) = {}
            /\ kind # "txn" => q.txn = r.txn
            /\ kind = "txn" => q.txn \in 1 .. Len(live)
            /\ kind # "time" => q.at = r.at
            /\ q.hash \in {r.hash, Garbled}
        BY <1>7, <2>2, <3>1, AlteredRow
      <3>3. (q.seq = r.seq \/ \A p \in log : p.seq # q.seq) /\ q.txn \in 1 .. Len(live)
        BY <1>7, <3>2 DEF RowsAt
      <3>4. /\ kinds \cap {"seq", "txn"} = {} => q.seq = r.seq /\ q.txn = r.txn
            /\ "time" \notin kinds => q.at = r.at
        BY <1>4, <3>2
      <3>5. QED
        BY <2>1, <3>1, <3>2, <3>3, <3>4, ReplacedRow
    <2>3. CASE ByDeletion(r)
      <3>1. log' = log \ {r}
        BY <2>3
      <3>2. IsFiniteSet(log')
        BY <2>1, <3>1, FS_RemoveElement
      <3>3. QED
        BY <2>1, <3>1, <3>2 DEF Distinct, Within, Numbered, Traced
    <2>4. CASE OfContents(r)
      BY <2>1, <2>4
    <2>5. QED
      BY <1>2, <2>2, <2>3, <2>4
  <1>10. StoresInv'
    BY <1>5, <1>8, <1>9 DEF StoresInv, KeysKept
  <1>11. CommittedInv'
    BY <1>1, <1>5, <1>6, <1>8 DEF RecoveryInv, CommittedInv
  <1>12. AuditorInv'
    BY <1>1, <1>5, <1>8 DEF RecoveryInv, AuditorInv
  <1>13. BackupsInv'
    BY <1>1, <1>5, <1>6 DEF RecoveryInv, BackupsInv
  <1>14. QED
    BY <1>5, <1>6, <1>10, <1>11, <1>12, <1>13 DEF RecoveryInv

\* The audit pipeline and corruption keep the invariant.
LEMMA AuditRecovery ==
  ASSUME Inv, RecoveryInv, AuditStep PROVE RecoveryInv'
  <1>1. CASE ledgerMiddleware
    <2>1. UNCHANGED <<data, history>>
      BY <1>1 DEF ledgerMiddleware
    <2>2. SameHistory
      BY <2>1, HistoryStays DEF RecoveryInv
    <2>3. VerifiersInv' /\ RecordsInv' /\ RecordsMove
      BY <2>2, SameHistoryGrows, AuditLeavesAlone
    <2>4. QED
      BY <2>1, <2>2, <2>3, DataLeftAlone DEF RecoveryInv
  <1>2. QED
    BY <1>1, CreateRecovery, ReadChainRecovery, CommitRecovery, ConflictRecovery, BackupRecovery,
       GivenUpRecovery, CorruptRecovery DEF AuditStep

-----------------------------------------------------------------------------
(* Steps of managers and of unlock requests                                *)

\* Whatever status is written, an incident stays about its row and keeps its credit.
LEMMA StatusKeepsStart ==
  ASSUME NEW incident \in IncidentShape, NEW status
  PROVE  WithStatus(incident, status).start = incident.start
  BY DEF WithStatus, IncidentShape

\* A new status keeps the starts of all incidents and spends no approval.
LEMMA StatusStarts ==
  ASSUME Inv, NEW i \in Incidents, NEW status \in IncidentStatus,
         incidents' = [incidents EXCEPT ![i] = WithStatus(@, status)]
  PROVE  StartsStay /\ \A j \in Incidents : incidents'[j].credit >= incidents[j].credit
  <1>1. /\ Incidents' = Incidents
        /\ \A j \in Incidents :
              incidents'[j] = IF j = i THEN WithStatus(incidents[i], status) ELSE incidents[j]
    BY Restated
  <1>2. \A j \in Incidents : incidents[j] \in IncidentShape /\ incidents[j].credit \in Int
    <2>1. \A j \in Incidents : incidents[j] \in IncidentShape
      BY DEF Inv, Shapes, IncidentsInv, Incidents
    <2>2. QED
      BY <2>1 DEF IncidentShape
  <1>3. ASSUME NEW j \in Incidents
        PROVE  incidents'[j].start = incidents[j].start /\ incidents'[j].credit >= incidents[j].credit
    <2>1. CASE j = i
      BY <1>1, <1>2, <2>1, StatusKeepsStart, WithStatusKeeps
    <2>2. CASE j # i
      BY <1>1, <1>2, <2>2
    <2>3. QED
      BY <2>1, <2>2
  <1>4. QED
    BY <1>1, <1>3 DEF StartsStay

\* An added job takes nothing from the others.
LEMMA AddedJobKeeps ==
  ASSUME Inv, NEW i \in Incidents, NEW keyed, AddJob(i, keyed), NEW w \in RepairWorkers,
         repairer[w].pc \in Underway
  PROVE  jobs'[repairer[w].job].incident = IncidentOf(w)
  <1> DEFINE job == [incident |-> i, keyed |-> keyed, status |-> "waiting", attempts |-> 0]
  <1>1. jobs' = Append(jobs, job) /\ jobs \in Seq(JobShape)
    BY DEF AddJob, Inv, Shapes, JobsInv
  <1>2. repairer[w].job \in 1 .. Len(jobs)
    BY DEF Inv, Shapes, RepairersInv
  <1> HIDE DEF job
  <1>3. jobs'[repairer[w].job] = jobs[repairer[w].job]
    <2>1. jobs \in Seq(JobShape \cup {job}) /\ job \in JobShape \cup {job}
      BY <1>1, SeqMonotonic
    <2>2. QED
      BY <1>1, <1>2, <2>1, AppendProperties
  <1>4. QED
    BY <1>3 DEF IncidentOf

\* Managers and their repair jobs keep the invariant.
LEMMA ManagerRecovery ==
  ASSUME Inv, RecoveryInv, NEW i \in Incidents, ManagerStep(i) PROVE RecoveryInv'
  <1>1. UNCHANGED <<data, verifier, repairer, history>>
    BY DEF ManagerStep, updateIncidentStatus, triggerRepair, repairUserChain, AddJob, procs
  <1>2. SameHistory /\ HistoryGrows
    BY <1>1, HistoryStays, SameHistoryGrows DEF RecoveryInv
  <1>3. StartsStay
    <2>1. ASSUME NEW status \in IncidentStatus, updateIncidentStatus(i, status)
          PROVE  StartsStay
      BY <2>1, StatusStarts DEF updateIncidentStatus, RecoveryInv
    <2>2. CASE UNCHANGED incidents
      BY <2>2, SameIncidents DEF RecoveryInv
    <2>3. QED
      BY <2>1, <2>2 DEF ManagerStep, triggerRepair, repairUserChain, AddJob
  <1>4. \A w \in RepairWorkers : repairer[w].pc \in Underway =>
           jobs'[repairer[w].job].incident = IncidentOf(w)
    <2>1. CASE \E keyed \in BOOLEAN : AddJob(i, keyed)
      BY <2>1, AddedJobKeeps
    <2>2. CASE UNCHANGED jobs
      BY <2>2 DEF IncidentOf
    <2>3. QED
      BY <2>1, <2>2 DEF ManagerStep, updateIncidentStatus, procs, triggerRepair, repairUserChain
  <1>5. RecordsInv' /\ RecordsMove
    BY <1>1, <1>2, <1>3, <1>4, WorkersLeftAlone DEF RecoveryInv
  <1>6. VerifiersInv'
    BY <1>1, <1>2, VerifiersLeftAlone DEF RecoveryInv
  <1>7. QED
    BY <1>1, <1>2, <1>3, <1>5, <1>6, DataLeftAlone DEF RecoveryInv

\* Unlock requests keep the invariant.
LEMMA UnlockRecovery ==
  ASSUME Inv, RecoveryInv, NEW a \in Admins, UnlockStep(a) PROVE RecoveryInv'
  <1>1. UNCHANGED <<data, verifier, jobs, repairer>>
    BY DEF UnlockStep, readLedger, activateLedger, checkRepairing, resolveIncident, unlockFails
  <1>2. SameHistory
    <2>1. history \in HistoryShape
      BY DEF RecoveryInv
    <2>2. CASE UNCHANGED history
      BY <2>1, <2>2, HistoryStays
    <2>3. CASE Disturb
      BY <2>1, <2>3, DisturbRemembers
    <2>4. CASE Fault
      BY <2>1, <2>4, FaultRemembers
    <2>5. QED
      BY <2>2, <2>3, <2>4
         DEF UnlockStep, readLedger, activateLedger, checkRepairing, resolveIncident, unlockFails
  <1>3. HistoryGrows
    BY <1>2, SameHistoryGrows
  <1>4. StartsStay
    <2>1. CASE resolveIncident(a)
      <3>1. admin[a].incident \in Incidents /\ "RESOLVED" \in IncidentStatus
        BY <2>1 DEF resolveIncident, Inv, Shapes, UnlockInv, AdminInv, IncidentStatus
      <3>2. QED
        BY <2>1, <3>1, StatusStarts DEF resolveIncident, RecoveryInv
    <2>2. CASE UNCHANGED incidents
      BY <2>2, SameIncidents DEF RecoveryInv
    <2>3. QED
      BY <2>1, <2>2 DEF UnlockStep, readLedger, activateLedger, checkRepairing, unlockFails
  <1>5. RecordsInv' /\ RecordsMove
    BY <1>1, <1>3, <1>4, WorkersLeftAlone DEF RecoveryInv, IncidentOf
  <1>6. VerifiersInv'
    BY <1>1, <1>3, VerifiersLeftAlone DEF RecoveryInv
  <1>7. QED
    BY <1>1, <1>2, <1>4, <1>5, <1>6, DataLeftAlone DEF RecoveryInv

-----------------------------------------------------------------------------
(* Steps of repair                                                         *)

\* Where a worker's step takes it.
LEMMA GotoKeeps ==
  ASSUME Inv, NEW w \in RepairWorkers, repairer[w].pc \in Underway, NEW pc, Goto(w, pc)
  PROVE  /\ repairer'[w].pc = pc
         /\ repairer'[w].records = repairer[w].records
         /\ jobs'[repairer'[w].job].incident = IncidentOf(w)
         /\ OthersStay(w)
  <1> DEFINE next == [repairer[w] EXCEPT !.pc = pc]
  <1>1. next.pc = pc /\ next.records = repairer[w].records /\ next.job = repairer[w].job
    BY WorkerShape DEF RepairerShape
  <1>2. repairer' = [repairer EXCEPT ![w] = next] /\ UNCHANGED jobs
    BY DEF Goto
  <1> HIDE DEF next
  <1>3. \A u \in RepairWorkers : repairer'[u] = IF u = w THEN next ELSE repairer[u]
    BY <1>2, WorkerShape
  <1>4. QED
    BY <1>1, <1>2, <1>3 DEF OthersStay, IncidentOf

\* A worker that lets go of its job keeps no records.
LEMMA LeavingKeeps ==
  ASSUME Inv, NEW w \in RepairWorkers, repairer' = [repairer EXCEPT ![w] = IdleRepairer]
  PROVE  repairer'[w].records = {} /\ repairer'[w].pc = "idle"
  <1>1. repairer'[w] = IdleRepairer
    BY WorkerShape
  <1>2. QED
    BY <1>1 DEF IdleRepairer

\* The other workers have what they had.
LEMMA OthersKeep ==
  ASSUME Inv, NEW w \in RepairWorkers, OthersStay(w),
         repairer'[w].records \subseteq repairer[w].records \cup backups, WorkerKeeps(w)
  PROVE  RecordsMove /\ \A u \in RepairWorkers : WorkerKeeps(u)
  <1>1. \A u \in RepairWorkers \ {w} : repairer'[u] = repairer[u]
    BY DEF OthersStay
  <1>2. RecordsMove
    BY <1>1 DEF RecordsMove
  <1>3. ASSUME NEW u \in RepairWorkers PROVE WorkerKeeps(u)
    <2>1. CASE u = w
      BY <2>1
    <2>2. CASE u # w
      BY <1>1, <2>2, FetchedUnderway DEF OthersStay, WorkerKeeps
    <2>3. QED
      BY <2>1, <2>2
  <1>4. QED
    BY <1>2, <1>3

\* Steps of a worker that restore nothing and read no records.
LEMMA QuietRecovery ==
  ASSUME Inv, RecoveryInv, NEW w \in RepairWorkers, UNCHANGED <<data, verifier>>, SameHistory,
         StartsStay, OthersStay(w),
         repairer'[w].records \subseteq repairer[w].records \cup backups, WorkerKeeps(w)
  PROVE  RecoveryInv'
  <1>1. RecordsMove /\ \A u \in RepairWorkers : WorkerKeeps(u)
    BY OthersKeep
  <1>2. HistoryGrows
    BY SameHistoryGrows
  <1>3. RecordsInv'
    BY <1>1, <1>2, RecordsStay DEF RecoveryInv
  <1>4. VerifiersInv'
    BY <1>2, VerifiersLeftAlone DEF RecoveryInv
  <1>5. QED
    BY <1>1, <1>3, <1>4, DataLeftAlone DEF RecoveryInv

\* A failing attempt drops what it has read.
LEMMA DroppingKeeps ==
  ASSUME Inv, NEW w \in RepairWorkers, repairer[w].pc \in Underway, Incidents' = Incidents,
         Throw(w) \/ Stall(w)
  PROVE  OthersStay(w) /\ repairer'[w].records = {} /\ repairer'[w].pc = "idle" /\ WorkerKeeps(w)
  <1>1. OthersStay(w)
    BY FailingLeaves
  <1>2. repairer'[w].records = {} /\ repairer'[w].pc = "idle"
    BY LeavingKeeps DEF Throw, Stall
  <1>3. QED
    BY <1>1, <1>2 DEF WorkerKeeps, Fetched

\* A worker that takes a job starts with no records.
LEMMA TakingKeeps ==
  ASSUME Inv, NEW w \in RepairWorkers, NEW j \in DOMAIN jobs, takeJob(w, j)
  PROVE  OthersStay(w) /\ repairer'[w].records = {} /\ repairer'[w].pc = "find"
  <1> DEFINE taken == [jobs[j] EXCEPT !.status = "active"]
             next == [IdleRepairer EXCEPT !.pc = "find", !.job = j]
  <1>1. repairer' = [repairer EXCEPT ![w] = next] /\ jobs' = [jobs EXCEPT ![j] = taken]
    BY DEF takeJob
  <1>2. next.pc = "find" /\ next.records = {}
    BY DEF IdleRepairer
  <1>3. jobs \in Seq(JobShape) /\ j \in 1 .. Len(jobs)
    BY DEF Inv, Shapes, JobsInv
  <1>4. taken \in JobShape /\ taken.incident = jobs[j].incident
    <2>1. jobs[j] \in JobShape
      BY <1>3
    <2>2. QED
      BY <2>1 DEF JobShape
  <1> HIDE DEF next, taken
  <1>5. \A k \in 1 .. Len(jobs) : jobs'[k] = IF k = j THEN taken ELSE jobs[k]
    BY <1>1, <1>3, <1>4, ExceptSeq
  <1>6. \A u \in RepairWorkers : repairer'[u] = IF u = w THEN next ELSE repairer[u]
    BY <1>1, WorkerShape
  <1>7. ASSUME NEW u \in RepairWorkers \ {w}, repairer[u].pc \in Underway
        PROVE  jobs'[repairer[u].job].incident = IncidentOf(u)
    <2>1. repairer[u].job \in 1 .. Len(jobs)
      BY <1>7 DEF Inv, Shapes, RepairersInv
    <2>2. QED
      BY <1>4, <1>5, <2>1 DEF IncidentOf
  <1>8. QED
    BY <1>2, <1>6, <1>7 DEF OthersStay

\* Taking a job keeps the invariant.
LEMMA TakeJobRecovery ==
  ASSUME Inv, RecoveryInv, NEW w \in RepairWorkers, NEW j \in DOMAIN jobs, takeJob(w, j)
  PROVE  RecoveryInv'
  <1>1. UNCHANGED <<data, incidents, verifier, history>>
    BY DEF takeJob
  <1>2. OthersStay(w) /\ WorkerKeeps(w) /\ repairer'[w].records = {}
    BY TakingKeeps DEF WorkerKeeps, Fetched
  <1>3. SameHistory /\ StartsStay
    BY <1>1, HistoryStays, SameIncidents DEF RecoveryInv
  <1>4. QED
    BY <1>1, <1>2, <1>3, QuietRecovery

\* The steps between the queue and the restoring transaction, except the one that reads S3.
LEMMA PassingRecovery ==
  ASSUME Inv, RecoveryInv, NEW w \in RepairWorkers,
         findIncident(w) \/ assertBoundaryLinksToTrustedChain(w)
            \/ lockLedgerForRepair(w) \/ markRepairing(w)
  PROVE  RecoveryInv'
  <1>1. UNCHANGED <<data, verifier, history>> /\ repairer[w].pc \in {"find", "boundary", "lock", "mark"}
    BY DEF findIncident, assertBoundaryLinksToTrustedChain, lockLedgerForRepair, markRepairing
  <1>2. repairer[w].pc \in Underway
    BY <1>1 DEF Underway
  <1>3. SameHistory
    BY <1>1, HistoryStays DEF RecoveryInv
  <1>4. StartsStay /\ Incidents' = Incidents
    <2>1. CASE WriteRepairing(w)
      <3>1. IncidentOf(w) \in Incidents /\ "REPAIRING" \in IncidentStatus
        BY <1>2, IncidentOfType DEF IncidentStatus
      <3>2. QED
        BY <2>1, <3>1, StatusStarts, Restated DEF WriteRepairing, RecoveryInv
    <2>2. CASE UNCHANGED incidents
      BY <2>2, SameIncidents DEF RecoveryInv, Incidents
    <2>3. QED
      BY <2>1, <2>2
         DEF findIncident, assertBoundaryLinksToTrustedChain, lockLedgerForRepair, markRepairing
  <1>5. CASE Throw(w)
    <2>1. OthersStay(w) /\ repairer'[w].records = {} /\ WorkerKeeps(w)
      BY <1>2, <1>4, <1>5, DroppingKeeps
    <2>2. QED
      BY <1>1, <1>3, <1>4, <2>1, QuietRecovery
  <1>6. ASSUME NEW pc, Goto(w, pc), pc \in Fetched => repairer[w].pc \in Fetched
        PROVE  RecoveryInv'
    <2>1. /\ repairer'[w].pc = pc
          /\ repairer'[w].records = repairer[w].records
          /\ jobs'[repairer'[w].job].incident = IncidentOf(w)
          /\ OthersStay(w)
      BY <1>2, <1>6, GotoKeeps
    <2>2. WorkerKeeps(w)
      BY <1>6, <2>1 DEF WorkerKeeps
    <2>3. QED
      BY <1>1, <1>3, <1>4, <2>1, <2>2, QuietRecovery
  <1>7. CASE findIncident(w)
    BY <1>5, <1>6, <1>7 DEF findIncident, Fetched
  <1>8. CASE assertBoundaryLinksToTrustedChain(w)
    BY <1>5, <1>6, <1>8 DEF assertBoundaryLinksToTrustedChain, Fetched
  <1>9. CASE lockLedgerForRepair(w)
    BY <1>5, <1>6, <1>9 DEF lockLedgerForRepair, Fetched
  <1>10. CASE markRepairing(w)
    BY <1>6, <1>10 DEF markRepairing, Fetched
  <1>11. QED
    BY <1>7, <1>8, <1>9, <1>10

\* What a worker has read from S3 starts at the incident's row.
LEMMA FetchRecovery ==
  ASSUME Inv, RecoveryInv, NEW w \in RepairWorkers, fetchHistory(w) PROVE RecoveryInv'
  <1> DEFINE start == incidents[IncidentOf(w)].start
             records == FromStart(Listed(backups), start)
  <1>1. UNCHANGED <<data, incidents, verifier, history>> /\ repairer[w].pc = "fetch"
    BY DEF fetchHistory
  <1>2. repairer[w].pc \in Underway /\ IncidentOf(w) \in Incidents /\ Incidents' = Incidents
    BY <1>1, IncidentOfType DEF Underway, Incidents
  <1>3. SameHistory /\ HistoryGrows /\ StartsStay
    BY <1>1, HistoryStays, SameHistoryGrows, SameIncidents DEF RecoveryInv
  <1>4. CASE Throw(w)
    <2>1. OthersStay(w) /\ repairer'[w].records = {} /\ WorkerKeeps(w)
      BY <1>2, <1>4, DroppingKeeps
    <2>2. QED
      BY <1>1, <1>3, <2>1, QuietRecovery
  <1>5. CASE ~Throw(w)
    <2> DEFINE next == [repairer[w] EXCEPT !.pc = "boundary", !.records = records]
    <2>1. /\ records # {} /\ Contiguous(records) /\ UNCHANGED jobs
          /\ repairer' = [repairer EXCEPT ![w].pc = "boundary", ![w].records = records]
      BY <1>5 DEF fetchHistory
    <2>2. repairer' = [repairer EXCEPT ![w] = next]
      BY <2>1, WorkerShape
    <2>3. next.records = records /\ next.pc = "boundary" /\ next.job = repairer[w].job
      BY WorkerShape DEF RepairerShape
    <2>4. records \subseteq backups /\ \A b \in records : b.seq >= start
      BY DEF FromStart, Listed
    <2>5. ~history.lost => \E b \in records : b.seq = First(start)
      <3> SUFFICES ASSUME ~history.lost PROVE \E b \in records : b.seq = First(start)
        OBVIOUS
      <3>1. incidents[IncidentOf(w)] \in IncidentShape
        BY <1>2 DEF Inv, Shapes, IncidentsInv, Incidents
      <3>2. start \in Nat /\ First(start) \in Nat /\ First(start) >= 1
        BY <3>1 DEF IncidentShape, First
      <3>3. \A b \in backups : BackedUp(backups, b.seq - 1)
        BY DEF RecoveryInv, BackupsInv
      <3>4. backups \in SUBSET Rows /\ IsFiniteSet(backups)
        BY DEF Inv, Shapes, DataInv
      <3>5. records = FromStart(Listed(backups), First(start))
        <4>1. \A b \in Listed(backups) : b.seq \in Nat /\ b.seq >= 1
          BY <3>4 DEF Listed, RecoveryInv, CommittedInv, Written, Rows
        <4>2. \A b \in Listed(backups) : b.seq >= start <=> b.seq >= First(start)
          BY <3>2, <4>1 DEF First
        <4>3. QED
          BY <4>2 DEF FromStart
      <3>6. QED
        BY <2>1, <3>2, <3>3, <3>4, <3>5, StartListed
    <2> HIDE DEF records, next
    <2>6. \A u \in RepairWorkers : repairer'[u] = IF u = w THEN next ELSE repairer[u]
      BY <2>2, WorkerShape
    <2>7. RecordsMove
      BY <2>3, <2>4, <2>6 DEF RecordsMove
    <2>8. \A u \in RepairWorkers : jobs'[repairer'[u].job].incident = IncidentOf(u)
      <3>1. \A u \in RepairWorkers : repairer'[u].job = repairer[u].job
        BY <2>3, <2>6
      <3>2. QED
        BY <2>1, <3>1 DEF IncidentOf
    <2>9. RecordsInv'
      <3> SUFFICES ASSUME NEW u \in RepairWorkers, repairer'[u].pc \in Fetched
                   PROVE  /\ Contiguous(repairer'[u].records)
                          /\ \A b \in repairer'[u].records : b.seq >= incidents[IncidentOf(u)].start
                          /\ ~history.lost =>
                                \E b \in repairer'[u].records : b.seq = First(incidents[IncidentOf(u)].start)
        BY <1>1, <2>8 DEF RecordsInv, IncidentOf
      <3>1. CASE u = w
        BY <2>1, <2>3, <2>4, <2>5, <2>6, <3>1
      <3>2. CASE u # w
        BY <2>6, <3>2 DEF RecoveryInv, RecordsInv
      <3>3. QED
        BY <3>1, <3>2
    <2>10. VerifiersInv'
      BY <1>1, <1>3, VerifiersLeftAlone DEF RecoveryInv
    <2>11. QED
      BY <1>1, <1>3, <2>7, <2>9, <2>10, DataLeftAlone DEF RecoveryInv
  <1>6. QED
    BY <1>4, <1>5

\* The restoring transaction takes an approval from one incident.
LEMMA RestoredCredit ==
  ASSUME Inv, NEW w \in RepairWorkers, repairer[w].pc = "restore", WriteRestored(w)
  PROVE  /\ StartsStay /\ Incidents' = Incidents
         /\ \A i \in Incidents \ {IncidentOf(w)} : incidents'[i] = incidents[i]
         /\ \A i \in Incidents : incidents'[i].status = incidents[i].status
  <1> DEFINE i == IncidentOf(w)
             credit == incidents[i].credit - 1
             spent == [incidents[i] EXCEPT !.credit = credit]
  <1>1. i \in Incidents
    BY IncidentOfType DEF Underway
  <1>2. incidents \in Seq(IncidentShape) /\ Incidents = 1 .. Len(incidents) /\ Len(incidents) \in Nat
    BY Lengths DEF Inv, Shapes, IncidentsInv
  <1>3. incidents[i] \in IncidentShape
    BY <1>1, <1>2
  <1>4. credit \in Int
    BY <1>3 DEF IncidentShape
  <1>5. incidents' = [incidents EXCEPT ![i] = spent]
    BY DEF WriteRestored
  <1> HIDE DEF credit
  <1>6. /\ spent \in IncidentShape
        /\ spent.start = incidents[i].start /\ spent.status = incidents[i].status
    BY <1>3, <1>4 DEF IncidentShape
  <1> HIDE DEF spent
  <1>7. /\ Len(incidents') = Len(incidents)
        /\ \A j \in Incidents : incidents'[j] = IF j = i THEN spent ELSE incidents[j]
    BY <1>1, <1>2, <1>5, <1>6, ExceptSeq
  <1>8. Incidents' = Incidents
    BY <1>7 DEF Incidents
  <1>9. StartsStay
    BY <1>6, <1>7, <1>8 DEF StartsStay
  <1>10. QED
    BY <1>6, <1>7, <1>8, <1>9

\* What a worker that is about to restore has in hand.
LEMMA RestoringRecords ==
  ASSUME Inv, RecoveryInv, NEW w \in RepairWorkers, repairer[w].pc = "restore"
  PROVE  LET records == repairer[w].records
         IN /\ records \in SUBSET history.committed /\ records \in SUBSET Rows
            /\ IsFiniteSet(records) /\ records # {} /\ Contiguous(records)
            /\ \A b \in records : Written(b) /\ b.txn \in 1 .. Len(live)
  <1>1. repairer[w].pc \in Fetched /\ repairer[w].pc \in Underway \ {"find", "fetch"}
    BY DEF Fetched, Underway
  <1>2. repairer[w].records \in SUBSET history.committed
    BY DEF RecoveryInv, CommittedInv
  <1>3. \A b \in history.committed : Written(b) /\ b.txn \in 1 .. Len(live) /\ b \in Rows
    BY DEF RecoveryInv, CommittedInv, HistoryShape
  <1>4. IsFiniteSet(repairer[w].records) /\ repairer[w].records # {}
    BY <1>1 DEF Inv, Shapes, RepairersInv
  <1>5. Contiguous(repairer[w].records)
    BY <1>1 DEF RecoveryInv, RecordsInv
  <1>6. QED
    BY <1>2, <1>3, <1>4, <1>5

\* The restoring transaction, in a step that completes the job or fails after it.
LEMMA RestoringRecovery ==
  ASSUME Inv, RecoveryInv, NEW w \in RepairWorkers, repairer[w].pc = "restore",
         WriteRestored(w), UNCHANGED <<backups, auditor, verifier>>, SameHistory,
         OthersStay(w), repairer'[w].records = {}, repairer'[w].pc = "idle"
  PROVE  RecoveryInv'
  <1> DEFINE records == repairer[w].records
  <1>1. /\ records \in SUBSET history.committed /\ records \in SUBSET Rows
        /\ IsFiniteSet(records) /\ records # {} /\ Contiguous(records)
        /\ \A b \in records : Written(b) /\ b.txn \in 1 .. Len(live)
    BY RestoringRecords
  <1>2. /\ log' = RestoredLog(log, records) /\ head' = RestoredHead(log, records)
        /\ live' = RestoredLive(live, records)
    BY DEF WriteRestored
  <1>3. \A b \in records : ~history.lost => BackedUp(backups, b.seq)
    BY DEF RecoveryInv, BackupsInv
  <1> HIDE DEF records
  <1>4. StartsStay /\ HistoryGrows
    BY RestoredCredit, SameHistoryGrows DEF RecoveryInv
  <1>5. WorkerKeeps(w)
    BY DEF WorkerKeeps, Fetched
  <1>6. RecordsMove /\ RecordsInv'
    BY <1>4, <1>5, OthersKeep, RecordsStay DEF RecoveryInv
  <1>7. VerifiersInv'
    BY <1>4, VerifiersLeftAlone DEF RecoveryInv
  <1>8. /\ history.committed \in SUBSET Rows /\ \A c \in history.committed : Written(c)
        /\ IsFiniteSet(log) /\ Distinct(log) /\ Within(log, Len(live))
        /\ KeysKept => Numbered(log, history.committed)
        /\ "time" \notin history.kinds => Traced(log, history.committed)
        /\ log \in SUBSET Rows /\ live \in Seq(Nat) /\ Created(live)
    BY DEF RecoveryInv, HistoryShape, CommittedInv, StoresInv, Inv, Shapes, DataInv
  <1>9. Len(live') = Len(live) /\ Created(live')
    <2>1. live' \in Seq(Nat)
      BY <1>1, <1>2, <1>8, RestoredType
    <2>2. QED
      BY <1>1, <1>2, <1>8, <2>1, RestoredContents
  <1>10. StoresInv'
    <2>1. Within(records, Len(live))
      BY <1>1 DEF Within
    <2>2. /\ IsFiniteSet(log') /\ Distinct(log') /\ Within(log', Len(live'))
          /\ KeysKept => Numbered(log', history.committed)
          /\ "time" \notin history.kinds => Traced(log', history.committed)
      BY <1>1, <1>2, <1>8, <1>9, <2>1, RestoredRows
    <2>3. KeysKept' = KeysKept
      BY DEF KeysKept, SameHistory
    <2>4. QED
      BY <1>9, <2>2, <2>3 DEF StoresInv, SameHistory
  <1>11. CommittedInv'
    <2>1. \A u \in RepairWorkers : repairer'[u].records \subseteq history.committed
      BY <1>6 DEF RecordsMove, RecoveryInv, CommittedInv
    <2>2. QED
      BY <1>9, <2>1 DEF RecoveryInv, CommittedInv, SameHistory
  <1>12. (\E b \in records : head'.seq = b.seq) /\ Len(head'.hash) = head'.seq
    BY <1>1, <1>2, <1>8, RestoredHeadLinks
  <1>13. AuditorInv'
    BY <1>9, <1>12 DEF RecoveryInv, AuditorInv, SameHistory
  <1>14. BackupsInv'
    <2> SUFFICES ASSUME ~history.lost PROVE BackupsInv'
      BY DEF BackupsInv, SameHistory
    <2>1. BackedUp(backups, head'.seq)
      BY <1>3, <1>12
    <2>2. \A u \in RepairWorkers : \A b \in repairer'[u].records : BackedUp(backups, b.seq)
      <3>1. TAKE u \in RepairWorkers
      <3>2. TAKE b \in repairer'[u].records
      <3>3. b \in repairer[u].records \/ b \in backups
        BY <1>6 DEF RecordsMove
      <3>4. QED
        BY <3>3 DEF RecoveryInv, BackupsInv, BackedUp
    <2>3. QED
      BY <2>1, <2>2 DEF RecoveryInv, BackupsInv, BackedUp
  <1>15. QED
    BY <1>4, <1>6, <1>7, <1>10, <1>11, <1>13, <1>14 DEF RecoveryInv, SameHistory

\* A worker that completes its job keeps no records.
LEMMA CompletingKeeps ==
  ASSUME Inv, RecoveryInv, NEW w \in RepairWorkers, restore(w)
  PROVE  OthersStay(w) /\ repairer'[w].records = {} /\ repairer'[w].pc = "idle"
  <1> DEFINE j == repairer[w].job
             done == [jobs[j] EXCEPT !.status = "completed"]
  <1>1. /\ repairer[w].pc = "restore" /\ WriteRestored(w)
        /\ repairer' = [repairer EXCEPT ![w] = IdleRepairer]
        /\ jobs' = [jobs EXCEPT ![j] = done]
    BY DEF restore
  <1>2. repairer[w].pc \in Underway
    BY <1>1 DEF Underway
  <1>3. repairer'[w].records = {} /\ repairer'[w].pc = "idle"
    BY <1>1, LeavingKeeps
  <1>4. j \in 1 .. Len(jobs) /\ jobs[j] \in JobShape
    BY <1>2 DEF Inv, Shapes, JobsInv, RepairersInv
  <1>5. done \in JobShape /\ done.incident = jobs[j].incident /\ done.status = "completed"
    BY <1>4 DEF JobShape
  <1>6. Incidents' = Incidents
    BY <1>1, RestoredCredit
  <1> HIDE DEF done
  <1>7. done.incident = IncidentOf(w)
    BY <1>5 DEF IncidentOf
  <1>8. OthersStay(w)
    BY <1>1, <1>2, <1>5, <1>6, <1>7, WorkerLeaves
  <1>9. QED
    BY <1>3, <1>8

\* A restore keeps the invariant.
LEMMA RestoreRecovery ==
  ASSUME Inv, RecoveryInv, NEW w \in RepairWorkers, restore(w) PROVE RecoveryInv'
  <1>1. /\ UNCHANGED <<backups, auditor, verifier, history>>
        /\ repairer[w].pc = "restore" /\ WriteRestored(w)
    BY DEF restore
  <1>2. SameHistory
    BY <1>1, HistoryStays DEF RecoveryInv
  <1>3. QED
    BY <1>1, <1>2, CompletingKeeps, RestoringRecovery

\* A failing repair keeps the invariant, whatever it has written.
LEMMA RepairFailsRecovery ==
  ASSUME Inv, RecoveryInv, NEW w \in RepairWorkers, repairFails(w) PROVE RecoveryInv'
  <1>1. UNCHANGED <<backups, auditor, verifier>> /\ (Throw(w) \/ Stall(w)) /\ repairer[w].pc # "idle"
    BY DEF repairFails
  <1>2. repairer[w].pc \in Underway
    BY <1>1, WorkerShape DEF RepairerShape
  <1>3. SameHistory
    BY FaultRemembers DEF repairFails, RecoveryInv
  <1>4. CASE repairer[w].pc = "restore" /\ WriteRestored(w)
    <2>1. Incidents' = Incidents
      BY <1>4, RestoredCredit
    <2>2. OthersStay(w) /\ repairer'[w].records = {} /\ repairer'[w].pc = "idle"
      BY <1>1, <1>2, <2>1, DroppingKeeps
    <2>3. QED
      BY <1>1, <1>3, <1>4, <2>2, RestoringRecovery
  <1>5. CASE UNCHANGED <<live, log, head>> /\ (UNCHANGED incidents \/ WriteRepairing(w))
    <2>1. StartsStay /\ Incidents' = Incidents
      <3>1. IncidentOf(w) \in Incidents /\ "REPAIRING" \in IncidentStatus
        BY <1>2, IncidentOfType DEF IncidentStatus
      <3>2. CASE WriteRepairing(w)
        BY <3>1, <3>2, StatusStarts, Restated DEF WriteRepairing, RecoveryInv
      <3>3. CASE UNCHANGED incidents
        BY <3>3, SameIncidents DEF RecoveryInv, Incidents
      <3>4. QED
        BY <1>5, <3>2, <3>3
    <2>2. OthersStay(w) /\ repairer'[w].records = {} /\ WorkerKeeps(w)
      BY <1>1, <1>2, <2>1, DroppingKeeps
    <2>4. UNCHANGED <<data, verifier>> /\ repairer'[w].records \subseteq repairer[w].records \cup backups
      BY <1>1, <1>5, <2>2 DEF data
    <2>3. QED
      BY <1>3, <2>1, <2>2, <2>4, QuietRecovery
  <1>6. QED
    BY <1>4, <1>5 DEF repairFails, MayBeWritten

\* Every step of a repair worker keeps the invariant.
LEMMA RepairRecovery ==
  ASSUME Inv, RecoveryInv, NEW w \in RepairWorkers, RepairStep(w) PROVE RecoveryInv'
  BY TakeJobRecovery, PassingRecovery, FetchRecovery, RestoreRecovery, RepairFailsRecovery
     DEF RepairStep

-----------------------------------------------------------------------------
(* The theorems                                                            *)

\* The invariant holds of empty stores.
LEMMA InitRecovery == Init => RecoveryInv
  <1> SUFFICES ASSUME Init PROVE RecoveryInv
    OBVIOUS
  <1>1. history \in HistoryShape
    BY DEF Init, HistoryShape
  <1>2. CommittedInv
    BY DEF Init, CommittedInv, IdleRepairer
  <1>3. AuditorInv
    BY DEF Init, AuditorInv, Genesis
  <1>4. StoresInv
    <2>1. IsFiniteSet({})
      BY FS_EmptySet
    <2>2. QED
      BY <2>1 DEF Init, StoresInv, Created, Distinct, Within, Numbered, Traced
  <1>5. VerifiersInv
    BY DEF Init, VerifiersInv, IdleVerifier
  <1>6. BackupsInv
    BY DEF Init, BackupsInv, BackedUp, IdleRepairer
  <1>7. RecordsInv
    BY DEF Init, RecordsInv, IdleRepairer, Fetched
  <1>8. QED
    BY <1>1, <1>2, <1>3, <1>4, <1>5, <1>6, <1>7 DEF RecoveryInv

\* Nothing changes, nothing breaks.
LEMMA StutterRecovery == ASSUME Inv, RecoveryInv, UNCHANGED vars PROVE RecoveryInv'
  <1>1. UNCHANGED <<data, verifier, jobs, repairer, incidents>> /\ SameHistory
    BY HistoryStays DEF RecoveryInv, vars, data
  <1>2. HistoryGrows
    BY <1>1, SameHistoryGrows
  <1>3. StartsStay
    BY <1>1, SameIncidents DEF RecoveryInv
  <1>4. RecordsInv' /\ RecordsMove
    BY <1>1, <1>2, <1>3, WorkersLeftAlone DEF RecoveryInv, IncidentOf
  <1>5. VerifiersInv'
    BY <1>1, <1>2, VerifiersLeftAlone DEF RecoveryInv
  <1>6. QED
    BY <1>1, <1>3, <1>4, <1>5, DataLeftAlone DEF RecoveryInv

\* One step keeps the invariant.
LEMMA NextRecovery == Inv /\ RecoveryInv /\ [Next]_vars => RecoveryInv'
  BY AuditRecovery, VerifyRecovery, ManagerRecovery, RepairRecovery, UnlockRecovery, StutterRecovery
     DEF Next

\* The invariant holds in every reachable state.
LEMMA Recovery == Spec => []RecoveryInv
  BY InitRecovery, NextRecovery, Invariance, PTL DEF Spec

\* No other step ends a verification that has read the rows, unless a call fails.
LEMMA PassingStep ==
  ASSUME Inv, RecoveryInv, [Next]_vars, NEW v \in Verifiers,
         verifier[v].pc = "anchor", verifier'[v].pc = "idle", history' = history
  PROVE  Compromised(verifier[v].rows, LatestBackup(backups), verifier[v].live) = {}
  <1>1. verifier' # verifier
    OBVIOUS
  <1>2. PICK u \in Verifiers : VerifyStep(u)
    <2>1. ~UNCHANGED vars /\ ~AuditStep
      BY <1>1 DEF vars, AuditStep, ledgerMiddleware, createTransaction, readChainState, commitRow,
                  commitConflicts, writeTransactionBackup, backupGivenUp, Corrupt, procs
    <2>2. ~\E i \in Incidents : ManagerStep(i)
      BY <1>1 DEF ManagerStep, updateIncidentStatus, triggerRepair, repairUserChain, AddJob, procs
    <2>3. ~\E w \in RepairWorkers : RepairStep(w)
      BY <1>1 DEF RepairStep, takeJob, findIncident, fetchHistory, assertBoundaryLinksToTrustedChain,
                  lockLedgerForRepair, markRepairing, restore, repairFails
    <2>4. ~\E a \in Admins : UnlockStep(a)
      BY <1>1 DEF UnlockStep, readLedger, activateLedger, checkRepairing, resolveIncident, unlockFails
    <2>5. QED
      BY <2>1, <2>2, <2>3, <2>4 DEF Next
  <1>3. \E next : verifier' = [verifier EXCEPT ![u] = next]
    BY <1>2 DEF VerifyStep, readLogs, readLatestBackup, createIncident, lockLedger, verificationFails
  <1>4. u = v
    <2>1. PICK next : verifier' = [verifier EXCEPT ![u] = next]
      BY <1>3
    <2>2. u # v => verifier'[v] = verifier[v]
      BY <2>1 DEF Inv, Shapes, VerifyInv
    <2>3. QED
      BY <2>2
  <1>5. ~verificationFails(v)
    BY FaultRemembers DEF verificationFails, RecoveryInv
  <1>6. readLatestBackup(v)
    BY <1>2, <1>4, <1>5 DEF VerifyStep, readLogs, createIncident, lockLedger
  <1> DEFINE todo == Compromised(verifier[v].rows, LatestBackup(backups), verifier[v].live)
  <1>7. verifier'[v] = Report(todo)
    BY <1>6 DEF readLatestBackup, Inv, Shapes, VerifyInv
  <1> HIDE DEF todo
  <1>8. todo = {}
    BY <1>7 DEF Report, IdleVerifier
  <1>9. QED
    BY <1>8 DEF todo

\* What a passing verification has read is intact.
LEMMA PassingIsIntact ==
  ASSUME Inv, RecoveryInv, [Next]_vars, NEW v \in Verifiers,
         verifier[v].pc = "anchor", verifier'[v].pc = "idle", history' = history,
         "time" \notin history.kinds
  PROVE  Intact(verifier[v].rows, verifier[v].live)
  <1> DEFINE committed == history.committed
             rows == verifier[v].rows
             contents == verifier[v].live
             latest == LatestBackup(backups)
  <1>1. committed \in SUBSET Rows /\ \A c \in committed : Written(c)
    BY DEF RecoveryInv, CommittedInv, HistoryShape
  <1>2. rows \in SUBSET Rows /\ contents \in Seq(Nat)
    BY DEF Inv, Shapes, VerifyInv, VerifierShape
  <1>3. /\ Created(contents) /\ Within(rows, Len(contents))
        /\ IsFiniteSet(rows) /\ Distinct(rows) /\ Traced(rows, committed)
    BY DEF RecoveryInv, VerifiersInv
  <1>4. Compromised(rows, latest, contents) = {}
    BY PassingStep
  <1>5. Unbroken(rows, contents, committed) => Intact(rows, contents)
    BY DEF Intact, Unbroken
  <1> HIDE DEF committed, rows, contents, latest
  <1>6. Unbroken(rows, contents, committed)
    BY <1>1, <1>2, <1>3, <1>4, PassIntact
  <1>7. Intact(rows, contents)
    BY <1>5, <1>6
  <1>8. QED
    BY <1>7 DEF rows, contents

\* A verification that opens no incident has read, in the order of their numbers, contents,
\* times and hashes of the first rows of a chain that the audit pipeline wrote, and their
\* transactions as created: for any number of the corruptions that Corrupt covers, repairs,
\* appends and other verifications between and during its reads, as long as no createdAt
\* was changed.
THEOREM PassesFindIntact == Spec => PassMeansIntact
  <1>1. Inv /\ RecoveryInv /\ [Next]_vars =>
          \A v \in Verifiers :
            /\ verifier[v].pc = "anchor"
            /\ verifier'[v].pc = "idle"
            /\ history' = history
            /\ "time" \notin history.kinds
            => Intact(verifier[v].rows, verifier[v].live)
    BY PassingIsIntact
  <1>2. QED
    BY <1>1, Invariance, Recovery, PTL DEF Spec, PassMeansIntact

\* An incident's credit is spent by the transaction that restores its rows, whether the
\* job completes or fails after it.
LEMMA RestoringStep ==
  ASSUME Inv, RecoveryInv, [Next]_vars, NEW i \in Incidents, incidents'[i].credit < incidents[i].credit
  PROVE  \E w \in RepairWorkers :
            repairer[w].pc = "restore" /\ WriteRestored(w) /\ i = IncidentOf(w)
  <1>1. incidents[i] \in IncidentShape /\ incidents[i].credit \in Int
    <2>1. incidents[i] \in IncidentShape
      BY DEF Inv, Shapes, IncidentsInv, Incidents
    <2>2. QED
      BY <2>1 DEF IncidentShape
  <1>2. incidents'[i] # incidents[i] /\ incidents' # incidents
    BY <1>1
  <1>3. ASSUME NEW j \in Incidents, NEW status \in IncidentStatus,
               incidents' = [incidents EXCEPT ![j] = WithStatus(@, status)]
        PROVE  FALSE
    <2>1. incidents'[i].credit >= incidents[i].credit
      BY <1>3, StatusStarts DEF RecoveryInv
    <2>2. incidents'[i].credit \in Int
      <3>1. IncidentsInv' /\ Incidents' = Incidents
        BY <1>3, Restated
      <3>2. incidents'[i] \in IncidentShape
        BY <3>1 DEF IncidentsInv, Incidents
      <3>3. QED
        BY <3>2 DEF IncidentShape
    <2>3. QED
      BY <1>1, <2>1, <2>2
  <1>4. ~UNCHANGED vars /\ ~AuditStep
    BY <1>2 DEF vars, AuditStep, ledgerMiddleware, createTransaction, readChainState, commitRow,
                commitConflicts, writeTransactionBackup, backupGivenUp, Corrupt, procs
  <1>5. ~\E v \in Verifiers : VerifyStep(v)
    <2>1. ~\E v \in Verifiers : createIncident(v)
      BY <1>2, CreateIncidentStarts
    <2>2. QED
      BY <1>2, <2>1 DEF VerifyStep, readLogs, readLatestBackup, lockLedger, verificationFails
  <1>6. ~\E j \in Incidents : ManagerStep(j)
    BY <1>2, <1>3 DEF ManagerStep, updateIncidentStatus, triggerRepair, repairUserChain, AddJob
  <1>7. ~\E a \in Admins : UnlockStep(a)
    <2>1. ASSUME NEW a \in Admins, resolveIncident(a) PROVE FALSE
      <3>1. admin[a].incident \in Incidents /\ "RESOLVED" \in IncidentStatus
        BY <2>1, Lengths DEF resolveIncident, Inv, Shapes, UnlockInv, AdminInv, IncidentStatus
      <3>2. QED
        BY <1>3, <2>1, <3>1 DEF resolveIncident
    <2>2. QED
      BY <1>2, <2>1 DEF UnlockStep, readLedger, activateLedger, checkRepairing, unlockFails
  <1>8. PICK w \in RepairWorkers : RepairStep(w)
    BY <1>4, <1>5, <1>6, <1>7 DEF Next
  <1>9. ASSUME repairer[w].pc \in Underway, WriteRepairing(w) PROVE FALSE
    <2>1. IncidentOf(w) \in Incidents /\ "REPAIRING" \in IncidentStatus
      BY <1>9, IncidentOfType DEF IncidentStatus
    <2>2. QED
      BY <1>3, <1>9, <2>1 DEF WriteRepairing
  <1>10. repairer[w].pc = "restore" /\ WriteRestored(w)
    BY <1>2, <1>8, <1>9 DEF RepairStep, takeJob, findIncident, fetchHistory,
       assertBoundaryLinksToTrustedChain, lockLedgerForRepair, markRepairing, restore, repairFails,
       MayBeWritten, Underway
  <1>11. i = IncidentOf(w)
    BY <1>2, <1>10, RestoredCredit
  <1>12. QED
    BY <1>10, <1>11

\* The rows that the transaction leaves behind.
LEMMA RestoringIsGenuine ==
  ASSUME Inv, RecoveryInv, NEW w \in RepairWorkers, repairer[w].pc = "restore", WriteRestored(w),
         "time" \notin history.kinds, ~history.lost,
         NEW n \in 1 .. head'.seq, n >= incidents[IncidentOf(w)].start
  PROVE  \E r \in log', c \in history.committed :
            /\ r.seq = n /\ r = [c EXCEPT !.txn = r.txn]
            /\ live'[c.txn] = c.txn
            /\ NumberedOnce /\ "txn" \notin history.kinds => r.txn = c.txn
  <1> DEFINE records == repairer[w].records
             committed == history.committed
             start == incidents[IncidentOf(w)].start
             Once == \A c, d \in committed : c.seq = d.seq => c = d
  <1>1. /\ records \in SUBSET committed /\ records \in SUBSET Rows
        /\ IsFiniteSet(records) /\ records # {} /\ Contiguous(records)
        /\ \A b \in records : Written(b) /\ b.txn \in 1 .. Len(live)
    BY RestoringRecords
  <1>2. /\ log' = RestoredLog(log, records) /\ head' = RestoredHead(log, records)
        /\ live' = RestoredLive(live, records)
    BY DEF WriteRestored
  <1>3. Traced(log, committed) /\ committed \in SUBSET Rows /\ live \in Seq(Nat)
    BY DEF RecoveryInv, StoresInv, HistoryShape, Inv, Shapes, DataInv
  <1>4. NumberedOnce /\ "txn" \notin history.kinds => Numbered(log, committed) /\ Once
    BY DEF RecoveryInv, StoresInv, NumberedOnce, KeysKept
  <1>5. First(start) \in Nat /\ First(start) <= n /\ \E b \in records : b.seq = First(start)
    <2>1. repairer[w].pc \in Fetched /\ IncidentOf(w) \in Incidents
      BY IncidentOfType DEF Fetched, Underway
    <2>2. incidents[IncidentOf(w)] \in IncidentShape
      BY <2>1, Lengths DEF Inv, Shapes, IncidentsInv
    <2>3. start \in Nat /\ n >= start /\ n >= 1
      BY <2>2 DEF IncidentShape
    <2>4. \E b \in records : b.seq = First(start)
      BY <2>1 DEF RecoveryInv, RecordsInv
    <2> HIDE DEF start, records
    <2>5. QED
      BY <2>3, <2>4 DEF First
  <1>6. RestoredLive(live, records) \in Seq(Nat)
    BY <1>1, <1>3, RestoredType DEF Inv, Shapes, DataInv
  <1> HIDE DEF records, committed, start, Once
  <1>7. head'.seq = LastRecord(records).seq
    <2>1. LastRecord(records) \in committed
      BY <1>1, LastOfRecords
    <2>2. RestoredRow(log, LastRecord(records)).seq = LastRecord(records).seq
      BY <2>1, RestoredFields
    <2>3. QED
      BY <1>2, <2>2 DEF RestoredHead
  <1>8. PICK b \in records : b.seq = n
    <2>1. LastRecord(records).seq \in Nat
      BY <1>1, LastOfRecords DEF Rows
    <2>2. n \in First(start) .. LastRecord(records).seq
      BY <1>5, <1>7, <2>1
    <2>3. QED
      BY <1>1, <1>5, <2>2, ContiguousCovers
  <1> DEFINE txn == RestoredTxn(log, b)
             r == RestoredRow(log, b)
  <1>9. r = [b EXCEPT !.txn = txn] /\ (NumberedOnce /\ "txn" \notin history.kinds => txn = b.txn)
    <2>1. b \in committed /\ Written(b)
      BY <1>1
    <2>2. r = [b EXCEPT !.txn = txn]
      BY <1>3, <2>1, RestoredGenuine
    <2>3. ASSUME Numbered(log, committed), Once PROVE txn = b.txn
      <3>1. \A c, d \in committed : c.seq = d.seq => c = d
        BY <2>3 DEF Once
      <3>2. QED
        BY <2>1, <2>3, <3>1, RestoredKeys
    <2> HIDE DEF txn, r
    <2>4. QED
      BY <1>4, <2>2, <2>3
  <1>10. r.txn = txn /\ r.seq = n
    BY <1>8, RestoredFields, <1>1
  <1>11. r \in log'
    BY <1>2 DEF RestoredLog
  <1>12. live'[b.txn] = b.txn
    BY <1>1, <1>2, <1>3, <1>6, RestoredContents
  <1> HIDE DEF txn, r
  <1>13. b \in history.committed
    BY <1>1 DEF committed
  <1>14. QED
    BY <1>9, <1>10, <1>11, <1>12, <1>13

\* The transaction of a repair leaves every row from the corruption start to the new head
\* as the pipeline wrote it, and the contents of its transaction as created, for any number
\* of the corruptions that Corrupt covers and whichever other repairs, appends and
\* verifications ran, if no createdAt was changed and no backup of a row was lost; and of
\* the transaction it was written for, if no number was given twice and nobody wrote a
\* number or a transactionId.
THEOREM RestoresGenuineRows == Spec => RestoredIsGenuine
  <1>1. Inv /\ RecoveryInv /\ [Next]_vars =>
          \A i \in Incidents :
            RestoredBy(i) /\ "time" \notin history.kinds /\ ~history.lost
            => \A n \in 1 .. head'.seq : n >= incidents[i].start =>
                 \E r \in log', c \in history.committed :
                    /\ r.seq = n /\ r = [c EXCEPT !.txn = r.txn]
                    /\ live'[c.txn] = c.txn
                    /\ NumberedOnce /\ "txn" \notin history.kinds => r.txn = c.txn
    <2> SUFFICES ASSUME Inv, RecoveryInv, [Next]_vars, NEW i \in Incidents, RestoredBy(i),
                        "time" \notin history.kinds, ~history.lost,
                        NEW n \in 1 .. head'.seq, n >= incidents[i].start
                 PROVE  \E r \in log', c \in history.committed :
                           /\ r.seq = n /\ r = [c EXCEPT !.txn = r.txn]
                           /\ live'[c.txn] = c.txn
                           /\ NumberedOnce /\ "txn" \notin history.kinds => r.txn = c.txn
      OBVIOUS
    <2>1. PICK w \in RepairWorkers :
             repairer[w].pc = "restore" /\ WriteRestored(w) /\ i = IncidentOf(w)
      BY RestoringStep DEF RestoredBy
    <2>2. QED
      BY <2>1, RestoringIsGenuine
  <1>2. QED
    BY <1>1, Invariance, Recovery, PTL DEF Spec, RestoredIsGenuine

-----------------------------------------------------------------------------
(* A resolved incident stays resolved                                      *)

Closing == {"REPAIRING", "RESOLVED"}

\* Managers leave it to repairs and unlock requests to begin and end a repair.
RepairsLeftAlone == \A move \in ManagerMoves : move[1] \notin Closing /\ move[2] \notin Closing

\* A worker that will write REPAIRING, unless the ledger is taken before it locks it.
AboutToMark(w) ==
    \/ repairer[w].pc = "mark"
    \/ repairer[w].pc \in {"fetch", "boundary", "lock"} /\ ledger.status # "UNDER_REPAIR"

\* An unlock request resolves what is being repaired, and a repair marks what is not.
ResolvingInv ==
    /\ \A a \in Admins : admin[a].pc = "resolve" => incidents[admin[a].incident].status \in Closing
    /\ Undisturbed => \A w \in RepairWorkers :
                         AboutToMark(w) => incidents[IncidentOf(w)].status \notin Closing

\* The effect of a status on the statuses.
LEMMA StatusWritten ==
  ASSUME Inv, NEW i \in Incidents, NEW status \in IncidentStatus,
         incidents' = [incidents EXCEPT ![i] = WithStatus(@, status)]
  PROVE  \A j \in Incidents : incidents'[j].status = IF j = i THEN status ELSE incidents[j].status
  <1>1. \A j \in Incidents :
           incidents'[j] = IF j = i THEN WithStatus(incidents[i], status) ELSE incidents[j]
    BY Restated
  <1>2. incidents[i] \in IncidentShape
    BY DEF Inv, Shapes, IncidentsInv, Incidents
  <1>3. WithStatus(incidents[i], status).status = status
    BY <1>2, WithStatusKeeps
  <1>4. QED
    BY <1>1, <1>3

\* A worker about to mark an incident is under way.
LEMMA AboutToMarkUnderway ==
  ASSUME Inv, NEW w \in RepairWorkers, AboutToMark(w)
  PROVE  repairer[w].pc \in Underway /\ repairer[w].pc \in Checked /\ IncidentOf(w) \in Incidents
  <1>1. repairer[w].pc \in Underway /\ repairer[w].pc \in Checked
    BY DEF AboutToMark, Underway, Checked, Locked
  <1>2. QED
    BY <1>1, IncidentOfType

\* No incident's repair begins or ends, and nobody comes closer to writing that it does.
LEMMA NoneClosed ==
  ASSUME Inv, ResolvingInv,
         \A i \in Incidents : incidents'[i].status \in Closing <=> incidents[i].status \in Closing,
         \A a \in Admins : admin'[a].pc = "resolve" =>
            admin[a].pc = "resolve" /\ admin'[a].incident = admin[a].incident,
         Undisturbed' => Undisturbed,
         \A w \in RepairWorkers : Undisturbed' /\ AboutToMark(w)' =>
            AboutToMark(w) /\ IncidentOf(w)' = IncidentOf(w)
  PROVE  ResolvingInv'
  <1>1. ASSUME NEW a \in Admins, admin'[a].pc = "resolve"
        PROVE  incidents'[admin'[a].incident].status \in Closing
    <2>1. admin[a].pc = "resolve" /\ admin'[a].incident = admin[a].incident
      BY <1>1
    <2>2. admin[a].incident \in Incidents
      BY <2>1 DEF Inv, Shapes, UnlockInv, AdminInv
    <2>3. QED
      BY <2>1, <2>2 DEF ResolvingInv
  <1>2. ASSUME Undisturbed', NEW w \in RepairWorkers, AboutToMark(w)'
        PROVE  incidents'[IncidentOf(w)'].status \notin Closing
    <2>1. AboutToMark(w) /\ IncidentOf(w)' = IncidentOf(w)
      BY <1>2
    <2>2. IncidentOf(w) \in Incidents /\ incidents[IncidentOf(w)].status \notin Closing
      BY <1>2, <2>1, AboutToMarkUnderway DEF ResolvingInv
    <2>3. QED
      BY <2>1, <2>2
  <1>3. QED
    BY <1>1, <1>2 DEF ResolvingInv

\* Steps that leave the ledger, the repairs and the unlock requests alone.
LEMMA ElsewhereCloses ==
  ASSUME Inv, ResolvingInv, UNCHANGED <<ledger, jobs, repairer, admin>>,
         history'.disturbed = history.disturbed,
         \A i \in Incidents : incidents'[i].status \in Closing <=> incidents[i].status \in Closing
  PROVE  ResolvingInv'
  <1>1. \A a \in Admins : admin'[a].pc = "resolve" =>
           admin[a].pc = "resolve" /\ admin'[a].incident = admin[a].incident
    OBVIOUS
  <1>2. Undisturbed' => Undisturbed
    BY DEF Undisturbed
  <1>3. \A w \in RepairWorkers : Undisturbed' /\ AboutToMark(w)' =>
           AboutToMark(w) /\ IncidentOf(w)' = IncidentOf(w)
    BY DEF AboutToMark, IncidentOf
  <1>4. QED
    BY <1>1, <1>2, <1>3, NoneClosed

\* Who writes over the ledger's status disturbs those who have it checked.
LEMMA DisturbCloses ==
  ASSUME Inv, ResolvingInv, Disturb, UNCHANGED <<incidents, repairer>>,
         \A a \in Admins : admin'[a].pc = "resolve" =>
            admin[a].pc = "resolve" /\ admin'[a].incident = admin[a].incident
  PROVE  ResolvingInv'
  <1>1. history'.disturbed =
          history.disturbed \cup ({repairer[w].pc : w \in RepairWorkers} \cap Checked)
    BY DEF Disturb, Inv, Shapes, HistoryInv
  <1>2. Undisturbed' => Undisturbed
    BY <1>1 DEF Undisturbed
  <1>3. \A w \in RepairWorkers : ~(Undisturbed' /\ AboutToMark(w)')
    <2>1. ASSUME NEW w \in RepairWorkers, Undisturbed', AboutToMark(w)' PROVE FALSE
      <3>1. repairer[w].pc \in Checked
        BY <2>1 DEF AboutToMark, Checked, Locked
      <3>2. repairer[w].pc \in history'.disturbed
        BY <1>1, <3>1
      <3>3. QED
        BY <2>1, <3>1, <3>2 DEF Undisturbed
    <2>2. QED
      BY <2>1
  <1>4. QED
    BY <1>2, <1>3, NoneClosed

\* A step of a worker that marks no incident.
LEMMA WorkerCloses ==
  ASSUME Inv, ResolvingInv, NEW w \in RepairWorkers, UNCHANGED admin, OthersStay(w), StaysOrTaken,
         history'.disturbed = history.disturbed,
         \A i \in Incidents : incidents'[i].status = incidents[i].status,
         Undisturbed /\ AboutToMark(w)' => IncidentOf(w)' \in Incidents
                                          /\ incidents[IncidentOf(w)'].status \notin Closing
  PROVE  ResolvingInv'
  <1>1. \A a \in Admins : admin[a].pc = "resolve" => admin[a].incident \in Incidents
    BY DEF Inv, Shapes, UnlockInv, AdminInv
  <1>2. ASSUME Undisturbed', NEW u \in RepairWorkers, AboutToMark(u)'
        PROVE  incidents'[IncidentOf(u)'].status \notin Closing
    <2>1. Undisturbed
      BY <1>2 DEF Undisturbed
    <2>2. CASE u = w
      BY <1>2, <2>1, <2>2
    <2>3. CASE u # w
      <3>1. repairer'[u] = repairer[u]
        BY <2>3 DEF OthersStay
      <3>2. AboutToMark(u)
        BY <1>2, <3>1 DEF AboutToMark, StaysOrTaken
      <3>3. IncidentOf(u)' = IncidentOf(u) /\ IncidentOf(u) \in Incidents
        BY <2>3, <3>1, <3>2, AboutToMarkUnderway DEF OthersStay, IncidentOf
      <3>4. QED
        BY <2>1, <3>2, <3>3 DEF ResolvingInv
    <2>4. QED
      BY <2>2, <2>3
  <1>3. QED
    BY <1>1, <1>2 DEF ResolvingInv

\* The step of the worker that marks one.
LEMMA MarkCloses ==
  ASSUME Inv, ResolvingInv, NEW w \in RepairWorkers, repairer[w].pc = "mark", WriteRepairing(w),
         UNCHANGED <<ledger, admin>>, OthersStay(w), repairer'[w].pc \in {"idle", "restore"},
         history'.disturbed = history.disturbed
  PROVE  ResolvingInv'
  <1>1. IncidentOf(w) \in Incidents /\ "REPAIRING" \in IncidentStatus
    BY IncidentOfType DEF Underway, IncidentStatus
  <1>2. \A i \in Incidents :
           incidents'[i].status = IF i = IncidentOf(w) THEN "REPAIRING" ELSE incidents[i].status
    BY <1>1, StatusWritten DEF WriteRepairing
  <1>3. \A a \in Admins : admin[a].pc = "resolve" => admin[a].incident \in Incidents
    BY DEF Inv, Shapes, UnlockInv, AdminInv
  <1>4. \A a \in Admins : admin'[a].pc = "resolve" =>
           incidents'[admin'[a].incident].status \in Closing
    BY <1>2, <1>3 DEF ResolvingInv, Closing
  <1>5. ASSUME Undisturbed', NEW u \in RepairWorkers, AboutToMark(u)' PROVE FALSE
    <2>1. history.disturbed \cap Locked = {} /\ repairer[w].pc \in Locked
      BY <1>5 DEF Undisturbed, Checked, Locked
    <2>2. ledger.status = "UNDER_REPAIR" /\ \A x \in RepairWorkers : repairer[x].pc \in Locked => x = w
      BY <2>1 DEF Inv, LockInv
    <2>3. repairer'[u].pc = "mark" /\ u # w
      BY <1>5, <2>2 DEF AboutToMark
    <2>4. repairer[u].pc = "mark"
      BY <2>3 DEF OthersStay
    <2>5. QED
      BY <2>2, <2>3, <2>4 DEF Locked
  <1>6. QED
    BY <1>4, <1>5 DEF ResolvingInv

\* A worker that goes on, or leaves its job.
LEMMA CheckingCloses ==
  ASSUME Inv, ResolvingInv, NEW w \in RepairWorkers,
         findIncident(w) \/ fetchHistory(w) \/ assertBoundaryLinksToTrustedChain(w)
            \/ lockLedgerForRepair(w)
  PROVE  ResolvingInv'
  <1>1. UNCHANGED <<incidents, admin, history>> /\ repairer[w].pc \in {"find", "fetch", "boundary", "lock"}
    BY DEF findIncident, fetchHistory, assertBoundaryLinksToTrustedChain, lockLedgerForRepair
  <1>2. repairer[w].pc \in Underway /\ IncidentOf(w) \in Incidents /\ Incidents' = Incidents
    BY <1>1, IncidentOfType DEF Underway, Incidents
  <1>3. StaysOrTaken
    BY DEF StaysOrTaken, WriteLock, findIncident, fetchHistory, assertBoundaryLinksToTrustedChain,
           lockLedgerForRepair
  <1>4. CASE Throw(w)
    <2>1. OthersStay(w) /\ repairer'[w].pc = "idle"
      BY <1>2, <1>4, DroppingKeeps
    <2>2. ~AboutToMark(w)'
      BY <2>1 DEF AboutToMark
    <2>3. QED
      BY <1>1, <1>3, <2>1, <2>2, WorkerCloses
  <1>5. CASE ~Throw(w)
    <2>1. OthersStay(w) /\ IncidentOf(w)' = IncidentOf(w)
      <3>1. CASE fetchHistory(w)
        <4> DEFINE records == FromStart(Listed(backups), incidents[IncidentOf(w)].start)
                   next == [repairer[w] EXCEPT !.pc = "boundary", !.records = records]
        <4>1. repairer' = [repairer EXCEPT ![w] = next] /\ UNCHANGED jobs
          BY <1>5, <3>1, WorkerShape DEF fetchHistory
        <4>2. next.job = repairer[w].job
          BY WorkerShape DEF RepairerShape
        <4> HIDE DEF next
        <4>3. \A u \in RepairWorkers : repairer'[u] = IF u = w THEN next ELSE repairer[u]
          BY <4>1, WorkerShape
        <4>4. QED
          BY <4>1, <4>2, <4>3 DEF OthersStay, IncidentOf
      <3>2. CASE \E pc : Goto(w, pc)
        BY <1>2, <3>2, GotoKeeps DEF IncidentOf
      <3>3. QED
        BY <1>5, <3>1, <3>2
           DEF findIncident, assertBoundaryLinksToTrustedChain, lockLedgerForRepair
    <2>2. ASSUME Undisturbed, AboutToMark(w)' PROVE incidents[IncidentOf(w)].status \notin Closing
      <3>1. CASE findIncident(w)
        BY <1>5, <3>1 DEF findIncident, MayRepair, Closing
      <3>2. CASE ~findIncident(w)
        <4>1. repairer[w].pc \in {"fetch", "boundary", "lock"}
          BY <3>2 DEF fetchHistory, assertBoundaryLinksToTrustedChain, lockLedgerForRepair
        <4>2. ledger.status # "UNDER_REPAIR"
          <5>1. CASE lockLedgerForRepair(w)
            BY <1>5, <5>1 DEF lockLedgerForRepair, MayLock
          <5>2. CASE fetchHistory(w) \/ assertBoundaryLinksToTrustedChain(w)
            <6>1. UNCHANGED ledger /\ repairer'[w].pc \in {"boundary", "lock"}
              <7>1. CASE fetchHistory(w)
                BY <1>5, <7>1, WorkerShape DEF fetchHistory, RepairerShape
              <7>2. CASE assertBoundaryLinksToTrustedChain(w)
                BY <1>2, <1>5, <7>2, GotoKeeps DEF assertBoundaryLinksToTrustedChain
              <7>3. QED
                BY <5>2, <7>1, <7>2
            <6>2. QED
              BY <2>2, <6>1 DEF AboutToMark
          <5>3. QED
            BY <3>2, <5>1, <5>2
        <4>3. QED
          BY <2>2, <4>1, <4>2 DEF ResolvingInv, AboutToMark
      <3>3. QED
        BY <3>1, <3>2
    <2>3. QED
      BY <1>1, <1>2, <1>3, <2>1, <2>2, WorkerCloses
  <1>6. QED
    BY <1>4, <1>5

\* The restoring transaction says nothing of the status.
LEMMA RepairFailsCloses ==
  ASSUME Inv, RecoveryInv, ResolvingInv, NEW w \in RepairWorkers, repairFails(w) PROVE ResolvingInv'
  <1>1. UNCHANGED admin /\ (Throw(w) \/ Stall(w)) /\ repairer[w].pc # "idle" /\ MayBeWritten(w)
    BY DEF repairFails
  <1>2. repairer[w].pc \in Underway
    BY <1>1, WorkerShape DEF RepairerShape
  <1>3. history'.disturbed = history.disturbed
    BY DEF repairFails, Fault, Inv, Shapes, HistoryInv
  <1>4. CASE repairer[w].pc = "mark" /\ WriteRepairing(w) /\ UNCHANGED ledger
    <2>1. Incidents' = Incidents
      <3>1. IncidentOf(w) \in Incidents /\ "REPAIRING" \in IncidentStatus
        BY <1>2, IncidentOfType DEF IncidentStatus
      <3>2. QED
        BY <1>4, <3>1, Restated DEF WriteRepairing
    <2>2. OthersStay(w) /\ repairer'[w].pc = "idle"
      BY <1>1, <1>2, <2>1, DroppingKeeps
    <2>3. QED
      BY <1>1, <1>3, <1>4, <2>2, MarkCloses
  <1>5. CASE ~(repairer[w].pc = "mark" /\ WriteRepairing(w) /\ UNCHANGED ledger)
    <2>1. Incidents' = Incidents /\ \A i \in Incidents : incidents'[i].status = incidents[i].status
      <3>1. CASE UNCHANGED incidents
        BY <3>1 DEF Incidents
      <3>2. CASE repairer[w].pc = "restore" /\ WriteRestored(w)
        BY <3>2, RestoredCredit
      <3>3. QED
        BY <1>1, <1>5, <3>1, <3>2 DEF MayBeWritten
    <2>2. StaysOrTaken
      BY <1>1 DEF MayBeWritten, StaysOrTaken, WriteLock
    <2>3. OthersStay(w) /\ repairer'[w].pc = "idle"
      BY <1>1, <1>2, <2>1, DroppingKeeps
    <2>4. ~AboutToMark(w)'
      BY <2>3 DEF AboutToMark
    <2>5. QED
      BY <1>1, <1>3, <2>1, <2>2, <2>3, <2>4, WorkerCloses
  <1>6. QED
    BY <1>4, <1>5

\* Repair workers keep the invariant of resolved incidents.
LEMMA RepairCloses ==
  ASSUME Inv, RecoveryInv, ResolvingInv, NEW w \in RepairWorkers, RepairStep(w) PROVE ResolvingInv'
  <1>1. ASSUME NEW j \in DOMAIN jobs, takeJob(w, j) PROVE ResolvingInv'
    <2>1. OthersStay(w) /\ repairer'[w].pc = "find"
      BY <1>1, TakingKeeps
    <2>2. ~AboutToMark(w)'
      BY <2>1 DEF AboutToMark
    <2>3. UNCHANGED <<admin, incidents, history>> /\ StaysOrTaken
      BY <1>1 DEF takeJob, StaysOrTaken
    <2>4. QED
      BY <2>1, <2>2, <2>3, WorkerCloses
  <1>2. CASE markRepairing(w)
    <2>1. repairer[w].pc = "mark" /\ WriteRepairing(w) /\ UNCHANGED <<ledger, admin, history>>
      BY <1>2 DEF markRepairing
    <2>2. OthersStay(w) /\ repairer'[w].pc = "restore"
      BY <1>2, GotoKeeps DEF markRepairing, Underway
    <2>3. QED
      BY <2>1, <2>2, MarkCloses
  <1>3. CASE restore(w)
    <2>1. repairer[w].pc = "restore" /\ WriteRestored(w) /\ UNCHANGED <<ledger, admin, history>>
      BY <1>3 DEF restore
    <2>2. \A i \in Incidents : incidents'[i].status = incidents[i].status
      BY <2>1, RestoredCredit
    <2>3. OthersStay(w) /\ ~AboutToMark(w)'
      BY <1>3, CompletingKeeps DEF AboutToMark
    <2>4. StaysOrTaken
      BY <2>1 DEF StaysOrTaken
    <2>5. QED
      BY <2>1, <2>2, <2>3, <2>4, WorkerCloses
  <1>4. QED
    BY <1>1, <1>2, <1>3, CheckingCloses, RepairFailsCloses DEF RepairStep

\* Unlock requests: only the one that has found an incident under repair resolves it.
LEMMA UnlockCloses ==
  ASSUME Inv, ResolvingInv, NEW a \in Admins, UnlockStep(a) PROVE ResolvingInv'
  <1>1. /\ UNCHANGED <<jobs, repairer>>
        /\ \A b \in Admins : b # a => admin'[b] = admin[b]
        /\ admin[a].pc # "idle" => admin[a].incident \in Incidents
        /\ \A b \in Admins : admin[b].pc = "resolve" => admin[b].incident \in Incidents
    BY DEF UnlockStep, readLedger, activateLedger, checkRepairing, resolveIncident, unlockFails,
           Inv, Shapes, UnlockInv, AdminInv
  <1>2. history'.disturbed = history.disturbed \/ Disturb
    BY DEF UnlockStep, readLedger, activateLedger, checkRepairing, resolveIncident, unlockFails,
           Fault, Inv, Shapes, HistoryInv
  <1>3. admin'[a].pc = "resolve" => checkRepairing(a) /\ admin'[a].incident = admin[a].incident
                                    /\ incidents[admin[a].incident].status = "REPAIRING"
    BY DEF UnlockStep, readLedger, activateLedger, checkRepairing, resolveIncident, unlockFails,
           IdleAdmin, Inv, Shapes, UnlockInv, AdminInv
  <1>4. CASE activateLedger(a)
    <2>1. admin'[a].pc # "resolve"
      BY <1>4 DEF activateLedger, Inv, Shapes, UnlockInv, AdminInv
    <2>2. QED
      BY <1>1, <1>4, <2>1, DisturbCloses DEF activateLedger
  <1>5. CASE readLedger(a) \/ checkRepairing(a) \/ unlockFails(a)
    <2>1. UNCHANGED <<ledger, incidents>> /\ history'.disturbed = history.disturbed
      BY <1>5 DEF readLedger, checkRepairing, unlockFails, Fault, Inv, Shapes, HistoryInv
    <2>2. ASSUME NEW b \in Admins, admin'[b].pc = "resolve"
          PROVE  incidents'[admin'[b].incident].status \in Closing
      <3>1. CASE b = a
        BY <1>3, <2>1, <2>2, <3>1 DEF Closing
      <3>2. CASE b # a
        BY <1>1, <2>1, <2>2, <3>2 DEF ResolvingInv
      <3>3. QED
        BY <3>1, <3>2
    <2>3. Undisturbed' => \A w \in RepairWorkers :
             AboutToMark(w)' => incidents'[IncidentOf(w)'].status \notin Closing
      BY <1>1, <2>1 DEF ResolvingInv, Undisturbed, AboutToMark, IncidentOf
    <2>4. QED
      BY <2>2, <2>3 DEF ResolvingInv
  <1>6. CASE resolveIncident(a)
    <2> DEFINE i == admin[a].incident
    <2>1. /\ UNCHANGED <<ledger, history>> /\ i \in Incidents /\ "RESOLVED" \in IncidentStatus
          /\ incidents' = [incidents EXCEPT ![i] = WithStatus(@, "RESOLVED")]
          /\ incidents[i].status \in Closing
      BY <1>1, <1>6 DEF resolveIncident, IncidentStatus, ResolvingInv
    <2>2. \A j \in Incidents : incidents'[j].status = IF j = i THEN "RESOLVED" ELSE incidents[j].status
      BY <2>1, StatusWritten
    <2>3. \A j \in Incidents : incidents'[j].status \in Closing <=> incidents[j].status \in Closing
      BY <2>1, <2>2 DEF Closing
    <2>4. \A b \in Admins : admin'[b].pc = "resolve" =>
             admin[b].pc = "resolve" /\ admin'[b].incident = admin[b].incident
      BY <1>1, <1>3, <1>6 DEF resolveIncident, checkRepairing
    <2>5. Undisturbed' => Undisturbed
      BY <2>1 DEF Undisturbed
    <2>6. \A w \in RepairWorkers : Undisturbed' /\ AboutToMark(w)' =>
             AboutToMark(w) /\ IncidentOf(w)' = IncidentOf(w)
      BY <1>1, <2>1 DEF AboutToMark, IncidentOf
    <2>7. QED
      BY <2>3, <2>4, <2>5, <2>6, NoneClosed
  <1>7. QED
    BY <1>4, <1>5, <1>6 DEF UnlockStep

\* Managers keep it, given that they leave repairs alone.
LEMMA ManagerCloses ==
  ASSUME RepairsLeftAlone, Inv, ResolvingInv, NEW i \in Incidents, ManagerStep(i) PROVE ResolvingInv'
  <1>1. ASSUME NEW status \in IncidentStatus, updateIncidentStatus(i, status) PROVE ResolvingInv'
    <2>1. /\ UNCHANGED <<ledger, jobs, repairer, admin, history>>
          /\ incidents' = [incidents EXCEPT ![i] = WithStatus(@, status)]
          /\ <<incidents[i].status, status>> \in ManagerMoves
      BY <1>1 DEF updateIncidentStatus, procs
    <2>2. status \notin Closing /\ incidents[i].status \notin Closing
      <3> DEFINE move == <<incidents[i].status, status>>
      <3>1. move[1] \notin Closing /\ move[2] \notin Closing
        BY <2>1 DEF RepairsLeftAlone
      <3>2. QED
        BY <3>1
    <2>3. \A j \in Incidents : incidents'[j].status = IF j = i THEN status ELSE incidents[j].status
      BY <2>1, StatusWritten
    <2>4. \A j \in Incidents : incidents'[j].status \in Closing <=> incidents[j].status \in Closing
      BY <2>2, <2>3
    <2>5. QED
      BY <2>1, <2>4, ElsewhereCloses
  <1>2. ASSUME NEW keyed, AddJob(i, keyed) PROVE ResolvingInv'
    <2>1. UNCHANGED <<ledger, incidents, repairer, admin, history>>
      BY <1>2 DEF AddJob
    <2>2. \A w \in RepairWorkers : Undisturbed' /\ AboutToMark(w)' =>
             AboutToMark(w) /\ IncidentOf(w)' = IncidentOf(w)
      <3>1. ASSUME NEW w \in RepairWorkers, AboutToMark(w)'
            PROVE  AboutToMark(w) /\ IncidentOf(w)' = IncidentOf(w)
        <4>1. AboutToMark(w)
          BY <2>1, <3>1 DEF AboutToMark
        <4>2. jobs'[repairer[w].job].incident = IncidentOf(w)
          BY <1>2, <4>1, AboutToMarkUnderway, AddedJobKeeps
        <4>3. QED
          BY <2>1, <4>1, <4>2 DEF IncidentOf
      <3>2. QED
        BY <3>1
    <2>3. Undisturbed' => Undisturbed
      BY <2>1 DEF Undisturbed
    <2>4. QED
      BY <2>1, <2>2, <2>3, NoneClosed
  <1>3. QED
    BY <1>1, <1>2 DEF ManagerStep, triggerRepair, repairUserChain

\* Verifications keep it.
LEMMA VerifyCloses ==
  ASSUME Inv, RecoveryInv, ResolvingInv, NEW v \in Verifiers, VerifyStep(v) PROVE ResolvingInv'
  <1>1. UNCHANGED <<jobs, repairer, admin>>
    BY DEF VerifyStep, readLogs, readLatestBackup, createIncident, lockLedger, verificationFails
  <1>2. CASE lockLedger(v)
    BY <1>1, <1>2, DisturbCloses DEF lockLedger
  <1>3. CASE ~lockLedger(v)
    <2>1. UNCHANGED ledger /\ history'.disturbed = history.disturbed
      BY <1>3 DEF VerifyStep, readLogs, readLatestBackup, createIncident, verificationFails,
                  Fault, Inv, Shapes, HistoryInv
    <2>2. \A i \in Incidents : incidents'[i] = incidents[i]
      BY <1>3, CreateIncidentStarts
         DEF VerifyStep, readLogs, readLatestBackup, verificationFails
    <2>3. QED
      BY <1>1, <2>1, <2>2, ElsewhereCloses
  <1>4. QED
    BY <1>2, <1>3

\* The audit pipeline does not touch it.
LEMMA AuditCloses == ASSUME Inv, ResolvingInv, AuditStep PROVE ResolvingInv'
  <1>1. UNCHANGED <<ledger, incidents, jobs, repairer, admin>>
    BY DEF AuditStep, ledgerMiddleware, createTransaction, readChainState, commitRow,
           commitConflicts, writeTransactionBackup, backupGivenUp, Corrupt, procs
  <1>2. history'.disturbed = history.disturbed
    BY DEF AuditStep, ledgerMiddleware, createTransaction, readChainState, commitRow,
           commitConflicts, writeTransactionBackup, backupGivenUp, Corrupt, Inv, Shapes, HistoryInv
  <1>3. QED
    BY <1>1, <1>2, ElsewhereCloses

\* One step keeps it.
LEMMA NextCloses ==
  ASSUME RepairsLeftAlone, Inv, RecoveryInv, ResolvingInv, [Next]_vars PROVE ResolvingInv'
  <1>1. CASE UNCHANGED vars
    BY <1>1, ElsewhereCloses DEF vars
  <1>2. CASE Next
    BY <1>2, AuditCloses, VerifyCloses, ManagerCloses, RepairCloses, UnlockCloses DEF Next
  <1>3. QED
    BY <1>1, <1>2

\* It holds when there are no incidents.
LEMMA InitCloses == Init => ResolvingInv
  BY DEF Init, ResolvingInv, AboutToMark, IdleRepairer, IdleAdmin

\* No step writes another status over RESOLVED.
LEMMA ResolvedStays ==
  ASSUME RepairsLeftAlone, Inv, RecoveryInv, ResolvingInv, [Next]_vars, Undisturbed,
         NEW i \in Incidents, incidents[i].status = "RESOLVED"
  PROVE  incidents'[i].status = "RESOLVED"
  <1>1. CASE UNCHANGED incidents
    BY <1>1
  <1>2. CASE \E v \in Verifiers : createIncident(v)
    BY <1>2, CreateIncidentStarts
  <1>3. ASSUME NEW j \in Incidents, NEW status \in IncidentStatus, updateIncidentStatus(j, status)
        PROVE  incidents'[i].status = "RESOLVED"
    <2>1. /\ incidents' = [incidents EXCEPT ![j] = WithStatus(@, status)]
          /\ <<incidents[j].status, status>> \in ManagerMoves
      BY <1>3 DEF updateIncidentStatus
    <2>2. incidents[j].status \notin Closing
      <3> DEFINE move == <<incidents[j].status, status>>
      <3>1. move[1] \notin Closing
        BY <2>1 DEF RepairsLeftAlone
      <3>2. QED
        BY <3>1
    <2>3. i # j
      BY <2>2 DEF Closing
    <2>4. QED
      BY <2>1, <2>3, StatusWritten
  <1>4. ASSUME NEW w \in RepairWorkers, repairer[w].pc = "mark", WriteRepairing(w)
        PROVE  incidents'[i].status = "RESOLVED"
    <2>1. AboutToMark(w)
      BY <1>4 DEF AboutToMark
    <2>2. IncidentOf(w) \in Incidents /\ incidents[IncidentOf(w)].status \notin Closing
      BY <2>1, AboutToMarkUnderway DEF ResolvingInv
    <2>3. i # IncidentOf(w) /\ "REPAIRING" \in IncidentStatus
      BY <2>2 DEF Closing, IncidentStatus
    <2>4. QED
      BY <1>4, <2>2, <2>3, StatusWritten DEF WriteRepairing
  <1>5. ASSUME NEW w \in RepairWorkers, repairer[w].pc = "restore", WriteRestored(w)
        PROVE  incidents'[i].status = "RESOLVED"
    BY <1>5, RestoredCredit
  <1>6. ASSUME NEW a \in Admins, resolveIncident(a) PROVE incidents'[i].status = "RESOLVED"
    <2>1. /\ incidents' = [incidents EXCEPT ![admin[a].incident] = WithStatus(@, "RESOLVED")]
          /\ admin[a].incident \in Incidents /\ "RESOLVED" \in IncidentStatus
      BY <1>6 DEF resolveIncident, Inv, Shapes, UnlockInv, AdminInv, IncidentStatus
    <2>2. \A j \in Incidents :
             incidents'[j].status = IF j = admin[a].incident THEN "RESOLVED" ELSE incidents[j].status
      BY <2>1, StatusWritten
    <2>3. QED
      BY <2>2
  <1>7. UNCHANGED vars \/ AuditStep => UNCHANGED incidents
    BY DEF vars, AuditStep, ledgerMiddleware, createTransaction, readChainState, commitRow,
           commitConflicts, writeTransactionBackup, backupGivenUp, Corrupt
  <1>8. \A v \in Verifiers : VerifyStep(v) => UNCHANGED incidents \/ createIncident(v)
    BY DEF VerifyStep, readLogs, readLatestBackup, lockLedger, verificationFails
  <1>9. \A j \in Incidents : ManagerStep(j) =>
           UNCHANGED incidents \/ \E status \in IncidentStatus : updateIncidentStatus(j, status)
    BY DEF ManagerStep, triggerRepair, repairUserChain, AddJob
  <1>10. \A w \in RepairWorkers : RepairStep(w) =>
            \/ UNCHANGED incidents
            \/ repairer[w].pc = "mark" /\ WriteRepairing(w)
            \/ repairer[w].pc = "restore" /\ WriteRestored(w)
    BY DEF RepairStep, takeJob, findIncident, fetchHistory, assertBoundaryLinksToTrustedChain,
           lockLedgerForRepair, markRepairing, restore, repairFails, MayBeWritten
  <1>11. \A a \in Admins : UnlockStep(a) => UNCHANGED incidents \/ resolveIncident(a)
    BY DEF UnlockStep, readLedger, activateLedger, checkRepairing, unlockFails
  <1>12. QED
    BY <1>1, <1>2, <1>3, <1>4, <1>5, <1>6, <1>7, <1>8, <1>9, <1>10, <1>11 DEF Next

\* A resolved incident stays resolved, whatever jobs were queued for it, retried or handed
\* out again and whichever unlock requests are under way, unless the ledger's status is
\* written by others after a job's check for approval, given managers who neither begin
\* nor end a repair by hand.
THEOREM ResolvedStaysResolved ==
  ASSUME RepairsLeftAlone
  PROVE  Spec => ResolvedIsFinal
  <1>1. Inv /\ RecoveryInv /\ ResolvingInv /\ [Next]_vars => ResolvingInv'
    BY NextCloses
  <1>2. Inv /\ RecoveryInv /\ ResolvingInv /\ [Next]_vars =>
          (history.disturbed \cap Checked = {}
           => \A i \in Incidents : incidents[i].status = "RESOLVED" => incidents'[i].status = "RESOLVED")
    BY ResolvedStays DEF Undisturbed
  <1>3. QED
    BY <1>1, <1>2, InitCloses, Invariance, Recovery, PTL DEF Spec, ResolvedIsFinal
=============================================================================
