--------------------------- MODULE PageWalkProofs ---------------------------
(***************************************************************************)
(* Proofs about PageWalk, for any page size, any number of users that are  *)
(* there or join, and any start of the walk.                               *)
(***************************************************************************)
EXTENDS PageWalk, TLAPS

\* Multiplication by a page size.
LEMMA TimesFacts ==
  ASSUME NEW a \in Nat, NEW b \in Nat, NEW n \in Nat
  PROVE  /\ a * n \in Nat
         /\ (a + 1) * n = a * n + n
         /\ a <= b => a * n <= b * n
OBVIOUS

\* The number of pages is the quotient rounded up.
LEMMA TotalPagesFacts ==
  ASSUME NEW t \in Nat, NEW n \in Nat \ {0}
  PROVE  /\ TotalPages(t, n) \in Nat
         /\ TotalPages(t, n) * n >= t
         /\ TotalPages(t, n) * n < t + n
         /\ t > 0 => TotalPages(t, n) > 0
<1> DEFINE x == t + n - 1
           q == x \div n
<1>1. x \in Nat /\ x = t + n - 1
  OBVIOUS
<1>2. q \in Nat /\ q * n <= x /\ x < q * n + n
  <2> HIDE DEF x
  <2> QED
    BY <1>1
<1>3. TotalPages(t, n) = q
  BY DEF TotalPages
<1> HIDE DEF q, x
<1>4. q * n \in Nat
  BY <1>2
<1>5. q = 0 => q * n = 0
  BY <1>2
<1> QED
  BY <1>1, <1>2, <1>3, <1>4, <1>5

\* The last page reaches to the end of the table, and a page before it is full and
\* followed by another user.
LEMMA LastPageFacts ==
  ASSUME NEW t \in Nat, NEW n \in Nat \ {0}, NEW p \in Nat
  PROVE  /\ p = TotalPages(t, n) - 1 => p * n + n >= t
         /\ p # TotalPages(t, n) - 1 /\ p * n < t => p * n + n < t
<1> DEFINE q == TotalPages(t, n)
<1>1. q \in Nat /\ q * n >= t /\ q * n < t + n /\ q * n \in Nat /\ p * n \in Nat
  BY TotalPagesFacts
<1> HIDE DEF q
<1>2. CASE p = q - 1
  <2>1. q = p + 1
    BY <1>1, <1>2
  <2>2. q * n = p * n + n
    BY <2>1, TimesFacts
  <2> QED
    BY <1>1, <1>2, <2>2 DEF q
<1>3. CASE p >= q
  <2>1. p * n >= q * n
    BY <1>1, <1>3, TimesFacts
  <2> QED
    BY <1>1, <1>3, <2>1 DEF q
<1>4. CASE p + 1 < q
  <2>1. (p + 1) * n + n <= q * n
    <3>1. (p + 2) * n <= q * n
      BY <1>1, <1>4, TimesFacts
    <3>2. (p + 1 + 1) * n = (p + 1) * n + n
      BY TimesFacts
    <3> QED
      BY <3>1, <3>2
  <2>2. (p + 1) * n = p * n + n
    BY TimesFacts
  <2> QED
    BY <1>1, <1>4, <2>1, <2>2 DEF q
<1> QED
  BY <1>1, <1>2, <1>3, <1>4

\* A page holds the users from its offset on, as many as there are and fit.
LEMMA PageFacts ==
  ASSUME NEW p \in Nat, NEW n \in Nat \ {0}, users \in Nat
  PROVE  LET P == PageOf(Table, [page |-> p, size |-> n])
         IN  /\ P \in Seq(Nat)
             /\ \A i \in 1..Len(P) : P[i] = p * n + i /\ P[i] \in 1..users
             /\ users <= p * n => Len(P) = 0
             /\ p * n < users => Len(P) = IF p * n + n < users THEN n ELSE users - p * n
<1> DEFINE off == p * n
           end == IF off + n < users THEN off + n ELSE users
           P == PageOf(Table, [page |-> p, size |-> n])
<1>1. off \in Nat
  OBVIOUS
<1>2. Table \in Seq(Nat) /\ Len(Table) = users /\ \A i \in 1..users : Table[i] = i
  BY DEF Table
<1>3. P = SubSeq(Table, off + 1, end)
  BY <1>2 DEF PageOf, Offset
<1> HIDE DEF off, P
<1>4. CASE off < users
  <2>1. /\ P \in Seq(Nat) /\ Len(P) = end - off
        /\ \A i \in 1..Len(P) : P[i] = Table[off + i]
    BY <1>1, <1>2, <1>3, <1>4
  <2>2. \A i \in 1..Len(P) : off + i \in 1..users
    BY <1>1, <1>4, <2>1
  <2>3. \A i \in 1..Len(P) : P[i] = off + i /\ P[i] \in 1..users
    BY <1>2, <2>1, <2>2
  <2>4. Len(P) = IF off + n < users THEN n ELSE users - off
    BY <1>1, <1>4, <2>1
  <2>5. ~(users <= off)
    BY <1>1, <1>4
  <2> QED
    BY <2>1, <2>3, <2>4, <2>5 DEF off, P
<1>5. CASE users <= off
  <2>1. P \in Seq(Nat) /\ Len(P) = 0
    BY <1>1, <1>2, <1>3, <1>5
  <2> QED
    BY <1>1, <1>5, <2>1 DEF off, P
<1> QED
  BY <1>1, <1>4, <1>5

\* The types the proofs need; how far a walk leads is not among them.
WalkTypes ==
  /\ users \in Nat \ {0} /\ atStart \in Nat /\ atStart <= users
  /\ walk \in {"next", "prev"}
  /\ size \in Nat \ {0} /\ start \in Nat
  /\ step \in {"start", "walking", "done", "refused", "failed"}
  /\ seen \in Seq(Nat) /\ \A i \in 1..Len(seen) : seen[i] \in 1..users
  /\ step = "start" => url = start /\ seen = <<>>
  /\ step = "walking" => url \in Nat

\* Along "next": what was seen lies before the page that comes next, in order.  A walk
\* that did not start behind the last page has seen all from its start up to there, and
\* there is somebody on the page that comes next.
NextInv ==
  walk = "next" =>
    /\ \A i, j \in 1..Len(seen) : i < j => seen[i] < seen[j]
    /\ step = "walking" => \A i \in 1..Len(seen) : seen[i] <= url * size
    /\ step # "start" /\ start * size < atStart =>
         /\ \A i \in 1..Len(seen) : seen[i] = start * size + i
         /\ step = "walking" => Len(seen) = url * size - start * size /\ url * size < users
         /\ step = "done" => start * size + Len(seen) >= atStart

\* Along "prev": what was seen lies behind the page that comes next, and is all that was
\* there at the start.
PrevInv ==
  walk = "prev" =>
    /\ \A i, j \in 1..Len(seen) : seen[i] = seen[j] => i = j
    /\ step = "walking" =>
         /\ \A i \in 1..Len(seen) : seen[i] > url * size + size
         /\ \A u \in 1..atStart : u > url * size + size => \E i \in 1..Len(seen) : seen[i] = u
    /\ step = "done" => \A u \in 1..atStart : \E i \in 1..Len(seen) : seen[i] = u

IInv == WalkTypes /\ NextInv /\ PrevInv

LEMMA InitInv == Init => IInv
<1> SUFFICES ASSUME Init
             PROVE  IInv
  OBVIOUS
<1>1. WalkTypes
  BY SizesAssumption, SeededAssumption, MaxPageAssumption DEF Init, WalkTypes
<1>2. seen = <<>> /\ step = "start"
  BY DEF Init
<1> QED
  BY <1>1, <1>2 DEF IInv, NextInv, PrevInv

LEMMA CreateUserKeeps == IInv /\ CreateUser => IInv'
<1> SUFFICES ASSUME IInv, CreateUser
             PROVE  IInv'
  OBVIOUS
<1>1. users' = users + 1 /\ UNCHANGED <<walk, size, start, url, step, seen, atStart>>
  BY DEF CreateUser
<1>2. WalkTypes'
  BY <1>1 DEF IInv, WalkTypes
<1>3. NextInv'
  <2>1. url * size < users => url * size < users + 1 \/ step # "walking"
    BY DEF IInv, WalkTypes
  <2> QED
    BY <1>1, <2>1 DEF IInv, NextInv
<1>4. PrevInv'
  BY <1>1 DEF IInv, PrevInv
<1> QED
  BY <1>2, <1>3, <1>4 DEF IInv

LEMMA RefuseKeeps == IInv /\ (Refuse \/ ListingFails) => IInv'
<1> SUFFICES ASSUME IInv, Refuse \/ ListingFails
             PROVE  IInv'
  OBVIOUS
<1>1. /\ step' \in {"refused", "failed"}
      /\ UNCHANGED <<users, walk, size, start, url, seen, atStart>>
  BY DEF Refuse, ListingFails
<1>2. WalkTypes'
  BY <1>1 DEF IInv, WalkTypes
<1>3. step = "start" => seen = <<>>
  BY DEF IInv, WalkTypes
<1>4. NextInv' /\ PrevInv'
  BY <1>1, <1>3 DEF IInv, NextInv, PrevInv
<1> QED
  BY <1>2, <1>4 DEF IInv

LEMMA FindLastKeeps == IInv /\ FindLast => IInv'
<1> SUFFICES ASSUME IInv, FindLast
             PROVE  IInv'
  OBVIOUS
<1>1. /\ step = "start" /\ walk = "prev" /\ step' = "walking" /\ atStart' = users
      /\ url' = TotalPages(users, size) - 1
      /\ UNCHANGED <<users, walk, size, start, seen>>
  BY DEF FindLast, LastLink
<1>2. users \in Nat \ {0} /\ size \in Nat \ {0} /\ seen = <<>>
  BY <1>1 DEF IInv, WalkTypes
<1>3. url' \in Nat
  <2> DEFINE q == TotalPages(users, size)
  <2>1. q \in Nat /\ q > 0
    BY <1>2, TotalPagesFacts
  <2>2. url' = q - 1
    BY <1>1
  <2> HIDE DEF q
  <2> QED
    BY <2>1, <2>2
<1>4. url' * size + size >= users
  BY <1>1, <1>2, <1>3, LastPageFacts
<1>5. WalkTypes'
  BY <1>1, <1>2, <1>3 DEF IInv, WalkTypes
<1>6. NextInv'
  BY <1>1 DEF NextInv
<1>7. PrevInv'
  <2>1. url' * size \in Nat
    BY <1>2, <1>3, TimesFacts
  <2>2. \A u \in 1..users : ~(u > url' * size + size)
    BY <1>2, <1>4, <2>1
  <2> QED
    BY <1>1, <1>2, <2>2 DEF PrevInv
<1> QED
  BY <1>5, <1>6, <1>7 DEF IInv

\* What a page adds to what was seen.
LEMMA FetchFacts ==
  ASSUME IInv, Fetch
  PROVE  /\ url \in Nat /\ size \in Nat \ {0} /\ start \in Nat /\ users \in Nat \ {0}
         /\ url * size \in Nat /\ start * size \in Nat
         /\ atStart' \in Nat /\ atStart' <= users
         /\ seen \in Seq(Nat) /\ seen' \in Seq(Nat) /\ Len(seen') >= Len(seen)
         /\ \A i \in 1..Len(seen) : seen'[i] = seen[i]
         /\ \A i \in 1..Len(seen') : i > Len(seen) =>
               /\ seen'[i] = url * size + (i - Len(seen))
               /\ seen'[i] \in 1..users /\ seen'[i] <= url * size + size
         /\ users <= url * size => Len(seen') = Len(seen)
         /\ url * size < users => Len(seen') = Len(seen) +
               (IF url * size + size < users THEN size ELSE users - url * size)
<1> DEFINE P == PageOf(Table, [page |-> url, size |-> size])
           U == url * size
<1>1. /\ url \in Nat /\ size \in Nat \ {0} /\ start \in Nat /\ users \in Nat \ {0}
      /\ atStart' \in Nat /\ atStart' <= users /\ seen \in Seq(Nat)
  BY DEF IInv, WalkTypes, Fetch
<1>2. U \in Nat /\ start * size \in Nat
  BY <1>1
<1>3. /\ P \in Seq(Nat)
      /\ \A i \in 1..Len(P) : P[i] = U + i /\ P[i] \in 1..users
      /\ users <= U => Len(P) = 0
      /\ U < users => Len(P) = IF U + size < users THEN size ELSE users - U
  BY <1>1, PageFacts
<1>4. seen' = seen \o P
  BY DEF Fetch
<1> HIDE DEF P, U
<1>5. Len(P) <= size /\ Len(P) \in Nat /\ Len(seen) \in Nat
  BY <1>1, <1>2, <1>3
<1>6. /\ seen' \in Seq(Nat) /\ Len(seen') = Len(seen) + Len(P)
      /\ \A i \in 1..Len(seen) : seen'[i] = seen[i]
      /\ \A i \in 1..Len(seen') : i > Len(seen) => seen'[i] = P[i - Len(seen)]
  BY <1>1, <1>3, <1>4
<1>7. \A i \in 1..Len(seen') : i > Len(seen) =>
        seen'[i] = U + (i - Len(seen)) /\ seen'[i] \in 1..users /\ seen'[i] <= U + size
  <2> SUFFICES ASSUME NEW i \in 1..Len(seen'), i > Len(seen)
               PROVE  seen'[i] = U + (i - Len(seen)) /\ seen'[i] \in 1..users
                      /\ seen'[i] <= U + size
    OBVIOUS
  <2> DEFINE m == i - Len(seen)
  <2>1. m \in 1..Len(P)
    BY <1>5, <1>6
  <2>2. seen'[i] = P[m]
    BY <1>6
  <2>3. P[m] = U + m /\ P[m] \in 1..users
    BY <1>3, <2>1
  <2>4. m <= size
    BY <1>1, <1>5, <2>1
  <2> HIDE DEF m
  <2>5. seen'[i] = U + m /\ seen'[i] \in 1..users /\ seen'[i] <= U + size
    BY <1>1, <1>2, <1>5, <2>1, <2>2, <2>3, <2>4
  <2> QED
    BY <2>5 DEF m
<1>8. /\ Len(seen') >= Len(seen)
      /\ users <= U => Len(seen') = Len(seen)
      /\ U < users => Len(seen') = Len(seen) + (IF U + size < users THEN size ELSE users - U)
  BY <1>3, <1>5, <1>6
<1> QED
  BY <1>1, <1>2, <1>6, <1>7, <1>8 DEF U

LEMMA FetchTypes ==
  ASSUME IInv, Fetch
  PROVE  /\ WalkTypes'
         /\ UNCHANGED <<users, walk, size, start>>
         /\ step \in {"start", "walking"}
         /\ step' \in {"walking", "done"}
         /\ step = "start" => walk = "next" /\ url = start /\ seen = <<>> /\ atStart' = users
         /\ step = "walking" => atStart' = atStart
<1>1. /\ UNCHANGED <<users, walk, size, start>>
      /\ step \in {"start", "walking"} /\ step' \in {"walking", "done"}
      /\ step' = IF url' = NoLink THEN "done" ELSE "walking"
      /\ url' = IF walk = "next" THEN NextLink(url, users, size) ELSE PrevLink(url)
  BY DEF Fetch
<1>2. url' = NoLink \/ url' \in Nat
  <2>1. url \in Nat
    BY FetchFacts
  <2> QED
    BY <1>1, <2>1 DEF NextLink, PrevLink
<1>3. \A i \in 1..Len(seen') : seen'[i] \in 1..users
  <2> SUFFICES ASSUME NEW i \in 1..Len(seen')
               PROVE  seen'[i] \in 1..users
    OBVIOUS
  <2>1. CASE i > Len(seen)
    BY <2>1, FetchFacts
  <2>2. CASE ~(i > Len(seen))
    <3>1. i \in 1..Len(seen)
      BY <2>2, FetchFacts
    <3> QED
      BY <3>1, FetchFacts DEF IInv, WalkTypes
  <2> QED
    BY <2>1, <2>2
<1>4. WalkTypes'
  BY <1>1, <1>2, <1>3, FetchFacts DEF IInv, WalkTypes
<1>5. /\ step = "start" => walk = "next" /\ url = start /\ seen = <<>> /\ atStart' = users
      /\ step = "walking" => atStart' = atStart
  BY DEF Fetch, IInv, WalkTypes
<1> QED
  BY <1>1, <1>4, <1>5

LEMMA FetchNext ==
  ASSUME IInv, Fetch, walk = "next"
  PROVE  NextInv'
<1> DEFINE U == url * size
           Z == start * size
           k == Len(seen)
<1>1. /\ url \in Nat /\ size \in Nat \ {0} /\ start \in Nat /\ users \in Nat \ {0}
      /\ U \in Nat /\ Z \in Nat /\ k \in Nat /\ seen \in Seq(Nat) /\ seen' \in Seq(Nat)
      /\ atStart' \in Nat /\ atStart' <= users
      /\ Len(seen') \in Nat /\ Len(seen') >= k
  BY FetchFacts
<1>2. \A i \in 1..k : seen'[i] = seen[i]
  BY FetchFacts
<1>3. \A i \in 1..Len(seen') : i > k => seen'[i] = U + (i - k) /\ seen'[i] <= U + size
  BY FetchFacts
<1>4. U < users => Len(seen') = k + (IF U + size < users THEN size ELSE users - U)
  BY FetchFacts
<1>5. /\ step \in {"start", "walking"} /\ step' \in {"walking", "done"}
      /\ step = "start" => url = start /\ seen = <<>> /\ atStart' = users
      /\ step = "walking" => atStart' = atStart
      /\ UNCHANGED <<users, walk, size, start>>
  BY FetchTypes
<1>6. /\ step' = "walking" => url' = url + 1 /\ url # TotalPages(users, size) - 1
      /\ step' = "done" => url = TotalPages(users, size) - 1
  BY <1>1 DEF Fetch, NextLink, NoLink
<1>7. /\ \A i, j \in 1..k : i < j => seen[i] < seen[j]
      /\ \A i \in 1..k : seen[i] <= U /\ seen[i] \in Nat
  BY <1>1, SMTT(30), <1>5 DEF IInv, NextInv, WalkTypes
<1>8. Z < atStart' => U < users /\ k = U - Z /\ \A i \in 1..k : seen[i] = Z + i
  <2>1. CASE step = "start"
    <3>1. k = 0 /\ U = Z
      BY <1>5, <2>1
    <3> HIDE DEF U, Z, k
    <3> QED
      BY <1>1, <1>5, <2>1, <3>1
  <2>2. CASE step = "walking"
    BY <1>5, <2>2 DEF IInv, NextInv
  <2> QED
    BY <1>5, <2>1, <2>2
<1>9. step' = "walking" => url' * size = U + size
  BY <1>1, <1>6, TimesFacts
<1>10. /\ step' = "done" => U + size >= users
       /\ step' = "walking" /\ U < users => U + size < users
  BY <1>1, <1>6, LastPageFacts
<1> HIDE DEF U, Z, k
<1>11. ASSUME NEW i \in 1..Len(seen'), NEW j \in 1..Len(seen'), i < j
       PROVE  seen'[i] < seen'[j]
  <2>1. CASE j <= k
    <3>1. i \in 1..k /\ j \in 1..k
      BY <1>1, <1>11, <2>1
    <3> QED
      BY <1>2, <1>7, <1>11, <3>1
  <2>2. CASE i <= k /\ j > k
    <3>1. i \in 1..k
      BY <1>1, <2>2
    <3>2. seen'[i] <= U /\ seen'[i] \in Nat
      BY <1>2, <1>7, <3>1
    <3>3. seen'[j] = U + (j - k)
      BY <1>3, <2>2
    <3> QED
      BY <1>1, <2>2, <3>2, <3>3
  <2>3. CASE i > k
    <3>1. seen'[i] = U + (i - k) /\ seen'[j] = U + (j - k)
      BY <1>1, <1>3, <1>11, <2>3
    <3> QED
      BY <1>1, <1>11, <3>1
  <2> QED
    BY <1>1, <2>1, <2>2, <2>3
<1>12. ASSUME step' = "walking", NEW i \in 1..Len(seen')
       PROVE  seen'[i] <= url' * size
  <2>1. CASE i <= k
    <3>1. i \in 1..k
      BY <1>1, <2>1
    <3>2. seen'[i] <= U /\ seen'[i] \in Nat
      BY <1>2, <1>7, <3>1
    <3> QED
      BY <1>1, <1>9, <1>12, <3>2
  <2>2. CASE i > k
    BY <1>1, <1>3, <1>9, <1>12, <2>2
  <2> QED
    BY <1>1, <2>1, <2>2
<1>13. ASSUME Z < atStart'
       PROVE  /\ \A i \in 1..Len(seen') : seen'[i] = Z + i
              /\ step' = "walking" => Len(seen') = url' * size - Z /\ url' * size < users
              /\ step' = "done" => Z + Len(seen') >= atStart'
  <2>1. \A i \in 1..Len(seen') : seen'[i] = Z + i
    <3> SUFFICES ASSUME NEW i \in 1..Len(seen')
                 PROVE  seen'[i] = Z + i
      OBVIOUS
    <3>1. CASE i <= k
      <4>1. i \in 1..k
        BY <1>1, <3>1
      <4> QED
        BY <1>2, <1>8, <1>13, <4>1
    <3>2. CASE i > k
      <4>1. seen'[i] = U + (i - k) /\ k = U - Z
        BY <1>3, <1>8, <1>13, <3>2
      <4> QED
        BY <1>1, <4>1
    <3> QED
      BY <1>1, <3>1, <3>2
  <2>2. step' = "walking" => Len(seen') = url' * size - Z /\ url' * size < users
    <3>1. U < users /\ k = U - Z
      BY <1>8, <1>13
    <3> QED
      BY <1>1, <1>4, <1>9, <1>10, <3>1
  <2>3. step' = "done" => Z + Len(seen') >= atStart'
    BY <1>1, <1>4, <1>8, <1>10, <1>13
  <2> QED
    BY <2>1, <2>2, <2>3
<1> QED
  BY <1>5, <1>11, <1>12, <1>13 DEF NextInv, Z

LEMMA FetchPrev ==
  ASSUME IInv, Fetch, walk = "prev"
  PROVE  PrevInv'
<1> DEFINE U == url * size
           k == Len(seen)
<1>1. /\ url \in Nat /\ size \in Nat \ {0} /\ users \in Nat \ {0}
      /\ U \in Nat /\ k \in Nat /\ seen \in Seq(Nat) /\ seen' \in Seq(Nat)
      /\ atStart' \in Nat /\ atStart' <= users
      /\ Len(seen') \in Nat /\ Len(seen') >= k
  BY FetchFacts
<1>2. \A i \in 1..k : seen'[i] = seen[i]
  BY FetchFacts
<1>3. \A i \in 1..Len(seen') : i > k => seen'[i] = U + (i - k) /\ seen'[i] <= U + size
  BY FetchFacts
<1>4. U < users => Len(seen') = k + (IF U + size < users THEN size ELSE users - U)
  BY FetchFacts
<1>5. /\ step = "walking" /\ atStart' = atStart
      /\ step' \in {"walking", "done"}
      /\ UNCHANGED <<users, walk, size, start>>
  BY FetchTypes
<1>6. /\ step' = "walking" => url = url' + 1 /\ url' \in Nat
      /\ step' = "done" => url = 0
  BY <1>1 DEF Fetch, PrevLink, NoLink
<1>7. /\ \A i, j \in 1..k : seen[i] = seen[j] => i = j
      /\ \A i \in 1..k : seen[i] > U + size /\ seen[i] \in Nat
      /\ \A u \in 1..atStart : u > U + size => \E i \in 1..k : seen[i] = u
  BY <1>1, <1>5 DEF IInv, PrevInv, WalkTypes
<1>8. step' = "walking" => url' * size \in Nat /\ url' * size + size = U
  BY <1>1, <1>6, TimesFacts
<1>9. step' = "done" => U = 0
  BY <1>1, <1>6
<1> HIDE DEF U, k
\* Everybody behind the offset of this page has been seen now.
<1>10. ASSUME NEW u \in 1..atStart', u > U
       PROVE  \E i \in 1..Len(seen') : seen'[i] = u
  <2>1. CASE u > U + size
    <3>1. PICK i \in 1..k : seen[i] = u
      BY <1>5, <1>7, <1>10, <2>1
    <3>2. i \in 1..Len(seen') /\ seen'[i] = u
      BY <1>1, <1>2, <3>1
    <3> QED
      BY <3>2
  <2>2. CASE u <= U + size
    <3> DEFINE i == k + (u - U)
    <3>1. U < users /\ u <= users /\ u - U <= size
      BY <1>1, <1>10, <2>2
    <3>2. i \in 1..Len(seen') /\ i > k /\ i - k = u - U
      BY <1>1, <1>4, <1>10, <3>1
    <3>3. seen'[i] = U + (i - k)
      BY <1>3, <3>2
    <3>4. seen'[i] = u
      BY <1>1, <1>10, <3>2, <3>3
    <3> QED
      BY <3>2, <3>4
  <2> QED
    BY <1>1, <1>10, <2>1, <2>2
<1>11. ASSUME NEW i \in 1..Len(seen'), NEW j \in 1..Len(seen'), seen'[i] = seen'[j]
       PROVE  i = j
  <2>1. CASE i \in 1..k /\ j \in 1..k
    <3>1. seen[i] = seen[j]
      BY <1>2, <1>11, <2>1
    <3> QED
      BY <1>7, <2>1, <3>1
  <2>2. ASSUME NEW a \in 1..Len(seen'), NEW b \in 1..Len(seen'), a \in 1..k, b > k
        PROVE  seen'[a] # seen'[b]
    <3>1. seen'[a] > U + size /\ seen'[a] \in Nat
      BY <1>2, <1>7, <2>2
    <3>2. seen'[b] <= U + size /\ seen'[b] = U + (b - k)
      BY <1>3, <2>2
    <3> QED
      BY <1>1, <3>1, <3>2
  <2>3. CASE i > k /\ j > k
    <3>1. seen'[i] = U + (i - k) /\ seen'[j] = U + (j - k)
      BY <1>3, <2>3
    <3>2. U + (i - k) = U + (j - k)
      BY <1>11, <3>1
    <3>3. i \in Nat /\ j \in Nat
      BY <1>1
    <3> QED
      BY <1>1, <3>2, <3>3
  <2>4. (i \in 1..k \/ i > k) /\ (j \in 1..k \/ j > k)
    BY <1>1
  <2> QED
    BY <1>11, <2>1, <2>2, <2>3, <2>4
<1>12. ASSUME step' = "walking", NEW i \in 1..Len(seen')
       PROVE  seen'[i] > url' * size + size
  <2>1. CASE i \in 1..k
    <3>1. seen'[i] > U + size /\ seen'[i] \in Nat
      BY <1>2, <1>7, <2>1
    <3> QED
      BY <1>1, <1>8, <1>12, <3>1
  <2>2. CASE i > k
    <3>1. seen'[i] = U + (i - k)
      BY <1>3, <2>2
    <3> QED
      BY <1>1, <1>8, <1>12, <2>2, <3>1
  <2> QED
    BY <1>1, <2>1, <2>2
<1>13. step' = "walking" =>
         \A u \in 1..atStart' : u > url' * size + size =>
           \E i \in 1..Len(seen') : seen'[i] = u
  BY <1>5, <1>8, <1>10
<1>14. step' = "done" => \A u \in 1..atStart' : \E i \in 1..Len(seen') : seen'[i] = u
  <2>1. ASSUME step' = "done", NEW u \in 1..atStart'
        PROVE  u > U
    BY <1>1, <1>9, <2>1
  <2> QED
    BY <1>10, <2>1
<1>15. UNCHANGED <<size, walk>>
  BY <1>5
<1> QED
  BY <1>11, <1>12, <1>13, <1>14, <1>15 DEF PrevInv

LEMMA FetchKeeps == IInv /\ Fetch => IInv'
<1> SUFFICES ASSUME IInv, Fetch
             PROVE  IInv'
  OBVIOUS
<1>1. WalkTypes' /\ walk' = walk
  BY FetchTypes
<1>2. CASE walk = "next"
  <2>1. PrevInv'
    BY <1>1, <1>2 DEF PrevInv
  <2> QED
    BY <1>1, <1>2, <2>1, FetchNext DEF IInv
<1>3. CASE walk = "prev"
  <2>1. NextInv'
    BY <1>1, <1>3 DEF NextInv
  <2> QED
    BY <1>1, <1>3, <2>1, FetchPrev DEF IInv
<1> QED
  BY <1>2, <1>3 DEF IInv, WalkTypes

\* IInv holds in every reachable state: the walk over pages that grow while it goes on
\* (users_handler.go lines 152-189).
THEOREM WalkInvariant == Spec => []IInv
<1>1. IInv /\ [Next]_vars => IInv'
  <2> SUFFICES ASSUME IInv, [Next]_vars
               PROVE  IInv'
    OBVIOUS
  <2>1. CASE CreateUser
    BY <2>1, CreateUserKeeps
  <2>2. CASE FindLast
    BY <2>2, FindLastKeeps
  <2>3. CASE Fetch
    BY <2>3, FetchKeeps
  <2>4. CASE Refuse \/ ListingFails
    BY <2>4, RefuseKeeps
  <2>5. CASE VisitUser
    BY <2>5 DEF VisitUser, IInv, WalkTypes, NextInv, PrevInv
  <2>6. CASE UNCHANGED vars
    BY <2>6 DEF vars, IInv, WalkTypes, NextInv, PrevInv
  <2> QED
    BY <2>1, <2>2, <2>3, <2>4, <2>5, <2>6 DEF Next, Request
<1> QED
  BY <1>1, InitInv, PTL DEF Spec

\* Along "next" nobody is shown twice and, from a start before the end, nobody is left
\* out, for every page size and any number of users that join meanwhile.
THEOREM NextWalkKeepsOrder == Spec => []NextWalkInOrder
<1>1. IInv => NextWalkInOrder
  <2> SUFFICES ASSUME IInv, walk = "next"
               PROVE  /\ \A i, j \in 1..Len(seen) : i < j => seen[i] < seen[j]
                      /\ start * size < atStart =>
                           \A i \in 1..Len(seen) : seen[i] = start * size + i
    BY DEF NextWalkInOrder
  <2>1. step = "start" => Len(seen) = 0
    BY DEF IInv, WalkTypes
  <2> QED
    BY <2>1 DEF IInv, NextInv
<1> QED
  BY <1>1, WalkInvariant, PTL

\* When the links end, the walk from the first page or from the last has shown every
\* user there was at its first request, once, for every page size.
THEOREM WalkShowsEverybody == Spec => []WalkIsComplete
<1>1. IInv => WalkIsComplete
  <2> SUFFICES ASSUME IInv, step = "done", walk = "next" => start = 0
               PROVE  /\ \A u \in 1..atStart : \E i \in 1..Len(seen) : seen[i] = u
                      /\ \A i, j \in 1..Len(seen) : seen[i] = seen[j] => i = j
    BY DEF WalkIsComplete
  <2>1. atStart \in Nat /\ Len(seen) \in Nat /\ size \in Nat
    BY DEF IInv, WalkTypes
  <2>2. CASE walk = "prev"
    BY <2>2 DEF IInv, PrevInv
  <2>3. CASE walk = "next"
    <3>1. start * size = 0
      BY <2>1, <2>3
    <3>2. \A i, j \in 1..Len(seen) : i < j => seen[i] < seen[j]
      BY <2>3 DEF IInv, NextInv
    <3>3. \A i, j \in 1..Len(seen) : seen[i] = seen[j] => i = j
      <4>1. \A i \in 1..Len(seen) : seen[i] \in Nat
        BY DEF IInv, WalkTypes
      <4> QED
        BY <2>1, <3>2, <4>1
    <3>4. 0 < atStart => /\ \A i \in 1..Len(seen) : seen[i] = i
                         /\ Len(seen) >= atStart
      BY <2>1, <2>3, <3>1 DEF IInv, NextInv
    <3>5. ASSUME NEW u \in 1..atStart
          PROVE  \E i \in 1..Len(seen) : seen[i] = u
      <4>1. u \in 1..Len(seen)
        BY <2>1, <3>4, <3>5
      <4>2. seen[u] = u
        BY <2>1, <3>4, <4>1
      <4> QED
        BY <4>1, <4>2
    <3> QED
      BY <3>3, <3>5
  <2> QED
    BY <2>2, <2>3 DEF IInv, WalkTypes
<1> QED
  BY <1>1, WalkInvariant, PTL

\* A sequence of numbers is a sequence of the numbers in it.
LEMMA SeqOfItsOwn ==
  ASSUME NEW s \in Seq(Nat), NEW n \in Nat, \A i \in 1..Len(s) : s[i] \in 1..n
  PROVE  s \in Seq(1..n)
<1>1. Len(s) \in Nat /\ s = [i \in 1..Len(s) |-> s[i]]
  OBVIOUS
<1>2. s \in [1..Len(s) -> 1..n]
  BY <1>1
<1> QED
  BY <1>1, <1>2

\* The variables keep their types: a link is always a page number or none, so the
\* links of users_handler.go (lines 168-186) never ask for a page before the first.
THEOREM WalkKeepsTypes == Spec => []TypeOK
<1>1. Init => TypeOK
  BY SizesAssumption, SeededAssumption, MaxPageAssumption DEF Init, TypeOK
<1>2. TypeOK /\ IInv /\ IInv' /\ [Next]_vars => TypeOK'
  <2> SUFFICES ASSUME TypeOK, IInv, IInv', [Next]_vars
               PROVE  TypeOK'
    OBVIOUS
  <2>0. Seeded \in Nat \ {0} /\ MaxUsers \in Nat /\ users \in Seeded..MaxUsers /\ users' \in Nat
    BY SeededAssumption DEF TypeOK, IInv, WalkTypes
  <2>1. seen' \in Seq(1..users')
    BY <2>0, SeqOfItsOwn DEF IInv, WalkTypes
  <2>2. CASE CreateUser
    <3>1. users' \in Seeded..MaxUsers /\ atStart' \in Seeded..users'
      BY <2>0, <2>2 DEF CreateUser, TypeOK
    <3> QED
      BY <2>1, <2>2, <3>1 DEF CreateUser, TypeOK
  <2>3. CASE FindLast
    <3>1. url' \in Nat /\ atStart' \in Seeded..users'
      BY <2>0, <2>3 DEF FindLast, IInv, WalkTypes
    <3> QED
      BY <2>1, <2>3, <3>1 DEF FindLast, TypeOK
  <2>4. CASE Fetch
    <3>1. url' \in Nat \cup {NoLink}
      <4>1. step' \in {"done", "walking"} /\ (step' = "done" => url' = NoLink)
        BY <2>4 DEF Fetch, NoLink
      <4> QED
        BY <4>1 DEF IInv, WalkTypes
    <3>2. atStart' \in Seeded..users'
      BY <2>0, <2>4 DEF Fetch, TypeOK
    <3>3. UNCHANGED <<users, walk, size, start, visit>> /\ step' \in {"done", "walking"}
      BY <2>4 DEF Fetch
    <3> QED
      BY <2>1, <3>1, <3>2, <3>3 DEF TypeOK
  <2>5. CASE Refuse \/ ListingFails
    BY <2>1, <2>5 DEF Refuse, ListingFails, TypeOK
  <2>6. CASE VisitUser
    BY <2>1, <2>6 DEF VisitUser, TypeOK
  <2>7. CASE UNCHANGED vars
    BY <2>7 DEF vars, TypeOK
  <2> QED
    BY <2>2, <2>3, <2>4, <2>5, <2>6, <2>7 DEF Next, Request
<1> QED
  BY <1>1, <1>2, WalkInvariant, PTL DEF Spec

(***************************************************************************)
(* The links of users.                                                     *)
(***************************************************************************)
\* What an element added at the end, or at the front, does to a sequence.
LEMMA AppendFacts ==
  ASSUME NEW S, NEW s \in Seq(S), NEW x \in S
  PROVE  /\ Append(s, x) \in Seq(S) /\ Len(Append(s, x)) = Len(s) + 1
         /\ \A i \in 1..Len(s) : Append(s, x)[i] = s[i]
         /\ Append(s, x)[Len(s) + 1] = x
OBVIOUS

LEMMA ConcatFacts ==
  ASSUME NEW S, NEW s \in Seq(S), NEW x \in S
  PROVE  Len(<<x>> \o s) = Len(s) + 1 /\ (<<x>> \o s)[1] = x
OBVIOUS

\* The path of a user is the path of the users and the id.
LEMMA GetUserPathFacts ==
  ASSUME NEW id, NEW p, p = GetUserPath(id)
  PROVE  /\ p \in Seq({"api", "v1", "users", id})
         /\ Len(p) = 4 /\ p[1] = "api" /\ Front(p) = UsersPath /\ Last(p) = id
<1> DEFINE S == {"api", "v1", "users", id}
<1>1. /\ UsersPath \in Seq(S) /\ Len(UsersPath) = 3
      /\ UsersPath[1] = "api" /\ UsersPath[2] = "v1" /\ UsersPath[3] = "users"
  BY DEF UsersPath
<1>2. id \in S
  OBVIOUS
<1>3. p = Append(UsersPath, id)
  BY DEF GetUserPath
<1> HIDE DEF S
<1>4. /\ p \in Seq(S) /\ Len(p) = 4
      /\ p[1] = "api" /\ p[2] = "v1" /\ p[3] = "users" /\ p[4] = id
  <2>1. 1 \in 1..Len(UsersPath) /\ 2 \in 1..Len(UsersPath) /\ 3 \in 1..Len(UsersPath)
    BY <1>1
  <2> HIDE DEF S
  <2> DEFINE u == UsersPath
  <2>2. u \in Seq(S) /\ id \in S
    BY <1>1, <1>2
  <2>3. p = Append(u, id)
    BY <1>3
  <2> HIDE DEF u
  <2>4. /\ p \in Seq(S) /\ Len(p) = Len(u) + 1
        /\ \A i \in 1..Len(u) : p[i] = u[i]
        /\ p[Len(u) + 1] = id
    BY <2>2, <2>3, AppendFacts
  <2> QED
    BY <1>1, <2>1, <2>4 DEF u
<1>6. Front(p) = UsersPath
  <2> DEFINE q == SubSeq(p, 1, 3)
  <2>1. Front(p) = q
    BY <1>4 DEF Front
  <2>2. /\ q \in Seq(S) /\ Len(q) = 3
        /\ q[1] = p[1] /\ q[2] = p[2] /\ q[3] = p[3]
    BY <1>4
  <2> HIDE DEF q
  <2>3. q = UsersPath
    BY <1>1, <1>4, <2>2
  <2> QED
    BY <2>1, <2>3
<1>7. Last(p) = id
  BY <1>4 DEF Last
<1> QED
  BY <1>4, <1>6, <1>7 DEF S

\* The path the program builds for a user (paths.gen.go 68-75) reaches GetUser, for every id
\* but the empty one, whatever else the router matches before it.
THEOREM OwnPathsAreRouted ==
  ASSUME NEW id
  PROVE  id # "" => Route(GetUserPath(id)) = "GetUser"
<1> DEFINE p == GetUserPath(id)
<1>1. Len(p) = 4 /\ p[1] = "api" /\ Front(p) = UsersPath /\ Last(p) = id
  BY GetUserPathFacts
<1> HIDE DEF p
<1>2. /\ p # <<"actuators", "health">> /\ p # <<"actuators", "info">>
      /\ p # UsersPath /\ p # <<"metrics">> /\ p # <<"api", "docs">>
  <2>1. Len(UsersPath) = 3 /\ Len(<<"metrics">>) = 1 /\ Len(<<"api", "docs">>) = 2
    BY DEF UsersPath
  <2>2. Len(<<"actuators", "health">>) = 2 /\ Len(<<"actuators", "info">>) = 2
    OBVIOUS
  <2> QED
    BY <1>1, <2>1, <2>2
<1>3. p[1] # "swagger"
  BY <1>1
<1> QED
  BY <1>1, <1>2, <1>3, Zenon DEF Route, p

\* The link "self" of a user (users_handler.go line 207) reaches no handler, for any id: its
\* second slash opens an empty segment that no route begins with.
THEOREM SelfIsNotRouted ==
  ASSUME NEW id
  PROVE  Route(SelfPath(id)) = "NotFound"
<1> DEFINE p == SelfPath(id)
           e == ""
           S == {"api", "v1", "users", id, e}
           q == GetUserPath(id)
<1>1. q \in Seq(S) /\ Len(q) = 4
  <2>1. q \in Seq({"api", "v1", "users", id}) /\ Len(q) = 4
    BY GetUserPathFacts
  <2> DEFINE R == {"api", "v1", "users", id}
  <2>2. R \subseteq S
    OBVIOUS
  <2> HIDE DEF q, S
  <2> QED
    BY <2>1, <2>2
<1>2. e # "swagger"
  OBVIOUS
<1>3. p = <<e>> \o q
  BY DEF SelfPath
<1>4. e \in S
  OBVIOUS
<1> HIDE DEF p, q, e, S
<1>5. Len(p) = 5 /\ p[1] = e
  <2>1. Len(<<e>> \o q) = Len(q) + 1 /\ (<<e>> \o q)[1] = e
    BY <1>1, <1>4, ConcatFacts
  <2> QED
    BY <1>1, <1>3, <2>1
<1>6. /\ p # <<"actuators", "health">> /\ p # <<"actuators", "info">>
      /\ p # UsersPath /\ p # <<"metrics">> /\ p # <<"api", "docs">>
  <2>1. Len(UsersPath) = 3 /\ Len(<<"metrics">>) = 1 /\ Len(<<"api", "docs">>) = 2
    BY DEF UsersPath
  <2>2. Len(<<"actuators", "health">>) = 2 /\ Len(<<"actuators", "info">>) = 2
    OBVIOUS
  <2> QED
    BY <1>5, <2>1, <2>2
<1>7. Len(p) # 4 /\ p[1] # "swagger"
  BY <1>2, <1>5
<1> QED
  BY <1>6, <1>7, Zenon DEF Route, p
=============================================================================
