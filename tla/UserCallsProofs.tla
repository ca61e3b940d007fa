--------------------------- MODULE UserCallsProofs ---------------------------
(***************************************************************************)
(* Facts about the operators of UserCalls and Pagination, for tables and   *)
(* page requests of any size, that the proofs about the repository and     *)
(* about the two APIs share.                                               *)
(***************************************************************************)
EXTENDS UserCalls, FiniteSetTheorems, TLAPS

\* The empty table, and an empty page, are sequences of anything.
LEMMA EmptyIsSeq == \A S : <<>> \in Seq(S)
  OBVIOUS

\* The empty table has no rows.
LEMMA NoRows == Rows(<<>>) = {}
  BY DEF Rows

\* The rows of a table are what it is a sequence of.
LEMMA RowsOfSeq ==
  ASSUME NEW S, NEW s \in Seq(S)
  PROVE  Rows(s) \subseteq S
  BY DEF Rows

\* Appending a row keeps the rows before it, each in its place.
LEMMA RowsOfAppend ==
  ASSUME NEW S, NEW s \in Seq(S), NEW x \in S
  PROVE  /\ Append(s, x) \in Seq(S)
         /\ Rows(Append(s, x)) = Rows(s) \cup {x}
         /\ Len(Append(s, x)) > Len(s) /\ Len(s) <= Len(Append(s, x))
         /\ SubSeq(Append(s, x), 1, Len(s)) = s
<1> DEFINE t == Append(s, x)
<1>1. /\ t \in Seq(S) /\ Len(t) = Len(s) + 1 /\ Len(s) \in Nat
      /\ t[Len(s) + 1] = x /\ \A i \in 1..Len(s) : t[i] = s[i]
  OBVIOUS
<1> HIDE DEF t
<1>2. Rows(t) \subseteq Rows(s) \cup {x}
  <2> SUFFICES ASSUME NEW i \in 1..Len(t), i # Len(s) + 1
               PROVE  t[i] \in Rows(s)
    BY <1>1 DEF Rows
  <2>1. i \in 1..Len(s)
    BY <1>1
  <2> QED
    BY <2>1, <1>1 DEF Rows
<1>3. Rows(s) \subseteq Rows(t)
  <2> SUFFICES ASSUME NEW i \in 1..Len(s)
               PROVE  s[i] \in Rows(t)
    BY DEF Rows
  <2>1. i \in 1..Len(t) /\ t[i] = s[i]
    BY <1>1
  <2> QED
    BY <2>1 DEF Rows
<1>4. x \in Rows(t)
  <2>1. Len(s) + 1 \in 1..Len(t)
    BY <1>1
  <2> QED
    BY <2>1, <1>1 DEF Rows
<1>5. SubSeq(t, 1, Len(s)) = s
  <2>1. /\ SubSeq(t, 1, Len(s)) \in Seq(S)
        /\ Len(SubSeq(t, 1, Len(s))) = Len(s)
        /\ \A i \in 1..Len(s) : SubSeq(t, 1, Len(s))[i] = s[i]
    BY <1>1
  <2> QED
    BY <2>1
<1>6. /\ t \in Seq(S) /\ Rows(t) = Rows(s) \cup {x} /\ Len(t) > Len(s) /\ Len(s) <= Len(t)
      /\ SubSeq(t, 1, Len(s)) = s
  BY <1>1, <1>2, <1>3, <1>4, <1>5
<1> QED
  BY <1>6 DEF t

\* A table has no more different rows than rows.
LEMMA RowsCount ==
  ASSUME NEW S, NEW s \in Seq(S), NEW T \in SUBSET Rows(s)
  PROVE  /\ Len(s) \in Nat
         /\ IsFiniteSet(T) /\ Cardinality(T) \in Nat /\ Cardinality(T) <= Len(s)
<1>1. Len(s) \in Nat /\ DOMAIN s = 1..Len(s)
  OBVIOUS
<1>2. IsFiniteSet(1..Len(s)) /\ Cardinality(1..Len(s)) = Len(s)
  <2>1. 1 \in Int /\ Len(s) \in Int
    BY <1>1
  <2>2. IsFiniteSet(1..Len(s)) /\ Cardinality(1..Len(s)) = IF 1 > Len(s) THEN 0 ELSE Len(s) - 1 + 1
    BY <2>1, FS_Interval
  <2> QED
    BY <1>1, <2>2
<1>3. s \in Surjection(1..Len(s), Rows(s))
  <2>1. s \in [1..Len(s) -> Rows(s)]
    BY <1>1 DEF Rows
  <2> QED
    BY <2>1 DEF Surjection, Rows
<1>4. IsFiniteSet(Rows(s)) /\ Cardinality(Rows(s)) <= Len(s)
  BY <1>2, <1>3, FS_Surjection
<1>5. IsFiniteSet(T) /\ Cardinality(T) <= Cardinality(Rows(s))
  BY <1>4, FS_Subset
<1>6. Cardinality(T) \in Nat /\ Cardinality(Rows(s)) \in Nat
  BY <1>4, <1>5, FS_CardinalityType
<1> QED
  BY <1>1, <1>4, <1>5, <1>6

\* A page has the length PageLen says, at any offset.
LEMMA PageOfLength ==
  ASSUME NEW S, NEW s \in Seq(S), NEW pr \in [page : Nat, size : Nat]
  PROVE  /\ PageOf(s, pr) \in Seq(S)
         /\ Len(PageOf(s, pr)) = PageLen(Len(s), pr)
<1> DEFINE off == pr.page * pr.size
           end == IF off + pr.size < Len(s) THEN off + pr.size ELSE Len(s)
<1>1. /\ pr.page \in Nat /\ pr.size \in Nat
  OBVIOUS
<1>2. off \in Nat
  BY <1>1
<1>3. Len(s) \in Nat
  OBVIOUS
<1>4. PageOf(s, pr) = SubSeq(s, off + 1, end)
  BY DEF PageOf, Offset
<1>5. PageLen(Len(s), pr) = IF off >= Len(s) THEN 0
        ELSE IF Len(s) - off < pr.size THEN Len(s) - off ELSE pr.size
  BY DEF PageLen, Offset
<1> HIDE DEF off
<1>6. (end \in 0..Len(s) /\ off + 1 \in 1..(Len(s) + 1)) \/ off >= Len(s)
  BY <1>1, <1>2, <1>3
<1>7. CASE off >= Len(s)
  BY <1>1, <1>2, <1>3, <1>4, <1>5, <1>7
<1>8. CASE off < Len(s)
  BY <1>1, <1>2, <1>3, <1>4, <1>5, <1>8
<1> QED BY <1>2, <1>3, <1>7, <1>8

\* A first page with room for all rows is the table.
LEMMA FirstPageIsAll ==
  ASSUME NEW S, NEW s \in Seq(S), NEW n \in Nat, Len(s) <= n
  PROVE  PageOf(s, [page |-> 0, size |-> n]) = s
<1> DEFINE pr == [page |-> 0, size |-> n]
<1>1. Offset(pr) = 0 /\ Len(s) \in Nat
  BY DEF Offset
<1>2. PageOf(s, pr) = SubSeq(s, 1, Len(s))
  BY <1>1 DEF PageOf
<1>3. SubSeq(s, 1, Len(s)) = s
  OBVIOUS
<1> QED
  BY <1>2, <1>3

\* A request carries what its operation needs.
LEMMA RequestFacts ==
  ASSUME NEW r \in Requests
  PROVE  /\ r.op = "create" => r.name \in Names
         /\ r.op = "list" => r.pr \in [page : Nat, size : Nat]
<1>1. CASE r \in Creates
  BY <1>1 DEF Creates
<1>2. CASE r \in Lists
  BY <1>2, PageRequestsAssumption DEF Lists
<1>3. CASE r \in Gets
  BY <1>3 DEF Gets
<1> QED BY <1>1, <1>2, <1>3 DEF Requests

\* The outcomes of the calls, and which of them are pages.
LEMMA OutcomeFacts ==
  /\ \A why \in Failures : Failed(why) \in Outcomes /\ Failed(why).kind # "page"
  /\ {NoOut, Created, Found} \subseteq Outcomes
  /\ NoOut.kind # "page" /\ Created.kind # "page" /\ Found.kind # "page"
  /\ \A s \in Seq(Names), n \in Nat :
        /\ PageFound(s, n) \in Outcomes
        /\ PageFound(s, n).kind = "page"
        /\ PageFound(s, n).content = s /\ PageFound(s, n).total = n
  /\ {"invalid", "closed", "cancelled", "notfound"} \subseteq Failures
  BY DEF Failures, Outcomes, Failed, NoOut, Created, Found, PageFound
=============================================================================
