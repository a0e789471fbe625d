-------------------------- MODULE Pagination_proofs --------------------------
(* Proofs about Pagination: what the order of a query and the Paginator do to
   any finite set of ids. *)
EXTENDS Pagination, FiniteSetTheorems, SequenceTheorems, TLAPS

(* The rows a query passes before and after the row of a cursor. *)
Passed(ids, order, c) == {y \in ids : Precedes(order, y, c)}
Left(ids, order, c) == {y \in ids : Precedes(order, c, y)}

-----------------------------------------------------------------------------
(* An injective numbering of a finite set by as many numbers reaches all. *)
LEMMA NumberingReachesAll ==
    ASSUME NEW S, IsFiniteSet(S), NEW f \in [S -> 0 .. Cardinality(S) - 1],
           \A a, b \in S : f[a] = f[b] => a = b
    PROVE  \A k \in 0 .. Cardinality(S) - 1 : \E x \in S : f[x] = k
<1> DEFINE T == 0 .. Cardinality(S) - 1
<1>1. Cardinality(S) \in Nat
  BY FS_CardinalityType
<1>2. IsFiniteSet(T) /\ Cardinality(T) = Cardinality(S)
  BY SMTT(20), <1>1, FS_Interval
<1>3. f \in Injection(S, T)
  BY DEF Injection, IsInjective
<1> HIDE DEF T
<1>4. f \in Surjection(S, T)
  BY <1>2, <1>3, FS_Injection
<1> QED
  BY <1>4 DEF Surjection, T

LEMMA OneOrder ==
    ASSUME NEW order, NEW a \in Int, NEW b \in Int
    PROVE  /\ a = b \/ Precedes(order, a, b) \/ Precedes(order, b, a)
           /\ ~Precedes(order, a, a) /\ ~(Precedes(order, a, b) /\ Precedes(order, b, a))
           /\ \A c \in Int : Precedes(order, a, b) /\ Precedes(order, b, c) => Precedes(order, a, c)
BY DEF Precedes

LEMMA RankType ==
    ASSUME NEW ids \in SUBSET Int, IsFiniteSet(ids), NEW order, NEW x \in ids
    PROVE  /\ Rank(ids, order, x) \in 0 .. Cardinality(ids) - 1
           /\ IsFiniteSet(Passed(ids, order, x)) /\ IsFiniteSet(Left(ids, order, x))
<1>1. Passed(ids, order, x) \subseteq ids \ {x} /\ Left(ids, order, x) \subseteq ids \ {x}
  BY OneOrder DEF Passed, Left
<1>2. IsFiniteSet(ids \ {x}) /\ Cardinality(ids \ {x}) = Cardinality(ids) - 1
  BY FS_RemoveElement
<1>3. /\ IsFiniteSet(Passed(ids, order, x)) /\ IsFiniteSet(Left(ids, order, x))
      /\ Cardinality(Passed(ids, order, x)) <= Cardinality(ids) - 1
  BY <1>1, <1>2, FS_Subset
<1>4. Cardinality(Passed(ids, order, x)) \in Nat /\ Cardinality(ids) \in Nat
  BY <1>3, FS_CardinalityType
<1> QED
  BY <1>3, <1>4 DEF Rank, Passed

LEMMA RankGrows ==
    ASSUME NEW ids \in SUBSET Int, IsFiniteSet(ids), NEW order, NEW x \in ids, NEW z \in ids,
           Precedes(order, x, z)
    PROVE  Rank(ids, order, x) < Rank(ids, order, z)
<1>1. IsFiniteSet(Passed(ids, order, x)) /\ IsFiniteSet(Passed(ids, order, z))
  BY RankType
<1>2. x \notin Passed(ids, order, x) /\ Passed(ids, order, x) \cup {x} \subseteq Passed(ids, order, z)
  BY OneOrder DEF Passed
<1>3. /\ Cardinality(Passed(ids, order, x) \cup {x}) = Cardinality(Passed(ids, order, x)) + 1
      /\ Cardinality(Passed(ids, order, x) \cup {x}) <= Cardinality(Passed(ids, order, z))
  BY <1>1, <1>2, FS_AddElement, FS_Subset
<1>4. Cardinality(Passed(ids, order, x)) \in Nat /\ Cardinality(Passed(ids, order, z)) \in Nat
  BY <1>1, FS_CardinalityType
<1> QED
  BY <1>3, <1>4 DEF Rank, Passed

LEMMA RankTells ==
    ASSUME NEW ids \in SUBSET Int, IsFiniteSet(ids), NEW order, NEW x \in ids, NEW z \in ids,
           Rank(ids, order, x) = Rank(ids, order, z)
    PROVE  x = z
<1>1. Rank(ids, order, x) \in Int /\ Rank(ids, order, z) \in Int
  BY RankType, FS_CardinalityType
<1> QED
  BY <1>1, OneOrder, RankGrows

(* The list of a query has every id at the place of its rank. *)
LEMMA OrderedIs ==
    ASSUME NEW ids \in SUBSET Int, IsFiniteSet(ids), NEW order
    PROVE  /\ Ordered(ids, order) \in Seq(ids)
           /\ Len(Ordered(ids, order)) = Cardinality(ids)
           /\ \A i \in 1 .. Cardinality(ids) :
                /\ Ordered(ids, order)[i] \in ids
                /\ Rank(ids, order, Ordered(ids, order)[i]) = i - 1
           /\ \A x \in ids : /\ Rank(ids, order, x) + 1 \in 1 .. Cardinality(ids)
                            /\ Ordered(ids, order)[Rank(ids, order, x) + 1] = x
<1> DEFINE n == Cardinality(ids)
           rank == [x \in ids |-> Rank(ids, order, x)]
<1>1. n \in Nat
  BY FS_CardinalityType
<1>2. rank \in [ids -> 0 .. n - 1] /\ \A a, b \in ids : rank[a] = rank[b] => a = b
  BY RankType, RankTells
<1>3. \A k \in 0 .. n - 1 : \E x \in ids : Rank(ids, order, x) = k
  <2> HIDE DEF rank
  <2>1. \A k \in 0 .. n - 1 : \E x \in ids : rank[x] = k
    BY <1>2, NumberingReachesAll
  <2> QED
    BY <2>1 DEF rank
<1>4. ASSUME NEW i \in 1 .. n
      PROVE  Ordered(ids, order)[i] \in ids /\ Rank(ids, order, Ordered(ids, order)[i]) = i - 1
  <2>1. \E x \in ids : Rank(ids, order, x) = i - 1
    <3>1. i - 1 \in 0 .. n - 1
      BY <1>1
    <3> QED
      BY <1>3, <3>1
  <2>2. Ordered(ids, order)[i] = CHOOSE x \in ids : Rank(ids, order, x) = i - 1
    BY DEF Ordered
  <2> QED
    BY <2>1, <2>2
<1>5. Ordered(ids, order) = [i \in 1 .. n |-> Ordered(ids, order)[i]]
  BY DEF Ordered
<1>6. Ordered(ids, order) \in Seq(ids) /\ Len(Ordered(ids, order)) = n
  BY <1>1, <1>4, <1>5
<1>7. ASSUME NEW x \in ids
      PROVE  /\ Rank(ids, order, x) + 1 \in 1 .. n
             /\ Ordered(ids, order)[Rank(ids, order, x) + 1] = x
  <2>1. Rank(ids, order, x) \in 0 .. n - 1
    BY RankType
  <2>2. Rank(ids, order, x) + 1 \in 1 .. n /\ (Rank(ids, order, x) + 1) - 1 = Rank(ids, order, x)
    BY <1>1, <2>1
  <2>3. Ordered(ids, order)[Rank(ids, order, x) + 1] \in ids
    BY <1>4, <2>2
  <2>4. Rank(ids, order, Ordered(ids, order)[Rank(ids, order, x) + 1]) = Rank(ids, order, x)
    BY <1>4, <2>2
  <2> QED
    BY <2>2, <2>3, <2>4, RankTells
<1> QED
  BY <1>4, <1>6, <1>7

-----------------------------------------------------------------------------
(* A row is between those passed and those left, which are listed after it in
   the order they have on their own. *)
LEMMA Between ==
    ASSUME NEW ids \in SUBSET Int, IsFiniteSet(ids), NEW order, NEW c \in ids
    PROVE  /\ Cardinality(ids) = Rank(ids, order, c) + 1 + Cardinality(Left(ids, order, c))
           /\ \A x \in Left(ids, order, c) :
                Rank(ids, order, x) =
                  Rank(ids, order, c) + 1 + Rank(Left(ids, order, c), order, x)
<1> DEFINE P == Passed(ids, order, c)
           L == Left(ids, order, c)
<1>1. IsFiniteSet(P) /\ IsFiniteSet(L) /\ Cardinality(P) \in Nat /\ Cardinality(L) \in Nat
  BY RankType, FS_CardinalityType
<1>2. c \notin P /\ c \notin L /\ P \cap L = {} /\ ids = (P \cup {c}) \cup L
  BY OneOrder DEF Passed, Left
<1>3. Rank(ids, order, c) = Cardinality(P)
  BY DEF Rank, Passed
<1>4. IsFiniteSet(P \cup {c}) /\ Cardinality(P \cup {c}) = Cardinality(P) + 1
  BY <1>1, <1>2, FS_AddElement
<1>5. ASSUME NEW S, IsFiniteSet(S), S \subseteq L
      PROVE  Cardinality((P \cup {c}) \cup S) = Cardinality(P) + 1 + Cardinality(S)
  <2>1. (P \cup {c}) \cap S = {}
    BY <1>2, <1>5
  <2>2. Cardinality({}) = 0 /\ Cardinality(S) \in Nat
    BY <1>5, FS_EmptySet, FS_CardinalityType
  <2>3. Cardinality((P \cup {c}) \cup S) =
          Cardinality(P \cup {c}) + Cardinality(S) - Cardinality((P \cup {c}) \cap S)
    BY <1>4, <1>5, FS_Union
  <2>4. Cardinality((P \cup {c}) \cap S) = 0
    BY <2>1, <2>2
  <2> DEFINE x == Cardinality((P \cup {c}) \cap S)
             y == Cardinality(P \cup {c})
             z == Cardinality((P \cup {c}) \cup S)
  <2>5. z = y + Cardinality(S) - x /\ x = 0 /\ y = Cardinality(P) + 1
    BY <1>4, <2>3, <2>4
  <2> HIDE DEF x, y, z
  <2>6. z = Cardinality(P) + 1 + Cardinality(S)
    BY <1>1, <2>2, <2>5
  <2> QED
    BY <2>6 DEF z
<1>6. ASSUME NEW x \in L
      PROVE  Rank(ids, order, x) = Cardinality(P) + 1 + Rank(L, order, x)
  <2> DEFINE S == Passed(L, order, x)
  <2>1. x \in ids /\ Precedes(order, c, x)
    BY DEF Left
  <2>2. Passed(ids, order, x) = (P \cup {c}) \cup S
    BY <2>1, OneOrder DEF Passed, Left
  <2>3. S \subseteq L /\ IsFiniteSet(S)
    BY <1>1, FS_Subset DEF Passed
  <2>4. Rank(ids, order, x) = Cardinality(Passed(ids, order, x)) /\ Rank(L, order, x) = Cardinality(S)
    BY DEF Rank, Passed
  <2> HIDE DEF P, L, S
  <2> QED
    BY <1>5, <2>2, <2>3, <2>4
<1>7. Cardinality(ids) = Cardinality(P) + 1 + Cardinality(L)
  BY <1>1, <1>2, <1>5
<1> QED
  BY <1>3, <1>6, <1>7

LEMMA LeftOver ==
    ASSUME NEW ids \in SUBSET Int, IsFiniteSet(ids), NEW order, NEW c \in ids,
           NEW k \in 1 .. Cardinality(Left(ids, order, c))
    PROVE  Ordered(ids, order)[Rank(ids, order, c) + 1 + k] = Ordered(Left(ids, order, c), order)[k]
<1> DEFINE L == Left(ids, order, c)
           x == Ordered(L, order)[k]
<1>1. L \in SUBSET Int /\ L \subseteq ids /\ IsFiniteSet(L)
  BY RankType DEF Left
<1>2. x \in L /\ Rank(L, order, x) = k - 1
  BY <1>1, OrderedIs
<1>3. Rank(ids, order, x) = Rank(ids, order, c) + 1 + (k - 1)
  BY <1>2, Between
<1>4. Rank(ids, order, c) \in Nat
  BY RankType, FS_CardinalityType
<1>5. Rank(ids, order, x) + 1 = Rank(ids, order, c) + 1 + k
  BY <1>3, <1>4
<1>6. Ordered(ids, order)[Rank(ids, order, x) + 1] = x
  BY <1>1, <1>2, OrderedIs
<1> QED
  BY <1>5, <1>6

(* The two orders are each other's reverse. *)
LEMMA Reversed ==
    ASSUME NEW ids \in SUBSET Int, IsFiniteSet(ids), NEW k \in 1 .. Cardinality(ids)
    PROVE  Ordered(ids, "asc")[k] = Ordered(ids, "desc")[Cardinality(ids) + 1 - k]
<1> DEFINE x == Ordered(ids, "asc")[k]
<1>1. x \in ids /\ Rank(ids, "asc", x) = k - 1
  BY OrderedIs
<1>2. Cardinality(ids) = Rank(ids, "asc", x) + 1 + Cardinality(Left(ids, "asc", x))
  BY <1>1, Between
<1>3. Left(ids, "asc", x) = Passed(ids, "desc", x)
  BY <1>1 DEF Left, Passed, Precedes
<1>4. Rank(ids, "desc", x) = Cardinality(Passed(ids, "desc", x))
  BY DEF Rank, Passed
<1>5. Cardinality(ids) \in Nat /\ Cardinality(Passed(ids, "desc", x)) \in Nat
  BY <1>1, RankType, FS_CardinalityType
<1>6. Rank(ids, "desc", x) + 1 = Cardinality(ids) + 1 - k
  BY <1>1, <1>2, <1>3, <1>4, <1>5
<1>7. Ordered(ids, "desc")[Rank(ids, "desc", x) + 1] = x
  BY <1>1, OrderedIs
<1> QED
  BY <1>6, <1>7

-----------------------------------------------------------------------------
(* What Take returns. *)
LEMMA TakeIs ==
    ASSUME NEW S, NEW s \in Seq(S), NEW from \in Nat \ {0}, NEW count \in Nat
    PROVE  /\ Take(s, from, count) \in Seq(S)
           /\ Len(Take(s, from, count)) =
                IF from > Len(s) THEN 0 ELSE AtMost(count, Len(s) - from + 1)
           /\ \A i \in 1 .. Len(Take(s, from, count)) : Take(s, from, count)[i] = s[from + i - 1]
<1> DEFINE to == AtMost(from + count - 1, Len(s))
<1>1. to \in Int /\ to <= Len(s) /\ Len(s) \in Nat /\ from \in Int
  BY DEF AtMost
<1>2. to - from + 1 = AtMost(count, Len(s) - from + 1)
  BY DEF AtMost
<1> HIDE DEF to
<1>3. \A i \in from .. to : s[i] \in S
  BY <1>1
<1>4. /\ SubSeq(s, from, to) \in Seq(S)
      /\ Len(SubSeq(s, from, to)) = IF from <= to THEN to - from + 1 ELSE 0
      /\ \A i \in 1 .. to - from + 1 : SubSeq(s, from, to)[i] = s[from + i - 1]
  BY <1>1, <1>3, SubSeqProperties
<1>5. Take(s, from, count) = SubSeq(s, from, to)
  BY DEF Take, to
<1>6. Len(SubSeq(s, from, to)) = IF from > Len(s) THEN 0 ELSE AtMost(count, Len(s) - from + 1)
  <2>1. CASE from > Len(s)
    BY <1>1, <1>4, <2>1
  <2>2. CASE from <= Len(s) /\ count = 0
    BY <1>1, <1>2, <1>4, <2>2 DEF AtMost
  <2>3. CASE from <= Len(s) /\ count # 0
    BY <1>1, <1>2, <1>4, <2>3 DEF AtMost
  <2> QED
    BY <1>1, <2>1, <2>2, <2>3
<1>7. \A i \in 1 .. Len(SubSeq(s, from, to)) : i \in 1 .. to - from + 1
  BY <1>1, <1>4
<1> QED
  BY <1>4, <1>5, <1>6, <1>7

(* A query with a cursor returns the first of the rows left after it. *)
LEMMA FindManyAfter ==
    ASSUME NEW ids \in SUBSET Int, IsFiniteSet(ids), Absent \notin ids, NEW order,
           NEW c \in ids, NEW take \in Nat
    PROVE  FindMany(ids, [orderBy |-> order, cursor |-> c, skip |-> 1, take |-> take])
             = Take(Ordered(Left(ids, order, c), order), 1, take)
<1> DEFINE s == Ordered(ids, order)
           L == Left(ids, order, c)
           p == Rank(ids, order, c) + 1
<1>1. /\ s \in Seq(ids) /\ Len(s) = Cardinality(ids)
      /\ p \in 1 .. Cardinality(ids) /\ s[p] = c
      /\ \A i \in 1 .. Cardinality(ids) : Rank(ids, order, s[i]) = i - 1
  BY OrderedIs
<1>2. Cardinality(ids) \in Nat /\ Rank(ids, order, c) \in Nat
  BY RankType, FS_CardinalityType
<1>3. L \in SUBSET Int /\ L \subseteq ids /\ IsFiniteSet(L) /\ Cardinality(L) \in Nat
  BY RankType, FS_CardinalityType DEF Left
<1>4. (CHOOSE i \in DOMAIN s : s[i] = c) = p
  <2>1. DOMAIN s = 1 .. Cardinality(ids)
    BY <1>1
  <2>2. \A i \in DOMAIN s : s[i] = c => i = p
    BY <1>1, <1>2, <2>1
  <2> QED
    BY <1>1, <2>1, <2>2
<1>5. FindMany(ids, [orderBy |-> order, cursor |-> c, skip |-> 1, take |-> take])
        = Take(s, p + 1, take)
  BY <1>4 DEF FindMany
<1>6. Cardinality(ids) = p + Cardinality(L)
  BY Between
<1>7. /\ Ordered(L, order) \in Seq(L) /\ Len(Ordered(L, order)) = Cardinality(L)
  BY <1>3, OrderedIs
<1> HIDE DEF s, L, p
<1>8. p \in Nat
  BY <1>1
<1>9. /\ Take(s, p + 1, take) \in Seq(ids)
      /\ Len(Take(s, p + 1, take)) =
           IF p + 1 > Len(s) THEN 0 ELSE AtMost(take, Len(s) - (p + 1) + 1)
      /\ \A i \in 1 .. Len(Take(s, p + 1, take)) : Take(s, p + 1, take)[i] = s[(p + 1) + i - 1]
  <2>1. p + 1 \in Nat \ {0}
    BY <1>8
  <2> QED
    BY <1>1, <2>1, TakeIs
<1>10. /\ Take(Ordered(L, order), 1, take) \in Seq(L)
       /\ Len(Take(Ordered(L, order), 1, take)) =
            IF 1 > Cardinality(L) THEN 0 ELSE AtMost(take, Cardinality(L) - 1 + 1)
       /\ \A i \in 1 .. Len(Take(Ordered(L, order), 1, take)) :
            Take(Ordered(L, order), 1, take)[i] = Ordered(L, order)[1 + i - 1]
  BY <1>7, TakeIs
<1>11. Len(Take(s, p + 1, take)) = Len(Take(Ordered(L, order), 1, take))
  BY <1>1, <1>3, <1>6, <1>8, <1>9, <1>10 DEF AtMost
<1>12. Len(Take(Ordered(L, order), 1, take)) \in 0 .. Cardinality(L)
  BY <1>3, <1>10 DEF AtMost
<1>13. ASSUME NEW i \in 1 .. Len(Take(s, p + 1, take))
       PROVE  Take(s, p + 1, take)[i] = Take(Ordered(L, order), 1, take)[i]
  <2>1. i \in 1 .. Cardinality(L)
    BY <1>3, <1>11, <1>12
  <2>2. s[p + i] = Ordered(L, order)[i]
    BY <2>1, LeftOver DEF s, L, p
  <2>3. (p + 1) + i - 1 = p + i /\ 1 + i - 1 = i
    BY <1>8
  <2> QED
    BY <1>9, <1>10, <1>11, <2>2, <2>3
<1>14. Take(Ordered(L, order), 1, take) \in Seq(ids)
  BY <1>3, <1>10
<1>15. Take(s, p + 1, take) = Take(Ordered(L, order), 1, take)
  <2> DEFINE t == Take(s, p + 1, take)
             u == Take(Ordered(L, order), 1, take)
  <2>1. t \in Seq(ids) /\ u \in Seq(ids) /\ Len(t) = Len(u) /\ \A i \in 1 .. Len(t) : t[i] = u[i]
    BY <1>9, <1>11, <1>13, <1>14
  <2> HIDE DEF t, u
  <2>2. t = u
    BY <2>1, SeqEqual
  <2> QED
    BY <2>2 DEF t, u
<1> QED
  BY <1>5, <1>15 DEF s, L, p

-----------------------------------------------------------------------------
(* The rows of a page are the rows of its query but the one that is too many. *)
LEMMA OneTooMany ==
    ASSUME NEW S, NEW s \in Seq(S), NEW limit \in Nat \ {0}
    PROVE  LET items == Take(s, 1, limit + 1) IN
           /\ Len(items) > limit <=> Len(s) > limit
           /\ (IF Len(items) > limit THEN Front(items) ELSE items) = Take(s, 1, limit)
<1> DEFINE items == Take(s, 1, limit + 1)
           page == Take(s, 1, limit)
<1>0. 1 \in Nat \ {0} /\ limit \in Nat /\ limit + 1 \in Nat
  OBVIOUS
<1>1. /\ items \in Seq(S) /\ Len(items) = (IF 1 > Len(s) THEN 0 ELSE AtMost(limit + 1, Len(s) - 1 + 1))
      /\ \A i \in 1 .. Len(items) : items[i] = s[1 + i - 1]
  BY <1>0, TakeIs
<1>2. /\ page \in Seq(S) /\ Len(page) = (IF 1 > Len(s) THEN 0 ELSE AtMost(limit, Len(s) - 1 + 1))
      /\ \A i \in 1 .. Len(page) : page[i] = s[1 + i - 1]
  BY <1>0, TakeIs
<1> HIDE DEF items, page
<1>3. Len(s) \in Nat
  OBVIOUS
<1>4. Len(items) > limit <=> Len(s) > limit
  BY <1>1, <1>3 DEF AtMost
<1>5. CASE Len(s) > limit
  <2>1. Len(items) = limit + 1 /\ Len(page) = limit
    BY <1>1, <1>2, <1>3, <1>5 DEF AtMost
  <2>2. \A i \in 1 .. limit : items[i] \in S
    BY <1>1, <2>1
  <2>3. /\ SubSeq(items, 1, limit) \in Seq(S) /\ Len(SubSeq(items, 1, limit)) = limit
        /\ \A i \in 1 .. limit - 1 + 1 : SubSeq(items, 1, limit)[i] = items[1 + i - 1]
    BY <2>2, SubSeqProperties
  <2>4. Front(items) = SubSeq(items, 1, limit)
    BY <2>1 DEF Front
  <2>5. \A i \in 1 .. limit : SubSeq(items, 1, limit)[i] = page[i]
    BY <1>1, <1>2, <2>1, <2>3
  <2>6. SubSeq(items, 1, limit) = page
    BY <1>2, <2>1, <2>3, <2>5, SeqEqual
  <2> QED
    BY <1>4, <1>5, <2>4, <2>6 DEF items, page
<1>6. CASE ~(Len(s) > limit)
  <2>1. Len(items) = Len(s) /\ Len(page) = Len(s)
    BY <1>1, <1>2, <1>3, <1>6 DEF AtMost
  <2>2. items = page
    BY <1>1, <1>2, <2>1, SeqEqual
  <2> QED
    BY <1>4, <1>6, <2>2 DEF items, page
<1> QED
  BY <1>5, <1>6

(* A cursor that is handed out is never taken for one that is absent. *)
LEMMA CursorIsThere ==
    ASSUME NEW ids \in SUBSET (Nat \ {Absent}), NEW id \in ids
    PROVE  EncodeCursor(id) # Absent
BY DEF EncodeCursor, Absent

(* Forwards, the Paginator returns the first of the rows left after the cursor,
   and a cursor to go on exactly if there are more. *)
LEMMA PageAfter ==
    ASSUME NEW ids \in SUBSET (Nat \ {Absent}), IsFiniteSet(ids), NEW c \in ids, NEW order,
           NEW limit \in Nat \ {0}
    PROVE  LET page == Paginate(ids, c, Absent, limit, order)
               rest == Left(ids, order, c)
           IN /\ page.data = Take(Ordered(rest, order), 1, limit)
              /\ page.afterCursor # Absent <=> Cardinality(rest) > limit
<1> DEFINE rest == Left(ids, order, c)
           s == Ordered(rest, order)
           items == FindMany(ids, FindManyArgs(c, Absent, limit, order))
           records == IF Len(items) > limit THEN Front(items) ELSE items
           page == Paginate(ids, c, Absent, limit, order)
<1>1. ids \in SUBSET Int /\ Absent \notin ids /\ c # Absent
  BY DEF Absent
<1>2. rest \in SUBSET Int /\ rest \subseteq ids /\ IsFiniteSet(rest) /\ Cardinality(rest) \in Nat
  BY <1>1, RankType, FS_CardinalityType DEF Left
<1>3. s \in Seq(rest) /\ Len(s) = Cardinality(rest)
  BY <1>2, OrderedIs
<1>4. FindManyArgs(c, Absent, limit, order) =
        [orderBy |-> order, cursor |-> c, skip |-> 1, take |-> limit + 1]
  BY <1>1 DEF FindManyArgs
<1>5. items = Take(s, 1, limit + 1)
  BY <1>1, <1>4, FindManyAfter
<1>6. /\ Len(items) > limit <=> Cardinality(rest) > limit
      /\ records = Take(s, 1, limit)
  <2> DEFINE more == Take(s, 1, limit + 1)
  <2> HIDE DEF s, rest, items
  <2>1. /\ Len(more) > limit <=> Len(s) > limit
        /\ (IF Len(more) > limit THEN Front(more) ELSE more) = Take(s, 1, limit)
    BY <1>3, OneTooMany
  <2>2. items = more
    BY <1>5
  <2> HIDE DEF more
  <2> QED
    BY <1>3, <2>1, <2>2
<1>7. /\ page.data = records
      /\ page.afterCursor = IF Len(items) > limit /\ records # <<>>
                            THEN EncodeCursor(Last(records)) ELSE Absent
  BY DEF Paginate
<1>8. ASSUME Cardinality(rest) > limit
      PROVE  records # <<>> /\ Last(records) \in ids
  <2>1. /\ records \in Seq(rest)
        /\ Len(records) = (IF 1 > Len(s) THEN 0 ELSE AtMost(limit, Len(s) - 1 + 1))
    <3> HIDE DEF s, rest, items, records
    <3> QED
      BY <1>3, <1>6, TakeIs
  <2> HIDE DEF s, rest, items, records
  <2>2. Len(records) = limit
    BY <1>2, <1>3, <1>8, <2>1 DEF AtMost
  <2>3. records # <<>> /\ records[Len(records)] \in rest
    BY <2>1, <2>2
  <2> QED
    BY <1>2, <2>3 DEF Last
<1> HIDE DEF s, rest, items, records, page
<1>9. page.afterCursor # Absent <=> Cardinality(rest) > limit
  <2>1. CASE Cardinality(rest) > limit
    BY <1>6, <1>7, <1>8, <2>1, CursorIsThere
  <2>2. CASE ~(Cardinality(rest) > limit)
    BY <1>6, <1>7, <2>2
  <2> QED
    BY <2>1, <2>2
<1> QED
  BY <1>6, <1>7, <1>9 DEF s, rest, page

(* A list turned round. *)
LEMMA ReverseIs ==
    ASSUME NEW S, NEW s \in Seq(S)
    PROVE  /\ Reverse(s) \in Seq(S) /\ Len(Reverse(s)) = Len(s)
           /\ \A i \in 1 .. Len(s) : Reverse(s)[i] = s[(Len(s) - i) + 1]
<1>1. Len(s) \in Nat /\ \A i \in 1 .. Len(s) : s[(Len(s) - i) + 1] \in S
  OBVIOUS
<1> QED
  BY <1>1 DEF Reverse

(* The first rows in one order, turned round, are the last in the other. *)
LEMMA LastOnes ==
    ASSUME NEW ids \in SUBSET Int, IsFiniteSet(ids), NEW limit \in Nat \ {0}
    PROVE  LET upper == Ordered(ids, "desc") IN
           Reverse(Take(Ordered(ids, "asc"), 1, limit))
             = SubSeq(upper, Len(upper) - AtMost(limit, Len(upper)) + 1, Len(upper))
<1> DEFINE n == Cardinality(ids)
           k == AtMost(limit, n)
           lower == Ordered(ids, "asc")
           upper == Ordered(ids, "desc")
           first == Take(lower, 1, limit)
           end == SubSeq(upper, n - k + 1, n)
<1>1. /\ lower \in Seq(ids) /\ Len(lower) = n /\ upper \in Seq(ids) /\ Len(upper) = n
      /\ \A i \in 1 .. n : upper[i] \in ids
  BY OrderedIs
<1>2. n \in Nat
  BY FS_CardinalityType
<1>3. \A i \in 1 .. n : lower[i] = upper[n + 1 - i]
  BY Reversed
<1> HIDE DEF n, lower, upper
<1>4. k \in 0 .. n
  BY <1>2 DEF AtMost
<1>5. /\ first \in Seq(ids) /\ Len(first) = (IF 1 > n THEN 0 ELSE AtMost(limit, n - 1 + 1))
      /\ \A i \in 1 .. Len(first) : first[i] = lower[1 + i - 1]
  BY <1>1, TakeIs
<1>6. Len(first) = k
  BY <1>2, <1>5 DEF AtMost
<1>7. /\ end \in Seq(ids)
      /\ Len(end) = (IF n - k + 1 <= n THEN n - (n - k + 1) + 1 ELSE 0)
      /\ \A i \in 1 .. n - (n - k + 1) + 1 : end[i] = upper[(n - k + 1) + i - 1]
  <2>1. n - k + 1 \in Int /\ n \in Int /\ \A i \in n - k + 1 .. n : upper[i] \in ids
    BY <1>1, <1>2, <1>4
  <2> QED
    BY <2>1, SubSeqProperties
<1> HIDE DEF k, end, first
<1>8. Len(end) = k /\ n - (n - k + 1) + 1 = k
  BY <1>2, <1>4, <1>7
<1>9. /\ Reverse(first) \in Seq(ids) /\ Len(Reverse(first)) = k
      /\ \A i \in 1 .. k : Reverse(first)[i] = first[(k - i) + 1]
  BY <1>5, <1>6, ReverseIs
<1>10. ASSUME NEW i \in 1 .. k
       PROVE  Reverse(first)[i] = end[i]
  <2>1. Reverse(first)[i] = first[(k - i) + 1] /\ (k - i) + 1 \in 1 .. k
    BY <1>4, <1>9
  <2>2. first[(k - i) + 1] = lower[(k - i) + 1]
    BY <1>4, <1>5, <1>6, <2>1
  <2>3. lower[(k - i) + 1] = upper[n + 1 - ((k - i) + 1)]
    BY <1>2, <1>3, <1>4, <2>1
  <2>4. n + 1 - ((k - i) + 1) = (n - k + 1) + i - 1
    BY <1>2, <1>4
  <2> QED
    BY <1>7, <1>8, <2>1, <2>2, <2>3, <2>4
<1>11. Reverse(first) = end
  BY <1>7, <1>8, <1>9, <1>10, SeqEqual
<1> QED
  BY <1>1, <1>11 DEF first, end, k, lower, upper, n

(* Backwards, the Paginator returns the last of the rows before the cursor, and
   a cursor to go back exactly if there are more. *)
LEMMA PageBefore ==
    ASSUME NEW ids \in SUBSET (Nat \ {Absent}), IsFiniteSet(ids), NEW c \in ids,
           NEW limit \in Nat \ {0}
    PROVE  LET page == Paginate(ids, Absent, c, limit, "desc")
               upper == Ordered(Left(ids, "asc", c), "desc")
           IN /\ page.data = SubSeq(upper, Len(upper) - AtMost(limit, Len(upper)) + 1, Len(upper))
              /\ page.beforeCursor # Absent <=> Len(upper) > limit
<1> DEFINE rest == Left(ids, "asc", c)
           s == Ordered(rest, "asc")
           items == FindMany(ids, FindManyArgs(Absent, c, limit, "desc"))
           records == IF Len(items) > limit THEN Front(items) ELSE items
           page == Paginate(ids, Absent, c, limit, "desc")
<1>1. ids \in SUBSET Int /\ Absent \notin ids /\ c # Absent
  BY DEF Absent
<1>2. rest \in SUBSET Int /\ rest \subseteq ids /\ IsFiniteSet(rest) /\ Cardinality(rest) \in Nat
  BY <1>1, RankType, FS_CardinalityType DEF Left
<1>3. /\ s \in Seq(rest) /\ Len(s) = Cardinality(rest)
      /\ Len(Ordered(rest, "desc")) = Cardinality(rest)
  BY <1>2, OrderedIs
<1>4. FindManyArgs(Absent, c, limit, "desc") =
        [orderBy |-> "asc", cursor |-> c, skip |-> 1, take |-> limit + 1]
  BY <1>1 DEF FindManyArgs, Flip
<1>5. items = Take(s, 1, limit + 1)
  BY <1>1, <1>4, FindManyAfter
<1>6. /\ Len(items) > limit <=> Cardinality(rest) > limit
      /\ records = Take(s, 1, limit)
  <2> DEFINE more == Take(s, 1, limit + 1)
  <2> HIDE DEF s, rest, items
  <2>1. /\ Len(more) > limit <=> Len(s) > limit
        /\ (IF Len(more) > limit THEN Front(more) ELSE more) = Take(s, 1, limit)
    BY <1>3, OneTooMany
  <2>2. items = more
    BY <1>5
  <2> HIDE DEF more
  <2> QED
    BY <1>3, <2>1, <2>2
<1>7. /\ page.data = Reverse(records)
      /\ page.beforeCursor = IF Len(items) > limit /\ Reverse(records) # <<>>
                             THEN EncodeCursor(Head(Reverse(records))) ELSE Absent
  BY <1>1 DEF Paginate
<1>8. ASSUME Cardinality(rest) > limit
      PROVE  Reverse(records) # <<>> /\ Head(Reverse(records)) \in ids
  <2>1. /\ records \in Seq(rest)
        /\ Len(records) = (IF 1 > Len(s) THEN 0 ELSE AtMost(limit, Len(s) - 1 + 1))
    <3> HIDE DEF s, rest, items, records
    <3> QED
      BY <1>3, <1>6, TakeIs
  <2> HIDE DEF s, rest, items, records
  <2>2. Len(records) = limit
    BY <1>2, <1>3, <1>8, <2>1 DEF AtMost
  <2>3. Reverse(records) \in Seq(rest) /\ Len(Reverse(records)) = limit
    BY <2>1, <2>2, ReverseIs
  <2>4. Reverse(records) # <<>> /\ Head(Reverse(records)) \in rest
    BY <2>3
  <2> QED
    BY <1>2, <2>4
<1>9. Reverse(Take(s, 1, limit)) =
        SubSeq(Ordered(rest, "desc"),
               Len(Ordered(rest, "desc")) - AtMost(limit, Len(Ordered(rest, "desc"))) + 1,
               Len(Ordered(rest, "desc")))
  <2> HIDE DEF rest
  <2> QED
    BY <1>2, LastOnes
<1> HIDE DEF s, rest, items, records, page
<1>10. page.beforeCursor # Absent <=> Cardinality(rest) > limit
  <2>1. CASE Cardinality(rest) > limit
    BY <1>6, <1>7, <1>8, <2>1, CursorIsThere
  <2>2. CASE ~(Cardinality(rest) > limit)
    BY <1>6, <1>7, <2>2
  <2> QED
    BY <2>1, <2>2
<1> QED
  BY <1>3, <1>6, <1>7, <1>9, <1>10 DEF rest, page
=============================================================================
