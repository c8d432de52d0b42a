---------------------------- MODULE AnswerProofs ----------------------------
(***************************************************************************)
(* What a query is answered, for any contents, limits and changes: the     *)
(* searches, pages and graph reads of a reader of the server, and the      *)
(* links between code and documents it is shown.                           *)
(***************************************************************************)
EXTENDS ServerReading, Linking, FiniteSetTheorems, WellFoundedInduction, TLAPS

-----------------------------------------------------------------------------
(* Orders and listings: `before' is a set of pairs.                        *)

StrictOrder(S, before) ==
    /\ \A x \in S : <<x, x>> \notin before
    /\ \A x, y, z \in S : <<x, y>> \in before /\ <<y, z>> \in before => <<x, z>> \in before
    /\ \A x, y \in S : x = y \/ <<x, y>> \in before \/ <<y, x>> \in before

Below(S, before, x) == {y \in S : <<y, x>> \in before}
Rank(S, before, x) == Cardinality(Below(S, before, x))
Ahead(S, before, k) == {x \in S : Rank(S, before, x) < k}

\* seq has the members of S, each once and in the order.
Lists(S, before, seq) ==
    /\ seq \in [1..Cardinality(S) -> S]
    /\ \A i \in 1..Cardinality(S) : Rank(S, before, seq[i]) = i - 1

\* Keys of one number compare as the number.
LEMMA LessOne ==
  ASSUME NEW a \in Int, NEW b \in Int
  PROVE  Less(<<a>>, <<b>>) <=> a < b
<1>1. DOMAIN <<a>> = {1}
  OBVIOUS
<1>2. Less(<<a>>, <<b>>) <=> \E i \in {1} : <<a>>[i] < <<b>>[i] /\ \A j \in 1..(i - 1) : <<a>>[j] = <<b>>[j]
  BY <1>1 DEF Less
<1>3. 1..(1 - 1) = {}
  OBVIOUS
<1> QED
  BY <1>2, <1>3

\* Keys of two numbers compare by the first, then by the second.
LEMMA LessTwo ==
  ASSUME NEW a \in Int, NEW b \in Int, NEW c \in Int, NEW d \in Int
  PROVE  Less(<<a, b>>, <<c, d>>) <=> a < c \/ (a = c /\ b < d)
<1>1. DOMAIN <<a, b>> = {1, 2}
  OBVIOUS
<1>2. Less(<<a, b>>, <<c, d>>) <=> \E i \in {1, 2} : <<a, b>>[i] < <<c, d>>[i] /\ \A j \in 1..(i - 1) : <<a, b>>[j] = <<c, d>>[j]
  BY <1>1 DEF Less
<1>3. 1..(1 - 1) = {} /\ 1..(2 - 1) = {1}
  OBVIOUS
<1> QED
  BY <1>2, <1>3

\* As many members come before one as a finite set allows.
LEMMA RankType ==
  ASSUME NEW S, IsFiniteSet(S), NEW before, NEW x \in S, StrictOrder(S, before)
  PROVE  Rank(S, before, x) \in 0..(Cardinality(S) - 1) /\ IsFiniteSet(Below(S, before, x))
<1>1. Below(S, before, x) \in SUBSET (S \ {x})
  BY DEF Below, StrictOrder
<1>2. IsFiniteSet(S \ {x}) /\ Cardinality(S \ {x}) = Cardinality(S) - 1
  BY FS_RemoveElement
<1> QED
  BY <1>1, <1>2, FS_Subset, FS_CardinalityType DEF Rank

\* The order is the order of the places.
LEMMA RankOrder ==
  ASSUME NEW S, IsFiniteSet(S), NEW before, StrictOrder(S, before), NEW x \in S, NEW y \in S
  PROVE  <<x, y>> \in before <=> Rank(S, before, x) < Rank(S, before, y)
<1>1. ASSUME NEW u \in S, NEW v \in S, <<u, v>> \in before
      PROVE  Rank(S, before, u) < Rank(S, before, v)
  <2>1. Below(S, before, u) \in SUBSET Below(S, before, v) /\ u \in Below(S, before, v)
    BY <1>1 DEF Below, StrictOrder
  <2>2. u \notin Below(S, before, u)
    BY DEF Below, StrictOrder
  <2>3. Rank(S, before, u) <= Rank(S, before, v) /\ Rank(S, before, u) # Rank(S, before, v)
    BY <2>1, <2>2, RankType, FS_Subset DEF Rank
  <2> QED
    BY <2>3, RankType
<1>2. Rank(S, before, x) \in Int /\ Rank(S, before, y) \in Int
  BY RankType
<1>3. CASE <<x, y>> \in before
  BY <1>1, <1>3
<1>4. CASE <<y, x>> \in before
  BY <1>1, <1>2, <1>4 DEF StrictOrder
<1>5. CASE x = y
  BY <1>2, <1>5 DEF StrictOrder
<1> QED
  BY <1>3, <1>4, <1>5 DEF StrictOrder

\* No two members have the same place.
LEMMA RankApart ==
  ASSUME NEW S, IsFiniteSet(S), NEW before, StrictOrder(S, before), NEW x \in S, NEW y \in S,
         Rank(S, before, x) = Rank(S, before, y)
  PROVE  x = y
<1>1. Rank(S, before, x) \in Int
  BY RankType
<1>2. <<x, y>> \notin before
  BY <1>1, RankOrder
<1>3. <<y, x>> \notin before
  BY <1>1, RankOrder
<1> QED
  BY <1>2, <1>3 DEF StrictOrder

\* Every place is taken.
LEMMA RankOnto ==
  ASSUME NEW S, IsFiniteSet(S), NEW before, StrictOrder(S, before), NEW i \in 0..(Cardinality(S) - 1)
  PROVE  \E x \in S : Rank(S, before, x) = i
<1> DEFINE n == Cardinality(S)
           rank == [x \in S |-> Rank(S, before, x)]
<1>1. n \in Nat
  BY FS_CardinalityType
<1>2. rank \in Injection(S, 0..(n - 1))
  <2>1. rank \in [S -> 0..(n - 1)]
    BY RankType
  <2>2. ASSUME NEW x \in S, NEW y \in S, rank[x] = rank[y] PROVE x = y
    BY <2>2, RankApart
  <2> QED
    BY <2>1, <2>2 DEF Injection, IsInjective
<1>3. IsFiniteSet(0..(n - 1)) /\ Cardinality(0..(n - 1)) = n
  BY <1>1, FS_Interval
<1>4. rank \in Surjection(S, 0..(n - 1))
  BY <1>2, <1>3, FS_Injection
<1> QED
  BY <1>4 DEF Surjection

\* A sequence with a member of every place in it lists the set.
LEMMA Listed ==
  ASSUME NEW S, IsFiniteSet(S), NEW before, StrictOrder(S, before),
         NEW seq, seq = [i \in 1..Cardinality(S) |-> seq[i]],
         \A i \in 1..Cardinality(S) : (\E x \in S : Rank(S, before, x) = i - 1) =>
             seq[i] \in S /\ Rank(S, before, seq[i]) = i - 1
  PROVE  Lists(S, before, seq)
<1>1. Cardinality(S) \in Nat
  BY FS_CardinalityType
<1>2. \A i \in 1..Cardinality(S) : i - 1 \in 0..(Cardinality(S) - 1)
  BY <1>1
<1>3. \A i \in 1..Cardinality(S) : seq[i] \in S /\ Rank(S, before, seq[i]) = i - 1
  BY <1>2, RankOnto
<1> QED
  BY <1>3 DEF Lists

\* A listing has every member, each once.
LEMMA ListedOnce ==
  ASSUME NEW S, IsFiniteSet(S), NEW before, StrictOrder(S, before), NEW s, NEW t,
         Lists(S, before, s), Lists(S, before, t)
  PROVE  s = t
<1> DEFINE places == 1..Cardinality(S)
<1>1. \A i \in 1..Cardinality(S) : s[i] \in S /\ t[i] \in S /\ Rank(S, before, s[i]) = Rank(S, before, t[i])
  BY DEF Lists
<1>2. \A x, y \in S : Rank(S, before, x) = Rank(S, before, y) => x = y
  BY RankApart
<1>3. \A i \in places : s[i] = t[i]
  BY <1>1, <1>2
<1>4. s \in [places -> S] /\ t \in [places -> S]
  BY DEF Lists
<1> HIDE DEF places
<1> QED
  BY <1>3, <1>4

\* The first k of a listing are those that fewer than k come before.
LEMMA TopIsAhead ==
  ASSUME NEW S, IsFiniteSet(S), NEW before, StrictOrder(S, before), NEW seq,
         Lists(S, before, seq), NEW k \in Nat
  PROVE  /\ Range(TopOf(seq, k)) = Ahead(S, before, k)
         /\ TopOf(seq, k) \in Seq(S)
         /\ Len(TopOf(seq, k)) = IF Cardinality(S) < k THEN Cardinality(S) ELSE k
         /\ \A i \in 1..Len(TopOf(seq, k)) : TopOf(seq, k)[i] = seq[i]
<1> DEFINE n == Cardinality(S)
           m == IF n < k THEN n ELSE k
<1>1. n \in Nat /\ m \in Nat /\ m <= n /\ m <= k
  BY FS_CardinalityType
<1>2. seq \in Seq(S) /\ Len(seq) = n /\ DOMAIN seq = 1..n
  BY <1>1 DEF Lists
<1>3. TopOf(seq, k) = SubSeq(seq, 1, m)
  BY <1>2 DEF TopOf
<1>4. SubSeq(seq, 1, m) = [i \in 1..m |-> seq[i]]
  BY <1>1, <1>2
<1>5. [i \in 1..m |-> seq[i]] \in [1..m -> S]
  BY <1>1, <1>2
<1>6. Range(TopOf(seq, k)) = {seq[i] : i \in 1..m}
  BY <1>3, <1>4 DEF Range
<1>7. ASSUME NEW i \in 1..m PROVE seq[i] \in Ahead(S, before, k)
  BY <1>1 DEF Ahead, Lists
<1>8. ASSUME NEW x \in Ahead(S, before, k) PROVE \E i \in 1..m : x = seq[i]
  <2>1. x \in S /\ Rank(S, before, x) \in 0..(n - 1) /\ Rank(S, before, x) < k
    BY RankType DEF Ahead
  <2> DEFINE i == Rank(S, before, x) + 1
  <2>2. i \in 1..m /\ i \in 1..n
    BY <1>1, <2>1
  <2>3. seq[i] \in S /\ Rank(S, before, seq[i]) = Rank(S, before, x)
    BY <2>1, <2>2 DEF Lists
  <2>4. seq[i] = x
    BY <2>1, <2>3, RankApart
  <2> QED
    BY <2>2, <2>4
<1>9. TopOf(seq, k) \in Seq(S) /\ Len(TopOf(seq, k)) = m /\ \A i \in 1..m : TopOf(seq, k)[i] = seq[i]
  BY <1>1, <1>3, <1>4, <1>5
<1> QED
  BY <1>6, <1>7, <1>8, <1>9

\* A set that is no larger than the limit is taken whole.
LEMMA AheadAll ==
  ASSUME NEW S, IsFiniteSet(S), NEW before, StrictOrder(S, before), NEW k \in Nat, Cardinality(S) <= k
  PROVE  Ahead(S, before, k) = S
BY RankType, FS_CardinalityType DEF Ahead

\* Fewer come before a member in a part than in the whole.
LEMMA RankOfPart ==
  ASSUME NEW S, IsFiniteSet(S), NEW before, StrictOrder(S, before), NEW T \in SUBSET S, NEW x \in T
  PROVE  /\ IsFiniteSet(T) /\ StrictOrder(T, before)
         /\ Rank(T, before, x) <= Rank(S, before, x)
<1>1. IsFiniteSet(T) /\ StrictOrder(T, before)
  BY FS_Subset DEF StrictOrder
<1>2. Below(T, before, x) \in SUBSET Below(S, before, x)
  BY DEF Below
<1> QED
  BY <1>1, <1>2, RankType, FS_Subset DEF Rank

\* The first of a part that holds the first of the whole are the first of the whole.
LEMMA AheadOfPart ==
  ASSUME NEW S, IsFiniteSet(S), NEW before, StrictOrder(S, before), NEW k \in Nat,
         NEW T \in SUBSET S, Ahead(S, before, k) \subseteq T
  PROVE  Ahead(T, before, k) = Ahead(S, before, k)
<1>1. IsFiniteSet(T) /\ StrictOrder(T, before)
  BY FS_Subset DEF StrictOrder
<1>2. ASSUME NEW x \in Ahead(S, before, k) PROVE x \in Ahead(T, before, k)
  <2>1. x \in T /\ x \in S /\ Rank(S, before, x) < k
    BY DEF Ahead
  <2>2. Rank(T, before, x) <= Rank(S, before, x) /\ Rank(T, before, x) \in Int /\ Rank(S, before, x) \in Int
    BY <1>1, <2>1, RankOfPart, RankType
  <2> QED
    BY <2>1, <2>2 DEF Ahead
<1>3. ASSUME NEW x \in Ahead(T, before, k), x \notin Ahead(S, before, k) PROVE FALSE
  <2>1. x \in T /\ x \in S /\ Rank(T, before, x) < k
    BY <1>3 DEF Ahead
  <2>2. Rank(S, before, x) \in 0..(Cardinality(S) - 1) /\ Rank(S, before, x) >= k /\ Cardinality(S) \in Nat
    BY <1>3, <2>1, RankType, FS_CardinalityType DEF Ahead
  <2>3. PICK z \in S : Rank(S, before, z) = k
    BY <2>2, RankOnto
  <2>4. Below(S, before, z) \subseteq Below(T, before, x)
    <3>1. ASSUME NEW y \in Below(S, before, z) PROVE y \in Below(T, before, x)
      <4>1. y \in S /\ Rank(S, before, y) < k
        BY <2>3, RankOrder DEF Below
      <4>2. y \in T
        BY <4>1 DEF Ahead
      <4>3. Rank(S, before, y) < Rank(S, before, x)
        BY <2>1, <2>2, <4>1, RankType
      <4> QED
        BY <2>1, <4>1, <4>2, <4>3, RankOrder DEF Below
    <3> QED
      BY <3>1
  <2>5. IsFiniteSet(Below(T, before, x)) /\ Rank(T, before, x) \in Int
    BY <1>1, <2>1, RankType
  <2>6. k <= Rank(T, before, x)
    BY <2>3, <2>4, <2>5, FS_Subset DEF Rank
  <2> QED
    BY <2>1, <2>5, <2>6
<1> QED
  BY <1>2, <1>3 DEF Ahead

\* Of a set that is larger than the limit exactly as many as the limit are
\* taken.
LEMMA AheadCount ==
  ASSUME NEW S, IsFiniteSet(S), NEW before, StrictOrder(S, before), NEW k \in Nat, k < Cardinality(S)
  PROVE  Cardinality(Ahead(S, before, k)) = k
<1>1. k \in 0..(Cardinality(S) - 1)
  BY FS_CardinalityType
<1>2. PICK z \in S : Rank(S, before, z) = k
  BY <1>1, RankOnto
<1>3. Below(S, before, z) = Ahead(S, before, k)
  BY <1>2, RankOrder DEF Below, Ahead
<1> QED
  BY <1>2, <1>3 DEF Rank

\* The first of a set comes before all others.
LEMMA RankOne ==
  ASSUME NEW S, IsFiniteSet(S), NEW before, StrictOrder(S, before), NEW x \in S, NEW y \in S,
         Rank(S, before, x) = Rank(S, before, y)
  PROVE  x = y
BY RankOrder, RankType DEF StrictOrder

-----------------------------------------------------------------------------
(* Reading.                                                                *)

PlaceOrder == {p \in Contents \X Contents : Less(<<p[1].at>>, <<p[2].at>>)}
NearOrder == {p \in Contents \X Contents : Less(<<-p[1].near, p[1].at>>, <<-p[2].near, p[2].at>>)}
EdgeOrder == {p \in Edges \X Edges : Less(<<p[1].type, p[1].id>>, <<p[2].type, p[2].id>>)}

NearApart(S) == \A r, s \in S : r.near = s.near /\ r.at = s.at => r = s
PlacesApart(S) == \A r, s \in S : r.at = s.at => r = s
EdgesApart(S) == \A d, e \in S : d.type = e.type /\ d.id = e.id => d = e

\* Documents in index order are listed each once (reader.rs, sorted pages).
LEMMA PlaceList ==
  ASSUME NEW S \in SUBSET Contents, PlacesApart(S)
  PROVE  /\ IsFiniteSet(S) /\ StrictOrder(S, PlaceOrder)
         /\ Lists(S, PlaceOrder, InOrder(S, LAMBDA r : <<r.at>>))
<1> USE ReadingAssumption
<1> DEFINE seq == InOrder(S, LAMBDA r : <<r.at>>)
<1>1. IsFiniteSet(S)
  BY FS_Subset
<1>2. \A x, y \in S : <<x, y>> \in PlaceOrder <=> x.at < y.at
  BY LessOne DEF PlaceOrder
<1>3. StrictOrder(S, PlaceOrder)
  <2>1. \A x \in S : x.at \in Int
    OBVIOUS
  <2> QED
    BY <1>2, <2>1 DEF StrictOrder, PlacesApart
<1>4. \A x \in S : Below(S, PlaceOrder, x) = {y \in S : Less(<<y.at>>, <<x.at>>)}
  BY DEF Below, PlaceOrder
<1>5. seq = [i \in 1..Cardinality(S) |->
               CHOOSE x \in S : Cardinality({y \in S : Less(<<y.at>>, <<x.at>>)}) = i - 1]
  BY DEF InOrder
<1>6. ASSUME NEW i \in 1..Cardinality(S), NEW x \in S, Rank(S, PlaceOrder, x) = i - 1
      PROVE  seq[i] \in S /\ Rank(S, PlaceOrder, seq[i]) = i - 1
  <2> DEFINE here(z) == Cardinality({y \in S : Less(<<y.at>>, <<z.at>>)}) = i - 1
  <2>1. \A z \in S : here(z) <=> Rank(S, PlaceOrder, z) = i - 1
    BY <1>4 DEF Rank
  <2>2. seq[i] = CHOOSE z \in S : here(z)
    BY <1>5
  <2> HIDE DEF here
  <2>3. seq[i] \in S /\ here(seq[i])
    BY <1>6, <2>1, <2>2
  <2> QED
    BY <2>1, <2>3
<1>7. seq = [i \in 1..Cardinality(S) |-> seq[i]]
  BY <1>5
<1> QED
  BY <1>1, <1>3, <1>6, <1>7, Listed

\* Documents are near by score, then by place.
LEMMA NearKeys ==
  ASSUME NEW S \in SUBSET Contents, NearApart(S)
  PROVE  /\ IsFiniteSet(S) /\ StrictOrder(S, NearOrder)
         /\ \A x \in S : Below(S, NearOrder, x) = {y \in S : Less(<<-y.near, y.at>>, <<-x.near, x.at>>)}
<1> USE ReadingAssumption
<1>1. IsFiniteSet(S)
  BY FS_Subset
<1>2. \A x, y \in S : <<x, y>> \in NearOrder <=> x.near > y.near \/ (x.near = y.near /\ x.at < y.at)
  <2>1. \A x \in S : x.near \in Int /\ -x.near \in Int /\ x.at \in Int
    OBVIOUS
  <2>2. ASSUME NEW x \in S, NEW y \in S
        PROVE  Less(<<-x.near, x.at>>, <<-y.near, y.at>>) <=> x.near > y.near \/ (x.near = y.near /\ x.at < y.at)
    BY <2>1, LessTwo
  <2> QED
    BY <2>2 DEF NearOrder
<1>3. StrictOrder(S, NearOrder)
  <2>1. \A x \in S : x.at \in Int /\ x.near \in Int
    OBVIOUS
  <2> QED
    BY <1>2, <2>1 DEF StrictOrder, NearApart
<1>4. \A x \in S : Below(S, NearOrder, x) = {y \in S : Less(<<-y.near, y.at>>, <<-x.near, x.at>>)}
  BY DEF Below, NearOrder
<1> QED
  BY <1>1, <1>3, <1>4

\* Documents by nearness are listed each once (the knn order).
LEMMA NearList ==
  ASSUME NEW S \in SUBSET Contents, NearApart(S)
  PROVE  Lists(S, NearOrder, InOrder(S, LAMBDA r : <<-r.near, r.at>>))
<1> DEFINE seq == InOrder(S, LAMBDA r : <<-r.near, r.at>>)
           below(x) == {y \in S : Less(<<-y.near, y.at>>, <<-x.near, x.at>>)}
<1>4. \A x \in S : Below(S, NearOrder, x) = below(x)
  BY NearKeys
<1>5. seq = [i \in 1..Cardinality(S) |-> CHOOSE x \in S : Cardinality(below(x)) = i - 1]
  BY DEF InOrder
<1>6. ASSUME NEW i \in 1..Cardinality(S), NEW x \in S, Rank(S, NearOrder, x) = i - 1
      PROVE  seq[i] \in S /\ Rank(S, NearOrder, seq[i]) = i - 1
  <2> DEFINE here(z) == Cardinality(below(z)) = i - 1
  <2>1. \A z \in S : here(z) <=> Rank(S, NearOrder, z) = i - 1
    BY <1>4 DEF Rank
  <2>2. seq[i] = CHOOSE z \in S : here(z)
    BY <1>5
  <2> HIDE DEF here
  <2>3. seq[i] \in S /\ here(seq[i])
    BY <1>6, <2>1, <2>2
  <2> QED
    BY <2>1, <2>3
<1>7. seq = [i \in 1..Cardinality(S) |-> seq[i]]
  BY <1>5
<1> QED
  BY <1>6, <1>7, NearKeys, Listed

AnswerOrder(S, how) == InOrder(S, LAMBDA r : <<IF how = "knn" THEN -r.near ELSE 0, r.at>>)

\* What a search answers is the first of the documents it holds, in the order
\* it asks for.
LEMMA AnswerList ==
  ASSUME NEW S \in SUBSET Contents, NEW how
  PROVE  /\ how = "knn" /\ NearApart(S) =>
              Lists(S, NearOrder, AnswerOrder(S, how))
         /\ how # "knn" /\ PlacesApart(S) =>
              Lists(S, PlaceOrder, AnswerOrder(S, how))
<1> USE ReadingAssumption
<1> DEFINE seq == AnswerOrder(S, how)
           below(x) == {y \in S : Less(<<IF how = "knn" THEN -y.near ELSE 0, y.at>>,
                                       <<IF how = "knn" THEN -x.near ELSE 0, x.at>>)}
<1>1. seq = [i \in 1..Cardinality(S) |-> CHOOSE x \in S : Cardinality(below(x)) = i - 1]
  BY DEF InOrder, AnswerOrder
<1>2. ASSUME NEW before, StrictOrder(S, before), IsFiniteSet(S), \A x \in S : Below(S, before, x) = below(x)
      PROVE  Lists(S, before, seq)
  <2>1. ASSUME NEW i \in 1..Cardinality(S), NEW x \in S, Rank(S, before, x) = i - 1
        PROVE  seq[i] \in S /\ Rank(S, before, seq[i]) = i - 1
    <3> DEFINE here(z) == Cardinality(below(z)) = i - 1
    <3>1. \A z \in S : here(z) <=> Rank(S, before, z) = i - 1
      BY <1>2 DEF Rank
    <3>2. seq[i] = CHOOSE z \in S : here(z)
      BY <1>1
    <3> HIDE DEF here
    <3>3. seq[i] \in S /\ here(seq[i])
      BY <2>1, <3>1, <3>2
    <3> QED
      BY <3>1, <3>3
  <2>2. seq = [i \in 1..Cardinality(S) |-> seq[i]]
    BY <1>1
  <2> HIDE DEF seq
  <2> QED
    BY <1>2, <2>1, <2>2, Listed
<1>3. ASSUME how = "knn", NearApart(S) PROVE Lists(S, NearOrder, seq)
  <2>1. \A x, y \in S : y \in below(x) <=> Less(<<-y.near, y.at>>, <<-x.near, x.at>>)
    BY <1>3
  <2>2. \A x \in S : Below(S, NearOrder, x) = below(x)
    <3>1. \A x, y \in S : y \in Below(S, NearOrder, x) <=> Less(<<-y.near, y.at>>, <<-x.near, x.at>>)
      BY DEF Below, NearOrder
    <3>2. \A x \in S : Below(S, NearOrder, x) \subseteq S /\ below(x) \subseteq S
      BY DEF Below
    <3> HIDE DEF below
    <3>3. ASSUME NEW x \in S, NEW y PROVE y \in Below(S, NearOrder, x) <=> y \in below(x)
      BY <2>1, <3>1, <3>2
    <3> QED
      BY <3>3 DEF below
  <2> QED
    BY <1>2, <1>3, <2>2, NearKeys
<1>4. ASSUME how # "knn", PlacesApart(S) PROVE Lists(S, PlaceOrder, seq)
  <2>1. \A x, y \in S : Less(<<0, y.at>>, <<0, x.at>>) <=> Less(<<y.at>>, <<x.at>>)
    <3>1. \A x \in S : x.at \in Int
      OBVIOUS
    <3> QED
      BY <3>1, LessOne, LessTwo
  <2>2. \A x, y \in S : y \in below(x) <=> Less(<<0, y.at>>, <<0, x.at>>)
    BY <1>4
  <2>3. \A x \in S : Below(S, PlaceOrder, x) = below(x)
    <3>1. \A x, y \in S : y \in Below(S, PlaceOrder, x) <=> Less(<<y.at>>, <<x.at>>)
      BY DEF Below, PlaceOrder
    <3>2. \A x \in S : Below(S, PlaceOrder, x) \subseteq S /\ below(x) \subseteq S
      BY DEF Below
    <3> HIDE DEF below
    <3>3. ASSUME NEW x \in S, NEW y PROVE y \in Below(S, PlaceOrder, x) <=> y \in below(x)
      BY <2>1, <2>2, <3>1, <3>2
    <3> QED
      BY <3>3 DEF below
  <2> QED
    BY <1>2, <1>4, <2>3, PlaceList
<1> QED
  BY <1>3, <1>4

\* Edges by type and id are listed each once.
LEMMA EdgeList ==
  ASSUME NEW S \in SUBSET Edges, EdgesApart(S), NEW n \in Nat
  PROVE  /\ IsFiniteSet(S) /\ StrictOrder(S, EdgeOrder)
         /\ FirstEdges(S, n) = Ahead(S, EdgeOrder, n)
<1> USE ReadingAssumption
<1> DEFINE seq == InOrder(S, LAMBDA e : <<e.type, e.id>>)
           below(x) == {y \in S : Less(<<y.type, y.id>>, <<x.type, x.id>>)}
<1>1. IsFiniteSet(S)
  BY FS_Subset
<1>2. \A x \in S : x.type \in Int /\ x.id \in Int
  OBVIOUS
<1>3. StrictOrder(S, EdgeOrder)
  <2>1. \A x, y \in S : <<x, y>> \in EdgeOrder <=> x.type < y.type \/ (x.type = y.type /\ x.id < y.id)
    BY <1>2, LessTwo DEF EdgeOrder
  <2> QED
    BY <1>2, <2>1 DEF StrictOrder, EdgesApart
<1>4. \A x \in S : Below(S, EdgeOrder, x) = below(x)
  BY DEF Below, EdgeOrder
<1>5. seq = [i \in 1..Cardinality(S) |-> CHOOSE x \in S : Cardinality(below(x)) = i - 1]
  BY DEF InOrder
<1>6. ASSUME NEW i \in 1..Cardinality(S), NEW x \in S, Rank(S, EdgeOrder, x) = i - 1
      PROVE  seq[i] \in S /\ Rank(S, EdgeOrder, seq[i]) = i - 1
  <2> DEFINE here(z) == Cardinality(below(z)) = i - 1
  <2>1. \A z \in S : here(z) <=> Rank(S, EdgeOrder, z) = i - 1
    BY <1>4 DEF Rank
  <2>2. seq[i] = CHOOSE z \in S : here(z)
    BY <1>5
  <2> HIDE DEF here
  <2>3. seq[i] \in S /\ here(seq[i])
    BY <1>6, <2>1, <2>2
  <2> QED
    BY <2>1, <2>3
<1>7. seq = [i \in 1..Cardinality(S) |-> seq[i]]
  BY <1>5
<1>8. Lists(S, EdgeOrder, seq)
  BY <1>1, <1>3, <1>6, <1>7, Listed
<1>9. FirstEdges(S, n) = Range(TopOf(seq, n))
  BY DEF FirstEdges
<1> HIDE DEF seq
<1> QED
  BY <1>1, <1>3, <1>8, <1>9, TopIsAhead

\* One window for many keys gives what one search per key and type would.
LEMMA ManyIsEach ==
  ASSUME NEW edges \in SUBSET Edges, EdgesApart(edges), NEW keys, NEW types, NEW limit \in Nat,
         NEW k \in keys
  PROVE  EdgesMany(edges, keys, types, limit)[k] = EdgesOfKey(edges, k, types, limit)
<1> DEFINE wanted == {e \in edges : e.key \in keys /\ (types # {} => e.type \in types)}
           window == FirstEdges(wanted, MaxRead)
           bucket(e) == {d \in window : d.key = e.key /\ (types # {} => d.type = e.type)}
           few == {e \in window : e.key = k /\ e \in FirstEdges(bucket(e), limit)}
<1>1. EdgesMany(edges, keys, types, limit)[k] =
        IF Cardinality(window) >= MaxRead THEN EdgesOfKey(edges, k, types, limit) ELSE few
  BY DEF EdgesMany
<1>2. CASE Cardinality(window) >= MaxRead
  BY <1>1, <1>2
<1>3. CASE ~(Cardinality(window) >= MaxRead)
  <2>1. wanted \in SUBSET Edges /\ EdgesApart(wanted)
    BY DEF EdgesApart
  <2>2. MaxRead \in Nat
    BY ReadingAssumption
  <2>3. IsFiniteSet(wanted) /\ StrictOrder(wanted, EdgeOrder) /\ window = Ahead(wanted, EdgeOrder, MaxRead)
    BY <2>1, <2>2, EdgeList
  <2> HIDE DEF wanted
  <2>4. window = wanted
    <3>1. CASE Cardinality(wanted) <= MaxRead
      BY <2>2, <2>3, <3>1, AheadAll
    <3>2. CASE Cardinality(wanted) > MaxRead
      BY <1>3, <2>2, <2>3, <3>2, AheadCount
    <3> QED
      BY <2>3, <3>1, <3>2, FS_CardinalityType, <2>2
  <2>5. \A e \in wanted : bucket(e) = {d \in wanted : d.key = e.key /\ (types # {} => d.type = e.type)}
    BY <2>4
  <2>6. few = {e \in wanted : e.key = k /\ e \in FirstEdges(bucket(e), limit)}
    BY <2>4
  <2>7. \A S \in SUBSET edges : FirstEdges(S, limit) = Ahead(S, EdgeOrder, limit) /\ FirstEdges(S, limit) \subseteq S
    <3>1. ASSUME NEW S \in SUBSET edges
          PROVE  FirstEdges(S, limit) = Ahead(S, EdgeOrder, limit) /\ FirstEdges(S, limit) \subseteq S
      <4>1. S \in SUBSET Edges /\ EdgesApart(S)
        BY DEF EdgesApart
      <4>2. FirstEdges(S, limit) = Ahead(S, EdgeOrder, limit)
        BY <4>1, EdgeList
      <4> QED
        BY <4>2 DEF Ahead
    <3> QED
      BY <3>1
  <2> HIDE DEF bucket, window
  <2> USE DEF wanted
  <2>8. CASE types = {}
    <3> DEFINE of == {e \in edges : e.key = k}
    <3>1. \A e \in wanted : e.key = k => bucket(e) = of
      BY <2>5, <2>8
    <3>2. EdgesOfKey(edges, k, types, limit) = FirstEdges(of, limit)
      BY <2>8 DEF EdgesOfKey
    <3>3. FirstEdges(of, limit) \subseteq of
      BY <2>7
    <3>4. of \subseteq wanted /\ \A e \in of : e.key = k
      BY <2>8
    <3> HIDE DEF of, wanted
    <3>5. few = FirstEdges(of, limit)
      BY <2>6, <3>1, <3>3, <3>4
    <3> QED
      BY <1>1, <1>3, <3>2, <3>5 DEF window
  <2>9. CASE types # {}
    <3> DEFINE of(t) == {e \in {e \in edges : e.key = k} : e.type = t}
    <3>1. \A e \in wanted : e.key = k => bucket(e) = of(e.type)
      BY <2>5, <2>9
    <3>2. EdgesOfKey(edges, k, types, limit) = UNION {FirstEdges(of(t), limit) : t \in types}
      BY <2>9 DEF EdgesOfKey
    <3>3. \A t : FirstEdges(of(t), limit) \subseteq of(t)
      BY <2>7
    <3>4. \A t \in types : of(t) \subseteq wanted
      BY <2>9
    <3>5. \A t : \A e \in of(t) : e.key = k /\ e.type = t
      OBVIOUS
    <3>6. \A e \in wanted : e.type \in types
      BY <2>9
    <3> HIDE DEF of, wanted
    <3>7. few = UNION {FirstEdges(of(t), limit) : t \in types}
      <4>1. ASSUME NEW e \in few PROVE e \in UNION {FirstEdges(of(t), limit) : t \in types}
        BY <2>6, <3>1, <3>6, <4>1
      <4>2. ASSUME NEW t \in types, NEW e \in FirstEdges(of(t), limit) PROVE e \in few
        BY <2>6, <3>1, <3>3, <3>4, <3>5, <4>2
      <4> QED
        BY <4>1, <4>2
    <3> QED
      BY <1>1, <1>3, <3>2, <3>7 DEF window
  <2> QED
    BY <2>8, <2>9
<1> QED
  BY <1>2, <1>3

-----------------------------------------------------------------------------
(* The invariant.                                                          *)

Subjected(b) == {r \in Contents : r.build = b /\ r.near > 0}
OfIndex(S, index) == {r \in S : r.index = index}
TopSubjects == Ahead(Subjected(reader.build), NearOrder, reader.query.limit)

PlacesOf(S) == InOrder(S, LAMBDA r : <<r.at>>)

ReaderOK ==
    /\ DOMAIN lexical = {"at", "calls", "got"} /\ DOMAIN semantic = {"at", "found", "known"}
    /\ DOMAIN recording = {"on", "bodies"} /\ DOMAIN graphDoc = {"state", "base", "gen"}
    /\ reader.kind = "search" => reader.query \in Queries /\ reader.eager \in BOOLEAN
    /\ reader.kind # "search" =>
         /\ lexical.at = "idle" /\ semantic.at = "idle" /\ lexical.got = <<>>
         /\ prefetched = {} /\ ~recording.on

SentOK ==
    /\ recording.on => lexical.at \in {"recorded", "send"}
    /\ \A p \in prefetched : p.hits = Answer(p.body)
    /\ lexical.got \in Seq(Range(lexical.got))

LateOK ==
    reader.kind = "search" /\ ~reader.eager =>
        /\ semantic.at \in {"late", "code", "meta code", "meta chunks", "done"}
        /\ semantic.at = "late" => semantic.found = {} /\ semantic.known = {}
        /\ semantic.at # "late" => lexical.at = "call" /\ lexical.calls = <<>>
        /\ semantic.at = "code" =>
             /\ semantic.found = Ahead(OfIndex(Subjected(reader.build), "chunks"), NearOrder, reader.query.limit)
             /\ semantic.known = {}
        /\ semantic.at \in {"meta code", "meta chunks", "done"} => semantic.found = TopSubjects
        /\ semantic.at = "meta code" => semantic.known = {}
        /\ semantic.at = "meta chunks" => semantic.known = OfIndex(semantic.found, "code")
        /\ semantic.at = "done" => semantic.known = semantic.found

ListOK ==
    /\ reader.kind # "list" => listing = NoListing
    /\ reader.kind = "list" =>
         LET all == PlacesOf(Whole(reader.index))
             whole == Cardinality(Whole(reader.index))
             n == Len(listing.got)
         IN /\ listing.got \in Seq(Contents) /\ n <= whole
            /\ \A i \in 1..n : listing.got[i] = all[i]
            /\ listing.done => n = whole
            /\ ~listing.done => listing.after = IF n = 0 THEN 0 ELSE all[n].at

GraphOK ==
    /\ graphDoc.gen \in Nat
    /\ graphReads # {} => servedGraph # Unresolved
    /\ servedGraph # Unresolved => servedGraph.gen \in Nat

ReadingInv == ReaderOK /\ SentOK /\ LexicalSame /\ LateOK /\ ListOK /\ GraphOK /\ GraphReadsRight

\* A search of a build answers with documents of that build.
LEMMA AnswerBuild ==
  ASSUME reader' = reader
  PROVE  \A b : Answer(b)' = Answer(b)
BY DEF Answer, Holds, InOrder, TopOf

\* No two subjects of a build are equally near at one place.
LEMMA SubjectedApart ==
  ASSUME NEW b
  PROVE  Subjected(b) \in SUBSET Contents /\ NearApart(Subjected(b))
<1>1. ASSUME NEW r \in Subjected(b), NEW s \in Subjected(b), r.near = s.near, r.at = s.at PROVE r = s
  <2>1. r \in Contents /\ s \in Contents /\ r.build = s.build /\ r.near > 0
    BY DEF Subjected
  <2> QED
    BY <1>1, <2>1, ReadingAssumption
<1> QED
  BY <1>1 DEF Subjected, NearApart

\* A vector search answers the nearest of its index.
LEMMA KnnAnswer ==
  ASSUME NEW index, reader.query \in Queries
  PROVE  Range(Answer(VectorBody(index))) = Ahead(OfIndex(Subjected(reader.build), index), NearOrder, reader.query.limit)
<1> USE ReadingAssumption
<1> DEFINE b == VectorBody(index)
           S == OfIndex(Subjected(reader.build), index)
<1>1. /\ b.index = index /\ b.how = "knn" /\ b.want = {"v"} /\ b.docs = {} /\ b.scoped = FALSE
      /\ b.size = reader.query.limit
  BY DEF VectorBody, Body
<1>2. {r \in Contents : Holds(r, b)} = S
  BY <1>1 DEF Holds, OfIndex, Subjected
<1>3. Answer(b) = TopOf(AnswerOrder(S, b.how), b.size)
  BY <1>2 DEF Answer, AnswerOrder
<1>4. S \in SUBSET Contents /\ NearApart(S)
  BY SubjectedApart DEF OfIndex, NearApart
<1> DEFINE seq == AnswerOrder(S, b.how)
<1> HIDE DEF b, S
<1>5. Lists(S, NearOrder, seq)
  BY <1>1, <1>4, AnswerList
<1> HIDE DEF seq
<1>6. Range(TopOf(seq, b.size)) = Ahead(S, NearOrder, b.size)
  BY <1>1, <1>4, <1>5, NearKeys, TopIsAhead
<1> QED
  BY <1>1, <1>3, <1>6 DEF b, S, seq

\* The nearest of a set are those few come before.
LEMMA NearestIs ==
  ASSUME NEW S \in SUBSET Contents, NearApart(S), NEW k \in Nat
  PROVE  Range(Nearest(S, k)) = Ahead(S, NearOrder, k)
<1> DEFINE seq == InOrder(S, LAMBDA r : <<-r.near, r.at>>)
<1>1. Nearest(S, k) = TopOf(seq, k)
  BY DEF Nearest
<1>2. Lists(S, NearOrder, seq)
  BY NearList
<1> HIDE DEF seq
<1> QED
  BY <1>1, <1>2, NearKeys, TopIsAhead

\* A search by ids answers the documents of these ids, all of them.
LEMMA MetaAnswer ==
  ASSUME NEW index, reader.query \in Queries, semantic.found = TopSubjects
  PROVE  Range(Answer(MetaBody(index))) = OfIndex(semantic.found, index)
<1> USE ReadingAssumption
<1> DEFINE b == MetaBody(index)
           k == reader.query.limit
           A == Subjected(reader.build)
           S == OfIndex(semantic.found, index)
<1>1. /\ A \in SUBSET Contents /\ NearApart(A) /\ IsFiniteSet(A) /\ StrictOrder(A, NearOrder)
      /\ k \in 0..MaxRead
  BY SubjectedApart, NearKeys
<1>2. S \in SUBSET semantic.found /\ semantic.found \in SUBSET A
  BY DEF OfIndex, TopSubjects, Ahead
<1>3. IsFiniteSet(semantic.found) /\ Cardinality(semantic.found) <= k
  <2>1. CASE Cardinality(A) <= k
    BY <1>1, <1>2, <2>1, FS_Subset, FS_CardinalityType
  <2>2. CASE k < Cardinality(A)
    BY <1>1, <1>2, <2>2, AheadCount, FS_Subset DEF TopSubjects
  <2> QED
    BY <1>1, <2>1, <2>2, FS_CardinalityType
<1>4. IsFiniteSet(S) /\ Cardinality(S) <= MaxRead
  BY <1>1, <1>2, <1>3, FS_Subset, FS_CardinalityType
<1>5. ASSUME NEW r \in S, NEW s \in S, r.id = s.id \/ r.at = s.at PROVE r = s
  <2>1. r \in Contents /\ s \in Contents /\ r.build = s.build /\ r.index = s.index
    BY <1>1, <1>2 DEF OfIndex, Subjected
  <2> QED
    BY <1>5, <2>1
<1>6. Cardinality(Subjects(index)) = Cardinality(S)
  <2> DEFINE f == [r \in S |-> r.id]
             T == Subjects(index)
  <2>0. T = {r.id : r \in S}
    BY DEF Subjects, OfIndex
  <2>1. f \in [S -> T]
    BY <2>0
  <2>2. \A t \in T : \E r \in S : f[r] = t
    BY <2>0
  <2>3. \A x, y \in S : f[x] = f[y] => x = y
    BY <1>5
  <2> HIDE DEF S, T, f
  <2>4. f \in Bijection(S, T)
    BY <2>1, <2>2, <2>3 DEF Bijection, Injection, Surjection, IsInjective
  <2>5. ExistsBijection(S, T)
    BY <2>4 DEF ExistsBijection
  <2> QED
    BY <1>4, <2>5, FS_Bijection DEF T
<1>7. /\ b.index = index /\ b.how = "id" /\ b.want = Subjects(index) /\ b.docs = {} /\ b.scoped = FALSE
      /\ b.size = Cardinality(S)
  BY <1>4, <1>6, FS_CardinalityType DEF MetaBody, Body
<1>8. {r \in Contents : Holds(r, b)} = S
  <2>1. ASSUME NEW r \in S PROVE r \in Contents /\ Holds(r, b)
    <3>1. r \in Contents /\ r.index = index /\ r.build = reader.build /\ <<"id", r.id>> \in r.terms
      BY <1>1, <1>2 DEF OfIndex, Subjected
    <3>2. r.id \in Subjects(index)
      BY DEF Subjects, OfIndex
    <3> QED
      BY <1>7, <3>1, <3>2 DEF Holds
  <2>2. ASSUME NEW r \in Contents, Holds(r, b) PROVE r \in S
    <3>1. r.index = index /\ r.build = reader.build
      BY <1>7, <2>2 DEF Holds
    <3>2. PICK w \in Subjects(index) : <<"id", w>> \in r.terms
      BY <1>7, <2>2 DEF Holds
    <3>3. PICK s \in semantic.found : s.index = index /\ w = s.id
      BY <3>2 DEF Subjects
    <3>4. s \in Contents /\ s.build = reader.build
      BY <1>1, <1>2, <3>3 DEF Subjected
    <3>5. r = s
      BY <3>1, <3>2, <3>3, <3>4
    <3> QED
      BY <3>1, <3>3, <3>5 DEF OfIndex
  <2> QED
    BY <2>1, <2>2
<1>9. Answer(b) = TopOf(AnswerOrder(S, b.how), b.size)
  BY <1>8 DEF Answer, AnswerOrder
<1>10. S \in SUBSET Contents /\ PlacesApart(S)
  BY <1>1, <1>2, <1>5 DEF PlacesApart
<1> DEFINE seq == AnswerOrder(S, b.how)
<1> HIDE DEF b, S
<1>11. Lists(S, PlaceOrder, seq)
  BY <1>7, <1>10, AnswerList
<1>12. StrictOrder(S, PlaceOrder)
  BY <1>10, PlaceList
<1> HIDE DEF seq
<1>13. Range(TopOf(seq, b.size)) = Ahead(S, PlaceOrder, b.size)
  BY <1>4, <1>7, <1>11, <1>12, TopIsAhead, FS_CardinalityType
<1>14. Ahead(S, PlaceOrder, b.size) = S
  BY <1>4, <1>7, <1>12, AheadAll, FS_CardinalityType
<1> QED
  BY <1>9, <1>13, <1>14 DEF b, S, seq

\* A body that is asked is answered from what was recorded, or by the server,
\* with the same hits.
LEMMA HitsAre ==
  ASSUME SentOK, ~recording.on
  PROVE  \A b : Hits(b) = Answer(b)
<1> TAKE b
<1>1. CASE \E p \in prefetched : p.body = b
  <2> DEFINE p == CHOOSE p \in prefetched : p.body = b
  <2>1. p \in prefetched /\ p.body = b
    BY <1>1
  <2>2. p.hits = Answer(b)
    BY <2>1 DEF SentOK
  <2> QED
    BY <1>1, <2>2 DEF Hits
<1>2. CASE ~\E p \in prefetched : p.body = b
  BY <1>2 DEF Hits
<1> QED
  BY <1>1, <1>2

\* The nearest of both indexes are among the nearest of each.
LEMMA BothIndexes ==
  ASSUME reader.query \in Queries
  PROVE  LET A == Subjected(reader.build)
             k == reader.query.limit
         IN Range(Nearest(Ahead(OfIndex(A, "chunks"), NearOrder, k) \cup Ahead(OfIndex(A, "code"), NearOrder, k), k))
              = TopSubjects
<1> USE ReadingAssumption
<1> DEFINE A == Subjected(reader.build)
           k == reader.query.limit
           C == OfIndex(A, "chunks")
           D == OfIndex(A, "code")
           T == Ahead(C, NearOrder, k) \cup Ahead(D, NearOrder, k)
<1>1. /\ A \in SUBSET Contents /\ NearApart(A) /\ IsFiniteSet(A) /\ StrictOrder(A, NearOrder)
      /\ k \in 0..MaxRead /\ k \in Nat
  BY SubjectedApart, NearKeys
<1>2. C \in SUBSET A /\ D \in SUBSET A /\ T \in SUBSET A
  BY DEF OfIndex, Ahead
<1>3. \A x \in A : x \in C \/ x \in D
  BY DEF OfIndex, Subjected
<1> HIDE DEF A, C, D
<1>4. Ahead(A, NearOrder, k) \subseteq T
  <2>1. ASSUME NEW P \in SUBSET A, NEW x \in P, x \in Ahead(A, NearOrder, k) PROVE x \in Ahead(P, NearOrder, k)
    <3>1. /\ Rank(P, NearOrder, x) <= Rank(A, NearOrder, x) /\ Rank(A, NearOrder, x) < k
          /\ Rank(P, NearOrder, x) \in Int /\ Rank(A, NearOrder, x) \in Int
      BY <1>1, <2>1, RankOfPart, RankType DEF Ahead
    <3> QED
      BY <1>1, <3>1 DEF Ahead
  <2>2. \A x \in Ahead(A, NearOrder, k) : x \in A
    BY DEF Ahead
  <2> QED
    BY <1>2, <1>3, <2>1, <2>2
<1> HIDE DEF T
<1>5. Ahead(T, NearOrder, k) = Ahead(A, NearOrder, k)
  BY <1>1, <1>2, <1>4, AheadOfPart
<1>6. T \in SUBSET Contents /\ NearApart(T)
  BY <1>1, <1>2 DEF NearApart
<1>7. Range(Nearest(T, k)) = Ahead(T, NearOrder, k)
  BY <1>1, <1>6, NearestIs
<1> QED
  BY <1>5, <1>7 DEF TopSubjects, A, T, C, D

\* What is left after the first n of a listing is the rest of it.
LEMMA RestOfList ==
  ASSUME NEW S \in SUBSET Contents, PlacesApart(S), NEW n \in 0..Cardinality(S), NEW after,
         after = IF n = 0 THEN 0 ELSE PlacesOf(S)[n].at
  PROVE  LET rest == {r \in S : r.at > after}
         IN /\ rest \in SUBSET Contents /\ PlacesApart(rest) /\ IsFiniteSet(rest)
            /\ Cardinality(rest) = Cardinality(S) - n
            /\ \A i \in 1..Cardinality(rest) : PlacesOf(rest)[i] = PlacesOf(S)[n + i]
<1> USE ReadingAssumption
<1> DEFINE rest == {r \in S : r.at > after}
           first == Ahead(S, PlaceOrder, n)
<1>1. /\ IsFiniteSet(S) /\ StrictOrder(S, PlaceOrder) /\ Lists(S, PlaceOrder, PlacesOf(S))
      /\ Cardinality(S) \in Nat
  BY PlaceList, FS_CardinalityType DEF PlacesOf
<1>2. \A x, y \in S : <<x, y>> \in PlaceOrder <=> x.at < y.at
  BY LessOne DEF PlaceOrder
<1>3. \A x \in S : x.at > after <=> Rank(S, PlaceOrder, x) >= n
  <2> TAKE x \in S
  <2>1. Rank(S, PlaceOrder, x) \in 0..(Cardinality(S) - 1) /\ x.at \in Nat \ {0}
    BY <1>1, RankType
  <2>2. CASE n = 0
    BY <2>1, <2>2
  <2>3. CASE n # 0
    <3> DEFINE z == PlacesOf(S)[n]
    <3>1. z \in S /\ Rank(S, PlaceOrder, z) = n - 1 /\ after = z.at
      BY <1>1, <2>3 DEF Lists
    <3>2. z.at < x.at <=> n - 1 < Rank(S, PlaceOrder, x)
      <4> HIDE DEF z
      <4>1. <<z, x>> \in PlaceOrder <=> Rank(S, PlaceOrder, z) < Rank(S, PlaceOrder, x)
        BY <1>1, <3>1, RankOrder
      <4> QED
        BY <1>2, <3>1, <4>1
    <3>3. z.at \in Nat
      BY <3>1
    <3> QED
      BY <2>1, <3>1, <3>2, <3>3
  <2> QED
    BY <2>2, <2>3
<1>4. rest = S \ first
  <2>1. \A x \in S : Rank(S, PlaceOrder, x) \in Int
    BY <1>1, RankType
  <2> QED
    BY <1>3, <2>1 DEF Ahead
<1>5. rest \in SUBSET Contents /\ PlacesApart(rest) /\ rest \in SUBSET S
  BY DEF PlacesApart
<1> HIDE DEF rest
<1>6. IsFiniteSet(rest) /\ StrictOrder(rest, PlaceOrder) /\ Lists(rest, PlaceOrder, PlacesOf(rest)) /\ Cardinality(rest) \in Nat
  BY <1>5, PlaceList, FS_CardinalityType DEF PlacesOf
<1>7. Cardinality(first) = n /\ first \in SUBSET S /\ IsFiniteSet(first)
  <2>1. CASE n = Cardinality(S)
    BY <1>1, <2>1, AheadAll
  <2>2. CASE n < Cardinality(S)
    BY <1>1, <2>2, AheadCount, FS_Subset DEF Ahead
  <2> QED
    BY <1>1, <2>1, <2>2
<1>8. Cardinality(rest) = Cardinality(S) - n
  <2>1. S \cap first = first
    BY <1>7
  <2>2. Cardinality(S \ first) = Cardinality(S) - Cardinality(S \cap first)
    BY <1>1, FS_Difference, Zenon
  <2> QED
    BY <1>4, <1>7, <2>1, <2>2
<1>9. ASSUME NEW x \in rest PROVE Rank(rest, PlaceOrder, x) = Rank(S, PlaceOrder, x) - n
  <2>1. Rank(S, PlaceOrder, x) >= n /\ x \in S /\ Rank(S, PlaceOrder, x) \in Int
    BY <1>1, <1>3, <1>5, RankType DEF rest
  <2>2. first \subseteq Below(S, PlaceOrder, x)
    <3>1. ASSUME NEW y \in first PROVE y \in Below(S, PlaceOrder, x)
      <4>1. y \in S /\ Rank(S, PlaceOrder, y) < n /\ Rank(S, PlaceOrder, y) \in Int
        BY <1>1, RankType DEF Ahead
      <4>2. Rank(S, PlaceOrder, y) < Rank(S, PlaceOrder, x)
        BY <2>1, <4>1
      <4> QED
        BY <1>1, <2>1, <4>1, <4>2, RankOrder DEF Below
    <3> QED
      BY <3>1
  <2>3. Below(rest, PlaceOrder, x) = Below(S, PlaceOrder, x) \ first
    BY <1>4 DEF Below
  <2>4. Below(S, PlaceOrder, x) \cap first = first
    BY <2>2
  <2>5. IsFiniteSet(Below(S, PlaceOrder, x))
    BY <1>1, <2>1, RankType
  <2> DEFINE B == Below(S, PlaceOrder, x)
  <2> HIDE DEF first, B
  <2>6. Cardinality(B \ first) = Cardinality(B) - Cardinality(B \cap first)
    BY <2>5, FS_Difference, Zenon DEF B
  <2> QED
    BY <1>7, <2>3, <2>4, <2>6 DEF Rank, B
<1>10. ASSUME NEW i \in 1..Cardinality(rest) PROVE PlacesOf(rest)[i] = PlacesOf(S)[n + i]
  <2>1. n + i \in 1..Cardinality(S)
    BY <1>1, <1>6, <1>8
  <2>2. PlacesOf(rest)[i] \in rest /\ Rank(rest, PlaceOrder, PlacesOf(rest)[i]) = i - 1
    BY <1>6 DEF Lists
  <2>3. PlacesOf(S)[n + i] \in S /\ Rank(S, PlaceOrder, PlacesOf(S)[n + i]) = n + i - 1
    BY <1>1, <2>1 DEF Lists
  <2>4. PlacesOf(rest)[i] \in S /\ Rank(S, PlaceOrder, PlacesOf(rest)[i]) = n + i - 1
    <3>1. Rank(S, PlaceOrder, PlacesOf(rest)[i]) \in Int
      BY <1>1, <1>5, <2>2, RankType
    <3> QED
      BY <1>5, <1>9, <2>2, <3>1
  <2> QED
    BY <1>1, <2>3, <2>4, RankOne
<1> QED
  BY <1>5, <1>6, <1>8, <1>10 DEF rest

\* The documents of a page are at places of their own.
LEMMA WholePlaces ==
  ASSUME NEW index
  PROVE  /\ Whole(index) \in SUBSET Contents /\ PlacesApart(Whole(index))
         /\ IsFiniteSet(Whole(index)) /\ Cardinality(Whole(index)) \in Nat
         /\ Lists(Whole(index), PlaceOrder, PlacesOf(Whole(index)))
<1>1. Whole(index) \in SUBSET Contents
  BY DEF Whole
<1>2. ASSUME NEW r \in Whole(index), NEW s \in Whole(index), r.at = s.at PROVE r = s
  <2>1. r \in Contents /\ s \in Contents /\ r.build = s.build /\ r.index = s.index
    BY DEF Whole
  <2> QED
    BY <1>2, <2>1, ReadingAssumption
<1>3. PlacesApart(Whole(index))
  BY <1>2 DEF PlacesApart
<1> QED
  BY <1>1, <1>3, PlaceList, FS_CardinalityType DEF PlacesOf

\* A page appended to the pages before it lists one more piece of the whole.
LEMMA Listing ==
  ASSUME ListOK
  PROVE  ListedWhole
<1> SUFFICES ASSUME listing.done PROVE listing.got = PlacesOf(Whole(reader.index))
  BY DEF ListedWhole, PlacesOf
<1>1. reader.kind = "list"
  BY DEF ListOK, NoListing
<1> DEFINE all == PlacesOf(Whole(reader.index))
           whole == Cardinality(Whole(reader.index))
<1>2. /\ listing.got \in Seq(Contents) /\ Len(listing.got) = whole
      /\ \A i \in 1..whole : listing.got[i] = all[i]
  BY <1>1 DEF ListOK
<1>3. all \in [1..whole -> Contents] /\ whole \in Nat
  BY WholePlaces DEF Lists
<1>4. listing.got \in [1..whole -> Contents]
  BY <1>2
<1> HIDE DEF all, whole
<1>5. listing.got = all
  <2> DEFINE places == 1..whole
  <2>1. listing.got \in [places -> Contents] /\ all \in [places -> Contents] /\ \A i \in places : listing.got[i] = all[i]
    BY <1>2, <1>3, <1>4
  <2> HIDE DEF places
  <2> QED
    BY <2>1
<1> QED
  BY <1>5 DEF all

\* What a sequence holds after another is appended.
LEMMA AppendRange ==
  ASSUME NEW s, s \in Seq(Range(s)), NEW x
  PROVE  Append(s, x) \in Seq(Range(Append(s, x))) /\ Range(Append(s, x)) = Range(s) \cup {x}
<1> DEFINE R == Range(s) \cup {x}
           t == Append(s, x)
<1>1. s \in Seq(R) /\ x \in R /\ t \in Seq(R) /\ Len(t) = Len(s) + 1 /\ Len(s) \in Nat /\ DOMAIN s = 1..Len(s)
  BY DEF Range
<1>2. DOMAIN t = 1..(Len(s) + 1) /\ (\A i \in 1..Len(s) : t[i] = s[i]) /\ t[Len(s) + 1] = x
  BY <1>1
<1> HIDE DEF t
<1>3. Range(t) = R
  <2>1. ASSUME NEW y \in Range(t) PROVE y \in R
    BY <1>1, <1>2 DEF Range
  <2>2. ASSUME NEW y \in Range(s) PROVE y \in Range(t)
    BY <1>1, <1>2 DEF Range
  <2>3. x \in Range(t)
    BY <1>1, <1>2 DEF Range
  <2> QED
    BY <2>1, <2>2, <2>3
<1> QED
  BY <1>1, <1>3 DEF t

\* A step that leaves the searches alone keeps what is said of them.
LEMMA SearchKept ==
  ASSUME ReadingInv, UNCHANGED <<reader, recording, prefetched, lexical, semantic>>, DOMAIN graphDoc' = DOMAIN graphDoc
  PROVE  ReaderOK' /\ SentOK' /\ LexicalSame' /\ LateOK'
<1>1. reader' = reader /\ recording' = recording /\ prefetched' = prefetched /\ lexical' = lexical /\ semantic' = semantic
  OBVIOUS
<1>2. \A b : Answer(b)' = Answer(b)
  BY <1>1, AnswerBuild
<1>3. ReaderOK'
  BY <1>1 DEF ReadingInv, ReaderOK
<1>4. SentOK'
  BY <1>1, <1>2 DEF ReadingInv, SentOK
<1>5. LexicalSame'
  BY <1>1, <1>2 DEF ReadingInv, LexicalSame
<1>6. LateOK'
  BY <1>1 DEF ReadingInv, LateOK, TopSubjects
<1> QED
  BY <1>3, <1>4, <1>5, <1>6

\* A step that leaves the listing alone keeps what is said of it.
LEMMA ListKept ==
  ASSUME ReadingInv, reader' = reader, listing' = listing
  PROVE  ListOK'
BY DEF ReadingInv, ListOK, Whole

\* A step that leaves the graph reads alone keeps what is said of them.
LEMMA GraphKept ==
  ASSUME ReadingInv, UNCHANGED <<graphDoc, servedGraph, graphReads>>
  PROVE  GraphOK' /\ GraphReadsRight'
BY DEF ReadingInv, GraphOK, GraphReadsRight

\* Nothing is read yet.
LEMMA ReadingStarts == ReadingInit => ReadingInv
<1> SUFFICES ASSUME ReadingInit PROVE ReadingInv
  OBVIOUS
<1> USE DEF ReadingInit, NoReader, NotRecording, NoLexical, NoSemantic, NoListing, Unresolved
<1>1. ReaderOK
  BY DEF ReaderOK
<1>2. SentOK /\ LexicalSame
  BY DEF SentOK, LexicalSame, Range
<1>3. LateOK /\ ListOK
  BY DEF LateOK, ListOK
<1>4. GraphOK /\ GraphReadsRight
  BY DEF GraphOK, GraphReadsRight
<1> QED
  BY <1>1, <1>2, <1>3, <1>4 DEF ReadingInv

\* A read begins with nothing recorded, searched, listed or resolved.
LEMMA BeginReadKeeps == ReadingInv /\ BeginRead => ReadingInv'
<1> SUFFICES ASSUME ReadingInv, BeginRead PROVE ReadingInv'
  OBVIOUS
<1>1. /\ reader.kind = "none" /\ recording' = recording /\ prefetched' = prefetched /\ listing' = listing
      /\ gensThere' = gensThere /\ servedGraph' = servedGraph /\ graphReads' = graphReads
      /\ graphDoc' = graphDoc
  BY DEF BeginRead
<1>2. /\ lexical.at = "idle" /\ semantic.at = "idle" /\ lexical.got = <<>> /\ prefetched = {}
      /\ ~recording.on /\ listing = NoListing
      /\ DOMAIN lexical = {"at", "calls", "got"} /\ DOMAIN semantic = {"at", "found", "known"}
      /\ DOMAIN recording = {"on", "bodies"} /\ DOMAIN graphDoc = {"state", "base", "gen"}
  BY <1>1 DEF ReadingInv, ReaderOK, ListOK
<1>3. GraphOK' /\ GraphReadsRight'
  BY <1>1, GraphKept
<1>4. ASSUME NEW b \in BaseBuilds, NEW q \in Queries, NEW eager \in BOOLEAN,
             reader' = [kind |-> "search", build |-> b, query |-> q, eager |-> eager],
             lexical' = [NoLexical EXCEPT !.at = "record", !.calls = LexicalCalls(q)],
             semantic' = [NoSemantic EXCEPT !.at = IF eager THEN "chunks" ELSE "late"]
      PROVE  ReaderOK' /\ SentOK' /\ LexicalSame' /\ LateOK' /\ ListOK'
  <2>1. lexical' = [at |-> "record", calls |-> LexicalCalls(q), got |-> <<>>]
    BY <1>4 DEF NoLexical
  <2>2. semantic' = [at |-> IF eager THEN "chunks" ELSE "late", found |-> {}, known |-> {}]
    BY <1>4 DEF NoSemantic
  <2>3. ReaderOK'
    BY <1>1, <1>2, <1>4, <2>1, <2>2 DEF ReaderOK
  <2>4. SentOK' /\ LexicalSame'
    BY <1>1, <1>2, <2>1 DEF SentOK, LexicalSame, Range
  <2>5. LateOK'
    BY <1>4, <2>2 DEF LateOK
  <2>6. ListOK'
    BY <1>1, <1>2, <1>4 DEF ListOK
  <2> QED
    BY <2>3, <2>4, <2>5, <2>6
<1>5. ASSUME NEW b \in BaseBuilds, reader'.kind \in {"list", "graph"}, lexical' = lexical, semantic' = semantic
      PROVE  ReaderOK' /\ SentOK' /\ LexicalSame' /\ LateOK'
  <2>1. ReaderOK'
    BY <1>1, <1>2, <1>5 DEF ReaderOK
  <2>2. SentOK' /\ LexicalSame'
    <3>1. lexical'.got = <<>> /\ prefetched' = {} /\ ~recording'.on
      BY <1>1, <1>2, <1>5
    <3> QED
      BY <3>1 DEF SentOK, LexicalSame, Range
  <2>3. LateOK'
    BY <1>5 DEF LateOK
  <2> QED
    BY <2>1, <2>2, <2>3
<1>6. ASSUME NEW b \in BaseBuilds, NEW index, reader' = [kind |-> "list", build |-> b, index |-> index]
      PROVE  ListOK'
  <2>1. Cardinality(Whole(reader.index))' \in Nat
    <3>1. (Cardinality(Whole(index)) \in Nat)'
      BY WholePlaces, PTL
    <3> QED
      BY <1>6, <3>1
  <2>2. listing' = [after |-> 0, got |-> <<>>, done |-> FALSE]
    BY <1>1, <1>2 DEF NoListing
  <2> QED
    BY <1>6, <2>1, <2>2 DEF ListOK
<1>7. ASSUME reader'.kind = "graph" PROVE ListOK'
  BY <1>1, <1>2, <1>7 DEF ListOK
<1>8. ReaderOK' /\ SentOK' /\ LexicalSame' /\ LateOK' /\ ListOK'
  <2>1. PICK b \in BaseBuilds :
         \/ \E q \in Queries, eager \in BOOLEAN :
              /\ reader' = [kind |-> "search", build |-> b, query |-> q, eager |-> eager]
              /\ lexical' = [NoLexical EXCEPT !.at = "record", !.calls = LexicalCalls(q)]
              /\ semantic' = [NoSemantic EXCEPT !.at = IF eager THEN "chunks" ELSE "late"]
         \/ \E index \in {"code", "chunks"} :
              /\ reader' = [kind |-> "list", build |-> b, index |-> index]
              /\ UNCHANGED <<lexical, semantic>>
         \/ \E strict \in BOOLEAN :
              /\ reader' = [kind |-> "graph", build |-> b, strict |-> strict]
              /\ UNCHANGED <<lexical, semantic>>
    BY DEF BeginRead
  <2>2. CASE \E q \in Queries, eager \in BOOLEAN :
              /\ reader' = [kind |-> "search", build |-> b, query |-> q, eager |-> eager]
              /\ lexical' = [NoLexical EXCEPT !.at = "record", !.calls = LexicalCalls(q)]
              /\ semantic' = [NoSemantic EXCEPT !.at = IF eager THEN "chunks" ELSE "late"]
    BY <1>4, <2>2
  <2>3. ASSUME NEW index, reader' = [kind |-> "list", build |-> b, index |-> index], UNCHANGED <<lexical, semantic>>
        PROVE  ReaderOK' /\ SentOK' /\ LexicalSame' /\ LateOK' /\ ListOK'
    BY <1>5, <1>6, <2>3
  <2>4. ASSUME NEW strict, reader' = [kind |-> "graph", build |-> b, strict |-> strict], UNCHANGED <<lexical, semantic>>
        PROVE  ReaderOK' /\ SentOK' /\ LexicalSame' /\ LateOK' /\ ListOK'
    BY <1>5, <1>7, <2>4
  <2> QED
    BY <2>1, <2>2, <2>3, <2>4
<1> QED
  BY <1>3, <1>8 DEF ReadingInv

\* Recording the bodies of a search and sending them in one request asks
\* nothing twice.
LEMMA SendKeeps == ReadingInv /\ (StartRecording \/ RecordCalls \/ SendRecorded) => ReadingInv'
<1> SUFFICES ASSUME ReadingInv, StartRecording \/ RecordCalls \/ SendRecorded PROVE ReadingInv'
  OBVIOUS
<1> USE DEF StartRecording, RecordCalls, SendRecorded
<1>1. /\ reader' = reader /\ semantic' = semantic /\ listing' = listing
      /\ graphDoc' = graphDoc /\ servedGraph' = servedGraph /\ graphReads' = graphReads
  OBVIOUS
<1>2. \A b : Answer(b)' = Answer(b)
  BY <1>1, AnswerBuild
<1>3. ListOK' /\ GraphOK' /\ GraphReadsRight'
  BY <1>1, ListKept, GraphKept
<1>4. DOMAIN lexical = {"at", "calls", "got"} /\ DOMAIN recording = {"on", "bodies"}
  BY DEF ReadingInv, ReaderOK
<1>5. reader.kind = "search" /\ semantic' = semantic
  BY DEF ReadingInv, ReaderOK
<1>6. /\ DOMAIN lexical' = DOMAIN lexical /\ lexical'.got = lexical.got
      /\ lexical.at \in {"record", "recorded", "send"}
  BY <1>4
<1>7. /\ DOMAIN recording' = {"on", "bodies"}
      /\ recording'.on => lexical'.at \in {"recorded", "send"}
  BY <1>4 DEF ReadingInv, SentOK, NotRecording
<1>8. \A p \in prefetched' : p.hits = Answer(p.body)
  <2>1. \A p \in prefetched : p.hits = Answer(p.body)
    BY DEF ReadingInv, SentOK
  <2>2. CASE StartRecording \/ RecordCalls
    BY <2>1, <2>2
  <2>3. CASE SendRecorded
    <3>1. PICK failed \in SUBSET recording.bodies :
            prefetched' = {p \in prefetched : p.body \notin recording.bodies \ failed}
                            \cup Answered(recording.bodies, failed)
      BY <2>3
    <3>2. \A p \in Answered(recording.bodies, failed) : p.hits = Answer(p.body)
      BY DEF Answered
    <3> QED
      BY <2>1, <3>1, <3>2
  <2> QED
    BY <2>2, <2>3
<1>9. ReaderOK'
  BY <1>1, <1>4, <1>5, <1>6, <1>7 DEF ReadingInv, ReaderOK
<1>10. SentOK'
  BY <1>2, <1>6, <1>7, <1>8 DEF ReadingInv, SentOK
<1>11. LexicalSame'
  BY <1>2, <1>6 DEF ReadingInv, LexicalSame
<1>12. LateOK'
  <2>1. reader.eager = FALSE => semantic.at = "late" /\ semantic.found = {} /\ semantic.known = {}
    BY <1>5, <1>6 DEF ReadingInv, LateOK
  <2> QED
    BY <1>1, <2>1 DEF LateOK, ReadingInv, ReaderOK
<1> QED
  BY <1>3, <1>9, <1>10, <1>11, <1>12 DEF ReadingInv

\* A lexical call is answered from the recording, or by a request of its own.
LEMMA LexicalCallKeeps == ReadingInv /\ LexicalCall => ReadingInv'
<1> SUFFICES ASSUME ReadingInv, LexicalCall PROVE ReadingInv'
  OBVIOUS
<1>1. /\ reader' = reader /\ semantic' = semantic /\ listing' = listing
      /\ graphDoc' = graphDoc /\ servedGraph' = servedGraph /\ graphReads' = graphReads
      /\ lexical.at = "call" /\ lexical.calls # <<>>
  BY DEF LexicalCall
<1>2. \A b : Answer(b)' = Answer(b)
  BY <1>1, AnswerBuild
<1>3. ListOK' /\ GraphOK' /\ GraphReadsRight'
  BY <1>1, ListKept, GraphKept
<1>4. /\ DOMAIN lexical = {"at", "calls", "got"} /\ DOMAIN recording = {"on", "bodies"}
      /\ ~recording.on /\ reader.kind = "search"
  BY <1>1 DEF ReadingInv, ReaderOK, SentOK
<1>5. /\ recording' = recording /\ prefetched' \subseteq prefetched
      /\ lexical'.at = "call" /\ DOMAIN lexical' = DOMAIN lexical
      /\ \/ lexical'.got = lexical.got
         \/ \E b : lexical'.got = Append(lexical.got, [body |-> b, hits |-> Hits(b)])
  BY <1>1, <1>4 DEF LexicalCall, NoteSearch
<1>6. ReaderOK'
  BY <1>1, <1>4, <1>5 DEF ReadingInv, ReaderOK
<1>7. SentOK' /\ LexicalSame'
  <2>1. /\ ~recording'.on /\ (\A p \in prefetched' : p.hits = Answer(p.body))
        /\ lexical.got \in Seq(Range(lexical.got)) /\ \A g \in Range(lexical.got) : g.hits = Answer(g.body)
    BY <1>4, <1>5 DEF ReadingInv, SentOK, LexicalSame
  <2>2. CASE lexical'.got = lexical.got
    BY <1>2, <2>1, <2>2 DEF SentOK, LexicalSame
  <2>3. ASSUME NEW b, lexical'.got = Append(lexical.got, [body |-> b, hits |-> Hits(b)])
        PROVE  SentOK' /\ LexicalSame'
    <3> DEFINE g == [body |-> b, hits |-> Hits(b)]
    <3>1. g.hits = Answer(g.body)
      BY <1>4, HitsAre DEF ReadingInv
    <3> HIDE DEF g
    <3>2. lexical'.got \in Seq(Range(lexical'.got)) /\ Range(lexical'.got) = Range(lexical.got) \cup {g}
      BY <2>1, <2>3, AppendRange DEF g
    <3> QED
      BY <1>2, <2>1, <3>1, <3>2 DEF SentOK, LexicalSame
  <2> QED
    BY <1>5, <2>2, <2>3
<1>8. LateOK'
  <2>1. reader.eager = FALSE => semantic.at = "late" /\ semantic.found = {} /\ semantic.known = {}
    BY <1>1, <1>4 DEF ReadingInv, LateOK
  <2> QED
    BY <1>1, <1>4, <2>1 DEF LateOK, ReadingInv, ReaderOK
<1> QED
  BY <1>3, <1>6, <1>7, <1>8 DEF ReadingInv

\* A search that fails leaves no answer behind.
LEMMA SearchFailsKeeps == ReadingInv /\ SearchFails => ReadingInv'
<1> SUFFICES ASSUME ReadingInv, SearchFails PROVE ReadingInv'
  OBVIOUS
<1>1. /\ reader' = [kind |-> "failed"] /\ recording' = NotRecording /\ prefetched' = {}
      /\ lexical' = NoLexical /\ semantic' = NoSemantic /\ listing' = listing
      /\ graphDoc' = graphDoc /\ servedGraph' = servedGraph /\ graphReads' = graphReads
      /\ reader.kind = "search"
  BY DEF SearchFails
<1> USE DEF NotRecording, NoLexical, NoSemantic
<1>2. ReaderOK'
  BY <1>1 DEF ReadingInv, ReaderOK
<1>3. SentOK' /\ LexicalSame'
  <2>1. lexical'.got = <<>> /\ prefetched' = {} /\ ~recording'.on
    BY <1>1
  <2> QED
    BY <2>1 DEF SentOK, LexicalSame, Range
<1>4. LateOK' /\ ListOK'
  BY <1>1 DEF ReadingInv, LateOK, ListOK
<1> QED
  BY <1>1, <1>2, <1>3, <1>4, GraphKept DEF ReadingInv

\* A step of the semantic thread, whatever it searches.
LEMMA SemanticKeeps ==
  ASSUME ReadingInv, UNCHANGED <<reader, lexical, listing, graphDoc, gensThere, servedGraph, graphReads>>,
         semantic.at # "idle", DOMAIN semantic' = DOMAIN semantic,
         \/ UNCHANGED <<recording, prefetched>>
         \/ \E b : NoteSearch(b)
  PROVE  ReaderOK' /\ SentOK' /\ LexicalSame' /\ ListOK' /\ GraphOK' /\ GraphReadsRight'
<1>1. /\ reader' = reader /\ lexical' = lexical /\ listing' = listing
      /\ graphDoc' = graphDoc /\ servedGraph' = servedGraph /\ graphReads' = graphReads
  OBVIOUS
<1>2. \A b : Answer(b)' = Answer(b)
  BY <1>1, AnswerBuild
<1>3. DOMAIN recording = {"on", "bodies"} /\ reader.kind = "search"
  BY DEF ReadingInv, ReaderOK
<1>4. prefetched' \subseteq prefetched /\ DOMAIN recording' = {"on", "bodies"} /\ recording'.on = recording.on
  BY <1>3 DEF NoteSearch
<1>5. ReaderOK'
  BY <1>1, <1>3, <1>4 DEF ReadingInv, ReaderOK
<1>6. SentOK' /\ LexicalSame'
  BY <1>1, <1>2, <1>4 DEF ReadingInv, SentOK, LexicalSame
<1> QED
  BY <1>1, <1>5, <1>6, ListKept, GraphKept

\* The vector searches find the nearest of each index.
LEMMA VectorKeeps ==
  ASSUME NEW index, NEW next, ReadingInv, VectorSearch(index, next),
         <<index, next>> \in {<<"chunks", "code">>, <<"code", "meta code">>}
  PROVE  ReadingInv'
<1> DEFINE b == VectorBody(index)
           found == semantic.found \cup Range(Hits(b))
<1>1. /\ NoteSearch(b) /\ reader' = reader /\ lexical' = lexical
      /\ semantic' = [semantic EXCEPT !.at = next, !.found =
                        IF next = "meta code" THEN Range(Nearest(found, reader.query.limit)) ELSE found]
      /\ semantic.at = index \/ (semantic.at = "late" /\ index = "chunks"
                                 /\ lexical.at = "call" /\ lexical.calls = <<>>)
      /\ UNCHANGED <<reader, lexical, listing, graphDoc, gensThere, servedGraph, graphReads>>
  BY DEF VectorSearch
<1>2. semantic.at # "idle" /\ DOMAIN semantic' = DOMAIN semantic /\ DOMAIN semantic = {"at", "found", "known"}
  BY <1>1 DEF ReadingInv, ReaderOK
<1>3. reader.kind = "search" /\ reader.query \in Queries
  BY <1>2 DEF ReadingInv, ReaderOK
<1>4. ReaderOK' /\ SentOK' /\ LexicalSame' /\ ListOK' /\ GraphOK' /\ GraphReadsRight'
  <2>1. \E x : NoteSearch(x)
    BY <1>1
  <2> QED
    BY <1>1, <1>2, <2>1, SemanticKeeps
<1>5. ASSUME ~reader.eager PROVE LateOK'
  <2>1. lexical.at = "call" /\ lexical.calls = <<>> /\ ~recording.on
    BY <1>1, <1>3, <1>5 DEF ReadingInv, LateOK, SentOK
  <2>2. Range(Hits(b)) = Ahead(OfIndex(Subjected(reader.build), index), NearOrder, reader.query.limit)
    BY <1>3, <2>1, HitsAre, KnnAnswer DEF ReadingInv
  <2>3. semantic'.at = next /\ semantic'.known = semantic.known
        /\ semantic'.found = IF next = "meta code" THEN Range(Nearest(found, reader.query.limit)) ELSE found
    BY <1>1, <1>2
  <2> HIDE DEF b
  <2>4. CASE index = "chunks"
    <3>1. semantic.at = "late" /\ semantic.found = {} /\ semantic.known = {} /\ next = "code"
      BY <1>1, <1>3, <1>5, <2>4 DEF ReadingInv, LateOK
    <3>2. semantic'.found = Ahead(OfIndex(Subjected(reader.build), "chunks"), NearOrder, reader.query.limit)
      BY <2>2, <2>3, <2>4, <3>1
    <3> QED
      BY <1>1, <2>1, <2>3, <3>1, <3>2 DEF LateOK
  <2>5. CASE index = "code"
    <3>1. /\ semantic.at = "code" /\ semantic.known = {} /\ next = "meta code"
          /\ semantic.found = Ahead(OfIndex(Subjected(reader.build), "chunks"), NearOrder, reader.query.limit)
      BY <1>1, <1>3, <1>5, <2>5 DEF ReadingInv, LateOK
    <3>2. semantic'.found = TopSubjects
      BY <1>3, <2>2, <2>3, <2>5, <3>1, BothIndexes
    <3>3. TopSubjects' = TopSubjects
      BY <1>1 DEF TopSubjects
    <3> QED
      BY <1>1, <2>1, <2>3, <3>1, <3>2, <3>3 DEF LateOK
  <2> QED
    BY <2>4, <2>5
<1>6. LateOK'
  <2>1. CASE reader.eager
    BY <1>1, <2>1 DEF LateOK
  <2> QED
    BY <1>5, <2>1
<1> QED
  BY <1>4, <1>6 DEF ReadingInv

\* The subjects of the nearest are looked up by id.
LEMMA MetaKeeps ==
  ASSUME NEW index, NEW at, NEW next, ReadingInv, SubjectMeta(index, at, next),
         <<index, at, next>> \in {<<"code", "meta code", "meta chunks">>, <<"chunks", "meta chunks", "done">>}
  PROVE  ReadingInv'
<1> DEFINE b == MetaBody(index)
<1>1. /\ semantic.at = at /\ reader' = reader /\ lexical' = lexical
      /\ semantic' = [semantic EXCEPT !.at = next, !.known = IF Subjects(index) = {} THEN @ ELSE @ \cup Range(Hits(b))]
      /\ UNCHANGED <<reader, lexical, listing, graphDoc, gensThere, servedGraph, graphReads>>
      /\ UNCHANGED <<recording, prefetched>> \/ NoteSearch(b)
  BY DEF SubjectMeta
<1>2. semantic.at # "idle" /\ DOMAIN semantic' = DOMAIN semantic /\ DOMAIN semantic = {"at", "found", "known"}
  BY <1>1 DEF ReadingInv, ReaderOK
<1>3. reader.kind = "search" /\ reader.query \in Queries
  BY <1>2 DEF ReadingInv, ReaderOK
<1>4. ReaderOK' /\ SentOK' /\ LexicalSame' /\ ListOK' /\ GraphOK' /\ GraphReadsRight'
  <2>1. UNCHANGED <<recording, prefetched>> \/ \E x : NoteSearch(x)
    BY <1>1
  <2> QED
    BY <1>1, <1>2, <2>1, SemanticKeeps
<1>5. ASSUME ~reader.eager PROVE LateOK'
  <2>1. lexical.at = "call" /\ lexical.calls = <<>> /\ ~recording.on /\ semantic.found = TopSubjects
    BY <1>1, <1>3, <1>5 DEF ReadingInv, LateOK, SentOK
  <2>2. Range(Hits(b)) = OfIndex(semantic.found, index)
    BY <1>3, <2>1, HitsAre, MetaAnswer DEF ReadingInv
  <2>3. semantic'.at = next /\ semantic'.found = semantic.found
        /\ semantic'.known = IF Subjects(index) = {} THEN semantic.known ELSE semantic.known \cup Range(Hits(b))
    BY <1>1, <1>2
  <2> HIDE DEF b
  <2>4. Subjects(index) = {} => OfIndex(semantic.found, index) = {}
    BY DEF Subjects, OfIndex
  <2>5. semantic'.known = semantic.known \cup OfIndex(semantic.found, index)
    BY <2>2, <2>3, <2>4
  <2>6. TopSubjects' = TopSubjects
    BY <1>1 DEF TopSubjects
  <2>7. CASE index = "code"
    <3>1. semantic.known = {} /\ next = "meta chunks"
      BY <1>1, <1>3, <1>5, <2>7 DEF ReadingInv, LateOK
    <3> QED
      BY <1>1, <2>1, <2>3, <2>5, <2>6, <2>7, <3>1 DEF LateOK
  <2>8. CASE index = "chunks"
    <3>1. semantic.known = OfIndex(semantic.found, "code") /\ next = "done"
      BY <1>1, <1>3, <1>5, <2>8 DEF ReadingInv, LateOK
    <3>2. OfIndex(semantic.found, "code") \cup OfIndex(semantic.found, "chunks") = semantic.found
      BY <2>1, ReadingAssumption DEF TopSubjects, Ahead, Subjected, OfIndex
    <3> QED
      BY <1>1, <2>1, <2>3, <2>5, <2>6, <2>8, <3>1, <3>2 DEF LateOK
  <2> QED
    BY <2>7, <2>8
<1>6. LateOK'
  <2>1. CASE reader.eager
    BY <1>1, <2>1 DEF LateOK
  <2> QED
    BY <1>5, <2>1
<1> QED
  BY <1>4, <1>6 DEF ReadingInv

\* A page starts after the last document of the page before it.
LEMMA PageKeeps == ReadingInv /\ Page => ReadingInv'
<1> SUFFICES ASSUME ReadingInv, Page PROVE ReadingInv'
  OBVIOUS
<1> DEFINE S == Whole(reader.index)
           all == PlacesOf(S)
           n == Len(listing.got)
           rest == {r \in S : r.at > listing.after}
           page == TopOf(PlacesOf(rest), PageSize)
<1>1. /\ reader.kind = "list" /\ ~listing.done /\ reader' = reader
      /\ UNCHANGED <<reader, recording, prefetched, lexical, semantic, graphDoc, gensThere, servedGraph, graphReads>>
      /\ listing' = [after |-> IF page = <<>> THEN 0 ELSE Last(page).at, got |-> listing.got \o page,
                     done |-> Len(page) < PageSize]
  BY DEF Page, PlacesOf
<1>2. /\ listing.got \in Seq(Contents) /\ n \in 0..Cardinality(S) /\ Cardinality(S) \in Nat
      /\ \A i \in 1..n : listing.got[i] = all[i]
      /\ listing.after = IF n = 0 THEN 0 ELSE all[n].at
  BY <1>1, WholePlaces DEF ReadingInv, ListOK
<1>3. S \in SUBSET Contents /\ PlacesApart(S) /\ Lists(S, PlaceOrder, all)
  BY WholePlaces
<1>4. /\ rest \in SUBSET Contents /\ PlacesApart(rest) /\ IsFiniteSet(rest)
      /\ Cardinality(rest) = Cardinality(S) - n
      /\ \A i \in 1..Cardinality(rest) : PlacesOf(rest)[i] = all[n + i]
  <2>1. n \in 0..Cardinality(S) /\ listing.after = IF n = 0 THEN 0 ELSE PlacesOf(S)[n].at
    BY <1>2
  <2>2. S \in SUBSET Contents /\ PlacesApart(S)
    BY <1>3
  <2> HIDE DEF S, n
  <2> QED
    BY <2>1, <2>2, RestOfList
<1> HIDE DEF S, all, rest
<1>5. PageSize \in Nat \ {0}
  BY ReadingAssumption
<1>6. StrictOrder(rest, PlaceOrder) /\ Lists(rest, PlaceOrder, PlacesOf(rest))
  BY <1>4, PlaceList DEF PlacesOf
<1>7. /\ page \in Seq(rest)
      /\ Len(page) = IF Cardinality(rest) < PageSize THEN Cardinality(rest) ELSE PageSize
      /\ \A i \in 1..Len(page) : page[i] = PlacesOf(rest)[i]
  BY <1>4, <1>5, <1>6, TopIsAhead
<1> DEFINE m == Len(page)
<1> HIDE DEF page
<1>8. /\ m \in 0..Cardinality(rest) /\ page \in Seq(Contents)
      /\ \A i \in 1..m : page[i] = all[n + i]
  BY <1>2, <1>4, <1>5, <1>7
<1>9. /\ listing'.got \in Seq(Contents) /\ Len(listing'.got) = n + m
      /\ \A i \in 1..(n + m) : listing'.got[i] = all[i]
  <2>1. listing'.got = listing.got \o page
    BY <1>1
  <2>2. listing'.got \in Seq(Contents) /\ Len(listing'.got) = n + m
    BY <1>2, <1>8, <2>1
  <2>3. ASSUME NEW i \in 1..(n + m) PROVE listing'.got[i] = all[i]
    <3>1. CASE i <= n
      BY <1>2, <1>8, <2>1, <3>1
    <3>2. CASE i > n
      <4>1. i - n \in 1..m /\ n + (i - n) = i
        BY <1>2, <1>8, <3>2
      <4>2. listing'.got[i] = page[i - n]
        BY <1>2, <1>8, <2>1, <3>2
      <4>3. page[i - n] = all[n + (i - n)]
        BY <1>8, <4>1
      <4> QED
        BY <4>1, <4>2, <4>3
    <3> QED
      BY <1>2, <1>8, <3>1, <3>2
  <2> QED
    BY <2>2, <2>3
<1>14. (listing'.done <=> m < PageSize) /\ listing'.after = (IF page = <<>> THEN 0 ELSE Last(page).at)
  BY <1>1
<1> DEFINE left == Cardinality(rest)
<1>15. left \in Nat /\ left = Cardinality(S) - n /\ m = IF left < PageSize THEN left ELSE PageSize
  BY <1>2, <1>4, <1>7
<1> HIDE DEF m, left
<1>10. n + m <= Cardinality(S) /\ (listing'.done => n + m = Cardinality(S))
  BY <1>2, <1>5, <1>14, <1>15
<1>11. ~listing'.done => n + m # 0 /\ listing'.after = all[n + m].at
  <2> SUFFICES ASSUME ~listing'.done PROVE n + m # 0 /\ listing'.after = all[n + m].at
    OBVIOUS
  <2>1. m = PageSize /\ m \in 1..m
    BY <1>5, <1>14, <1>15
  <2>2. page # <<>>
    BY <1>5, <2>1 DEF m
  <2>3. Last(page) = all[n + m]
    BY <1>8, <2>1 DEF Last, m
  <2> QED
    BY <1>2, <1>5, <1>14, <2>1, <2>2, <2>3
<1>12. S' = S /\ all' = all
  BY <1>1 DEF S, all, Whole
<1>13. ListOK'
  <2>1. /\ Len(listing'.got) <= Cardinality(S) /\ (listing'.done => Len(listing'.got) = Cardinality(S))
        /\ (\A i \in 1..Len(listing'.got) : listing'.got[i] = all[i])
        /\ (~listing'.done => listing'.after = IF Len(listing'.got) = 0 THEN 0 ELSE all[Len(listing'.got)].at)
    BY <1>9, <1>10, <1>11 DEF m
  <2> QED
    BY <1>1, <1>9, <1>12, <2>1 DEF ListOK, S, all
<1> QED
  BY <1>1, <1>13, SearchKept, GraphKept DEF ReadingInv

\* Generations of the graph come and go between the reads of one query.
LEMMA GraphKeeps ==
  ReadingInv /\ (GraphPromoted \/ CollectGraphs \/ DisableGraph \/ ReadEdges \/ GraphFreshness) => ReadingInv'
<1> SUFFICES ASSUME ReadingInv, GraphPromoted \/ CollectGraphs \/ DisableGraph \/ ReadEdges \/ GraphFreshness
             PROVE  ReadingInv'
  OBVIOUS
<1>1. UNCHANGED <<reader, recording, prefetched, lexical, semantic, listing>>
  BY DEF GraphPromoted, CollectGraphs, DisableGraph, ReadEdges, GraphFreshness
<1>2. DOMAIN graphDoc = {"state", "base", "gen"} /\ graphDoc.gen \in Nat
  BY DEF ReadingInv, ReaderOK, GraphOK
<1>3. DOMAIN graphDoc' = DOMAIN graphDoc /\ graphDoc'.gen \in Nat
  BY <1>2, ReadingAssumption DEF GraphPromoted, CollectGraphs, DisableGraph, ReadEdges, GraphFreshness
<1>4. ReaderOK' /\ SentOK' /\ LexicalSame' /\ LateOK' /\ ListOK'
  BY <1>1, <1>3, SearchKept, ListKept
<1>5. GraphOK' /\ GraphReadsRight'
  <2>1. CASE GraphPromoted \/ CollectGraphs \/ DisableGraph
    <3>1. servedGraph' = servedGraph /\ graphReads' = graphReads
      BY <2>1 DEF GraphPromoted, CollectGraphs, DisableGraph
    <3> QED
      BY <1>3, <3>1 DEF ReadingInv, GraphOK, GraphReadsRight
  <2>2. Resolve.gen \in Nat /\ Resolve # Unresolved /\ (servedGraph # Unresolved => Resolve = servedGraph)
    BY <1>2 DEF Resolve, ServedNow, NoGraph, Unresolved, ReadingInv, GraphOK
  <2>3. CASE GraphFreshness
    <3>1. servedGraph' = Resolve /\ graphReads' = graphReads /\ graphDoc' = graphDoc
      BY <2>3 DEF GraphFreshness
    <3> QED
      BY <1>2, <2>2, <3>1 DEF ReadingInv, GraphOK, GraphReadsRight
  <2>4. CASE ReadEdges
    <3>1. servedGraph' = Resolve /\ graphDoc' = graphDoc
      BY <2>4 DEF ReadEdges
    <3>2. PICK r \in EdgeReads :
            graphReads' = graphReads \cup
              {[read |-> r, gen |-> servedGraph'.gen, there |-> gensThere,
                got |-> EdgesMany(EdgesOf(servedGraph'.gen, gensThere), r.keys, r.types, r.limit)]}
      BY <2>4 DEF ReadEdges
    <3>3. GraphOK'
      BY <1>2, <2>2, <3>1 DEF GraphOK
    <3> DEFINE edges == EdgesOf(servedGraph'.gen, gensThere)
               new == [read |-> r, gen |-> servedGraph'.gen, there |-> gensThere,
                       got |-> EdgesMany(edges, r.keys, r.types, r.limit)]
    <3>4. edges \in SUBSET Edges /\ EdgesApart(edges)
      <4>1. edges \in SUBSET Edges
        BY DEF EdgesOf
      <4>2. ASSUME NEW d \in edges, NEW e \in edges, d.type = e.type, d.id = e.id PROVE d = e
        <5>1. d \in Edges /\ e \in Edges /\ d.gen = e.gen
          BY DEF EdgesOf
        <5> QED
          BY <4>2, <5>1, ReadingAssumption
      <4> QED
        BY <4>1, <4>2 DEF EdgesApart
    <3>5. ASSUME NEW k \in new.read.keys
          PROVE  new.got[k] = EdgesOfKey(EdgesOf(new.gen, new.there), k, new.read.types, new.read.limit)
      <4>1. r.limit \in Nat
        BY ReadingAssumption
      <4> HIDE DEF edges
      <4>2. EdgesMany(edges, r.keys, r.types, r.limit)[k] = EdgesOfKey(edges, k, r.types, r.limit)
        BY <3>4, <4>1, ManyIsEach
      <4> QED
        BY <4>2 DEF edges
    <3>6. \A g \in graphReads : g.gen = servedGraph'.gen
      BY <2>2, <3>1 DEF ReadingInv, GraphOK, GraphReadsRight
    <3>7. new.gen = servedGraph'.gen
      OBVIOUS
    <3>8. graphReads' = graphReads \cup {new}
      BY <3>2
    <3> HIDE DEF new
    <3> QED
      BY <3>3, <3>5, <3>6, <3>7, <3>8 DEF ReadingInv, GraphReadsRight
  <2> QED
    BY <2>1, <2>3, <2>4
<1> QED
  BY <1>4, <1>5 DEF ReadingInv

\* Every step of a reader and of the builds it reads keeps the invariant.
LEMMA ReadingStep == ReadingInv /\ [ReadingNext]_readingVars => ReadingInv'
<1> SUFFICES ASSUME ReadingInv, [ReadingNext]_readingVars PROVE ReadingInv'
  OBVIOUS
<1>1. CASE UNCHANGED readingVars
  BY <1>1, SearchKept, ListKept, GraphKept DEF readingVars, ReadingInv
<1>2. CASE BeginRead
  BY <1>2, BeginReadKeeps
<1>3. CASE StartRecording \/ RecordCalls \/ SendRecorded
  BY <1>3, SendKeeps
<1>4. CASE LexicalCall
  BY <1>4, LexicalCallKeeps
<1>5. CASE SearchFails
  BY <1>5, SearchFailsKeeps
<1>6. CASE VectorSearch("chunks", "code") \/ VectorSearch("code", "meta code")
  BY <1>6, VectorKeeps
<1>7. CASE SubjectMeta("code", "meta code", "meta chunks") \/ SubjectMeta("chunks", "meta chunks", "done")
  BY <1>7, MetaKeeps
<1>8. CASE Page
  BY <1>8, PageKeeps
<1>9. CASE GraphPromoted \/ CollectGraphs \/ DisableGraph \/ ReadEdges \/ GraphFreshness
  BY <1>9, GraphKeeps
<1> QED
  BY <1>1, <1>2, <1>3, <1>4, <1>5, <1>6, <1>7, <1>8, <1>9 DEF ReadingNext

\* Every state of a reader satisfies the inductive invariant.
THEOREM ReadingInvariant == ReadingSpec => []ReadingInv
BY ReadingStarts, ReadingStep, PTL DEF ReadingSpec

\* What a reader is given is what the server would answer without windows,
\* pages or prefetching: for any contents, limits and generations (reader.rs,
\* prefetch.rs).
THEOREM ReadsAreRight == ReadingSpec => []ReadingRight
<1>1. ReadingInv => ReadingRight
  <2> SUFFICES ASSUME ReadingInv PROVE ReadingRight
    OBVIOUS
  <2>1. LateNearestFound
    <3> SUFFICES ASSUME reader.kind = "search", ~reader.eager, semantic.at = "done"
                 PROVE  semantic.known = Range(Nearest(Subjected(reader.build), reader.query.limit))
      BY DEF LateNearestFound, NearestFound, Subjected
    <3>1. semantic.known = TopSubjects /\ reader.query.limit \in Nat
      BY ReadingAssumption DEF ReadingInv, LateOK, ReaderOK
    <3> QED
      BY <3>1, SubjectedApart, NearestIs DEF TopSubjects
  <2> QED
    BY <2>1, Listing DEF ReadingInv, ReadingRight
<1> QED
  BY <1>1, ReadingInvariant, PTL

-----------------------------------------------------------------------------
(* Linking: what files F hold, as the model says it of the active build.   *)

Resolvers == {"exact", "qualified", "alias", "filename", "route"}
FileStates(f) == MayHold(f) \cup {Missing}
FilesOK(F) == F = [f \in LinkFiles |-> F[f]] /\ \A f \in LinkFiles : F[f] \in FileStates(f)

Ents(F) == UNION {F[f].entities : f \in CodeFiles}
DocsIn(F, f) == {[file |-> f, part |-> i] : i \in DOMAIN F[f].parts}
Docs(F) == UNION {DocsIn(F, f) : f \in DocFiles}
UnitsIn(F, d) == F[d.file].parts[d.part]
RoutesIn(F, e) == {i \in DOMAIN F[e.file].routes : F[e.file].routes[i].entity = e.id}
Mentioned(F, e, p, d) == {i \in RoutesIn(F, e) : MentionsRoute(UnitsIn(F, d)[p], F[e.file].routes[i].path)}
MatchesIn(F, e, d, r, p) ==
    CASE r = "exact" -> MatchExact(e, UnitsIn(F, d)[p])
      [] r = "qualified" -> MatchQualified(e, UnitsIn(F, d)[p])
      [] r = "alias" -> MatchAlias(e, UnitsIn(F, d)[p])
      [] r = "filename" -> MatchFilename(e, UnitsIn(F, d)[p])
      [] r = "route" -> \E i \in RoutesIn(F, e) : MentionsRoute(UnitsIn(F, d)[p], F[e.file].routes[i].path)
MatchedIn(F, e, d, r) == {p \in DOMAIN UnitsIn(F, d) : MatchesIn(F, e, d, r, p)}
FoundIn(F, e, d, r, p) == IF r # "route" THEN <<p>> ELSE <<Min(Mentioned(F, e, p, d)), p>>
ChunksOf(F, e, d, r) == ToSet(TopOf(InOrder(MatchedIn(F, e, d, r), LAMBDA p : FoundIn(F, e, d, r, p)), MaxLinks))
LinkOf(e, d, r, p) == [entity |-> e.id, document |-> d, chunk |-> p, type |-> LinkTypeOf[r], resolver |-> r]
LinksOf(F, e, d, r) == {LinkOf(e, d, r, p) : p \in ChunksOf(F, e, d, r)}

\* The resolvers of automatic links; the user is none of them.
LEMMA ResolversAre == DOMAIN LinkTypeOf = Resolvers /\ User \notin Resolvers
BY DEF LinkTypeOf, Resolvers, User

\* An entity is held by its own file, with names.
LEMMA EntityFacts ==
  ASSUME NEW F, FilesOK(F), NEW e \in Ents(F)
  PROVE  /\ e.file \in CodeFiles /\ e.file \in LinkFiles /\ e \in F[e.file].entities
         /\ F[e.file] \in MayHold(e.file)
         /\ IsSequence(BareName(e)) /\ IsSequence(QualifiedName(e)) /\ ToSet(BareName(e)) \subseteq ToSet(QualifiedName(e))
         /\ Len(e.segments) > 2 => IsSequence(AliasOf(e)) /\ ToSet(BareName(e)) \subseteq ToSet(AliasOf(e))
         /\ IsSequence(F[e.file].routes) /\ IsSequence(e.segments)
<1>1. PICK f \in CodeFiles : e \in F[f].entities
  BY DEF Ents
<1>2. F[f] \in MayHold(f) /\ f \in LinkFiles
  <2>1. f \in LinkFiles
    BY DEF LinkFiles
  <2>2. F[f] \in FileStates(f)
    BY <2>1 DEF FilesOK
  <2>3. F[f] # Missing
    BY <1>1 DEF Missing
  <2> QED
    BY <2>1, <2>2, <2>3 DEF FileStates
<1>3. e.file = f
  BY <1>1, <1>2, LinkAssumption
<1> QED
  BY <1>1, <1>2, <1>3, LinkAssumption

\* One id is one file, and one entity as long as the file stays.
LEMMA SameId ==
  ASSUME NEW F, FilesOK(F), NEW H, FilesOK(H), NEW e \in Ents(F), NEW d \in Ents(H), e.id = d.id
  PROVE  e.file = d.file /\ (F[e.file] = H[e.file] => e = d)
<1>1. /\ e.file \in CodeFiles /\ e \in F[e.file].entities /\ F[e.file] \in MayHold(e.file)
      /\ d.file \in CodeFiles /\ d \in H[d.file].entities /\ H[d.file] \in MayHold(d.file)
  BY EntityFacts
<1>2. d \in UNION {b.entities : b \in MayHold(d.file)}
  BY <1>1
<1> DEFINE c == F[e.file]
           f == e.file
<1>4. f \in CodeFiles /\ c \in MayHold(f) /\ e \in c.entities
  BY <1>1
<1> HIDE DEF c, f
<1>5. \A g \in CodeFiles : \A b \in UNION {h.entities : h \in MayHold(g)} :
          e.id = b.id => f = g /\ (b \in c.entities => b = e)
  BY <1>4, LinkAssumption
<1>3. e.file = d.file /\ (d \in F[e.file].entities => d = e)
  BY <1>1, <1>2, <1>5 DEF c, f
<1> QED
  BY <1>1, <1>3

\* A document is held by its own file, as units of text.
LEMMA DocumentFacts ==
  ASSUME NEW F, FilesOK(F), NEW d \in Docs(F)
  PROVE  /\ d.file \in DocFiles /\ d.file \in LinkFiles /\ d.part \in DOMAIN F[d.file].parts
         /\ d = [file |-> d.file, part |-> d.part] /\ F[d.file] # Missing
         /\ IsSequence(UnitsIn(F, d)) /\ \A p \in DOMAIN UnitsIn(F, d) : IsSequence(UnitsIn(F, d)[p])
<1>1. PICK f \in DocFiles : d \in DocsIn(F, f)
  BY DEF Docs
<1>2. d.file = f /\ d.part \in DOMAIN F[f].parts /\ d = [file |-> d.file, part |-> d.part]
  BY <1>1 DEF DocsIn
<1>3. F[f] # Missing
  BY <1>2 DEF Missing
<1>4. F[f] \in MayHold(f) /\ f \in LinkFiles
  BY <1>3 DEF FilesOK, FileStates, LinkFiles
<1> DEFINE c == F[f]
<1>5. c \in MayHold(f)
  BY <1>4
<1> HIDE DEF c
<1>6. \A i \in DOMAIN c.parts : IsSequence(c.parts[i]) /\ \A p \in DOMAIN c.parts[i] : IsSequence(c.parts[i][p])
  BY <1>5, LinkAssumption
<1>7. IsSequence(UnitsIn(F, d)) /\ \A p \in DOMAIN UnitsIn(F, d) : IsSequence(UnitsIn(F, d)[p])
  BY <1>2, <1>6 DEF UnitsIn, c
<1> QED
  BY <1>2, <1>3, <1>4, <1>7

\* The chunks of a pair depend on its two files only.
LEMMA ChunksSame ==
  ASSUME NEW F, NEW H, NEW e, NEW d, NEW r, F[e.file] = H[e.file], F[d.file] = H[d.file]
  PROVE  ChunksOf(F, e, d, r) = ChunksOf(H, e, d, r)
<1>1. UnitsIn(F, d) = UnitsIn(H, d) /\ RoutesIn(F, e) = RoutesIn(H, e)
  BY DEF UnitsIn, RoutesIn
<1> QED
  BY <1>1 DEF ChunksOf, MatchedIn, MatchesIn, FoundIn, Mentioned, InOrder

\* What the active build holds, said of its files.
LEMMA ModelChunks ==
  /\ \A e, d, r : LinkedChunks(e, d, r) = ChunksOf(fileContents, e, d, r)
  /\ AllEntities = Ents(fileContents) /\ AllDocuments = Docs(fileContents)
  /\ \A f : EntitiesIn(f) = fileContents[f].entities /\ DocumentsIn(f) = DocsIn(fileContents, f)
  /\ \A d : UnitsOf(d) = UnitsIn(fileContents, d)
<1>1. \A d : UnitsOf(d) = UnitsIn(fileContents, d)
  BY DEF UnitsOf, UnitsIn
<1>2. \A e, d, r : LinkedChunks(e, d, r) = ChunksOf(fileContents, e, d, r)
  BY DEF LinkedChunks, ChunksOf, Matched, MatchedIn, MatchesIn, FoundAt, FoundIn, UnitsOf, UnitsIn, RoutesOf, RoutesIn,
         RoutePath, Mentioned
<1> QED
  BY <1>1, <1>2 DEF AllEntities, Ents, AllDocuments, Docs, EntitiesIn, DocumentsIn, DocsIn

\* The filter by words leaves out no unit that contains the needle
\* (linker.rs, posting lists).
LEMMA NeedleWords ==
  ASSUME NEW text, IsSequence(text), NEW needle, IsSequence(needle)
  PROVE  MatchesNeedle(text, needle) <=> ContainsIdentifier(text, needle)
<1> SUFFICES ASSUME ContainsIdentifier(text, needle) PROVE MayContain(text, needle)
  BY DEF MatchesNeedle
<1>1. PICK i \in DOMAIN text : OccursAt(text, needle, i)
  BY DEF ContainsIdentifier
<1>2. /\ DOMAIN text = 1..Len(text) /\ Len(text) \in Nat /\ DOMAIN needle = 1..Len(needle) /\ Len(needle) \in Nat
      /\ text \in Seq(ToSet(text))
  BY DEF IsSequence
<1>3. SubSeq(text, i, i + Len(needle) - 1) = needle /\ i + Len(needle) - 1 <= Len(text)
  BY <1>1 DEF OccursAt
<1>4. ASSUME NEW j \in DOMAIN needle PROVE needle[j] \in ToSet(text)
  <2>1. needle[j] = text[i + j - 1] /\ i + j - 1 \in DOMAIN text
    <3>1. i + j - 1 \in 1..Len(text) /\ i \in 1..Len(text)
      BY <1>2, <1>3
    <3> DEFINE sub == SubSeq(text, i, i + Len(needle) - 1)
    <3>2. sub[j] = text[i + j - 1]
      BY <1>2, <1>3, <3>1
    <3> QED
      BY <1>2, <1>3, <3>1, <3>2
  <2> QED
    BY <2>1 DEF ToSet
<1> QED
  BY <1>4 DEF MayContain, WordsIn, ToSet

\* A nonempty set of numbers has a least one.
LEMMA LeastIs ==
  ASSUME NEW S \in SUBSET Nat, S # {}
  PROVE  Min(S) \in S
<1> DEFINE before == {xy \in Nat \X Nat : xy[1] < xy[2]}
<1>1. IsWellFoundedOn(before, Nat)
  BY NatLessThanWellFounded DEF OpToRel
<1>2. PICK x \in S : \A y \in S : <<y, x>> \notin before
  <2> HIDE DEF before
  <2> QED
    BY <1>1, WFMin
<1>3. ASSUME NEW y \in S PROVE x <= y
  <2>1. ~(y < x)
    BY <1>2
  <2> QED
    BY <2>1
<1> QED
  BY <1>3 DEF Min

\* The chunks of a pair that are linked are the first in the order.
LEMMA ChunksAhead ==
  ASSUME NEW F, FilesOK(F), NEW e \in Ents(F), NEW d \in Docs(F), NEW r \in Resolvers
  PROVE  LET M == MatchedIn(F, e, d, r) IN
         /\ IsFiniteSet(M) /\ M \subseteq Nat
         /\ \E before : /\ StrictOrder(M, before)
                        /\ ChunksOf(F, e, d, r) = Ahead(M, before, MaxLinks)
                        /\ r # "route" => \A p, q \in M : <<p, q>> \in before <=> p < q
<1> DEFINE M == MatchedIn(F, e, d, r)
           units == UnitsIn(F, d)
           key(p) == FoundIn(F, e, d, r, p)
           before == {pq \in M \X M : Less(key(pq[1]), key(pq[2]))}
           seq == InOrder(M, LAMBDA p : FoundIn(F, e, d, r, p))
           below(x) == {y \in M : Less(key(y), key(x))}
<1>1. units \in Seq(ToSet(units)) /\ DOMAIN units = 1..Len(units) /\ Len(units) \in Nat
  BY DocumentFacts DEF IsSequence
<1>2. M \in SUBSET (1..Len(units))
  BY <1>1 DEF MatchedIn
<1>3. IsFiniteSet(M) /\ M \subseteq Nat
  <2> DEFINE n == Len(units)
  <2>1. n \in Nat
    BY <1>1
  <2> HIDE DEF n
  <2>2. IsFiniteSet(1..n)
    BY <2>1, FS_Interval
  <2>3. M \in SUBSET (1..n)
    BY <1>2 DEF n
  <2> DEFINE all == 1..n
  <2> HIDE DEF M, all
  <2>4. IsFiniteSet(all) /\ M \in SUBSET all /\ all \subseteq Nat
    BY <2>1, <2>2, <2>3 DEF all
  <2> QED
    BY <2>4, FS_Subset
<1>4. ASSUME r = "route", NEW p \in M PROVE Min(Mentioned(F, e, p, d)) \in Nat /\ key(p) = <<Min(Mentioned(F, e, p, d)), p>>
  <2>1. F[e.file].routes \in Seq(ToSet(F[e.file].routes))
    BY EntityFacts DEF IsSequence
  <2>2. Mentioned(F, e, p, d) \in SUBSET Nat
    BY <2>1 DEF Mentioned, RoutesIn
  <2>3. Mentioned(F, e, p, d) # {}
    BY <1>4 DEF MatchedIn, MatchesIn, Mentioned
  <2> QED
    BY <1>4, <2>2, <2>3, LeastIs DEF FoundIn
<1>5. ASSUME r # "route", NEW p \in M PROVE key(p) = <<p>>
  BY <1>5 DEF FoundIn
<1>6. r # "route" => \A p, q \in M : <<p, q>> \in before <=> p < q
  <2> SUFFICES ASSUME r # "route", NEW p \in M, NEW q \in M PROVE <<p, q>> \in before <=> p < q
    OBVIOUS
  <2>1. key(p) = <<p>> /\ key(q) = <<q>> /\ p \in Int /\ q \in Int
    BY <1>3, <1>5
  <2> HIDE DEF M, key
  <2> QED
    BY <2>1, LessOne
<1>7. StrictOrder(M, before)
  <2>1. CASE r # "route"
    BY <1>3, <1>6, <2>1 DEF StrictOrder
  <2>2. CASE r = "route"
    <3> DEFINE least(p) == Min(Mentioned(F, e, p, d))
    <3>1. \A p \in M : least(p) \in Int /\ p \in Int /\ key(p) = <<least(p), p>>
      BY <1>3, <1>4, <2>2
    <3> HIDE DEF M, key, least
    <3>2. \A p, q \in M : <<p, q>> \in before <=> least(p) < least(q) \/ (least(p) = least(q) /\ p < q)
      <4> TAKE p, q \in M
      <4>1. Less(<<least(p), p>>, <<least(q), q>>) <=> least(p) < least(q) \/ (least(p) = least(q) /\ p < q)
        BY <3>1, LessTwo
      <4> QED
        BY <3>1, <4>1
    <3> HIDE DEF before
    <3> QED
      BY <3>1, <3>2 DEF StrictOrder
  <2> QED
    BY <2>1, <2>2
<1>8. seq = [i \in 1..Cardinality(M) |-> CHOOSE x \in M : Cardinality(below(x)) = i - 1]
  BY DEF InOrder
<1>9. \A x \in M : Below(M, before, x) = below(x)
  BY DEF Below
<1> HIDE DEF M, key
<1>10. ASSUME NEW i \in 1..Cardinality(M), NEW x \in M, Rank(M, before, x) = i - 1
       PROVE  seq[i] \in M /\ Rank(M, before, seq[i]) = i - 1
  <2> DEFINE here(z) == Cardinality(below(z)) = i - 1
  <2>1. \A z \in M : here(z) <=> Rank(M, before, z) = i - 1
    BY <1>9 DEF Rank
  <2>2. seq[i] = CHOOSE z \in M : here(z)
    BY <1>8
  <2> HIDE DEF here
  <2>3. seq[i] \in M /\ here(seq[i])
    BY <1>10, <2>1, <2>2
  <2> QED
    BY <2>1, <2>3
<1>11. seq = [i \in 1..Cardinality(M) |-> seq[i]]
  BY <1>8
<1>12. ChunksOf(F, e, d, r) = Range(TopOf(seq, MaxLinks))
  BY DEF ChunksOf, Range, ToSet, M
<1> HIDE DEF seq, before
<1>13. Lists(M, before, seq)
  BY <1>3, <1>7, <1>10, <1>11, Listed
<1>14. MaxLinks \in Nat
  BY LinkAssumption
<1>15. ChunksOf(F, e, d, r) = Ahead(M, before, MaxLinks)
  BY <1>3, <1>7, <1>12, <1>13, <1>14, TopIsAhead
<1> QED
  BY <1>3, <1>6, <1>7, <1>15 DEF M

\* A pair is linked at every unit that matches up to the limit, first units
\* first.
LEMMA ChunkBounds ==
  ASSUME NEW F, FilesOK(F), NEW e \in Ents(F), NEW d \in Docs(F), NEW r \in Resolvers
  PROVE  LET M == MatchedIn(F, e, d, r)
             C == ChunksOf(F, e, d, r)
         IN /\ C \subseteq M
            /\ (C = M /\ Cardinality(C) <= MaxLinks) \/ Cardinality(C) = MaxLinks
            /\ r # "route" => \A p \in C, q \in M \ C : p < q
<1> DEFINE M == MatchedIn(F, e, d, r)
           C == ChunksOf(F, e, d, r)
<1>1. IsFiniteSet(M) /\ M \subseteq Nat /\ Cardinality(M) \in Nat /\ MaxLinks \in Nat
  BY ChunksAhead, FS_CardinalityType, LinkAssumption
<1>2. PICK before : /\ StrictOrder(M, before) /\ C = Ahead(M, before, MaxLinks)
                    /\ r # "route" => \A p, q \in M : <<p, q>> \in before <=> p < q
  BY ChunksAhead
<1> HIDE DEF M, C
<1>3. C \subseteq M
  BY <1>2 DEF Ahead
<1>4. (C = M /\ Cardinality(C) <= MaxLinks) \/ Cardinality(C) = MaxLinks
  BY <1>1, <1>2, AheadAll, AheadCount
<1>5. ASSUME r # "route", NEW p \in C, NEW q \in M \ C PROVE p < q
  <2>1. Rank(M, before, p) \in Int /\ Rank(M, before, q) \in Int /\ p \in M
    BY <1>1, <1>2, <1>3, RankType
  <2>2. Rank(M, before, p) < Rank(M, before, q)
    BY <1>1, <1>2, <2>1 DEF Ahead
  <2> QED
    BY <1>1, <1>2, <1>5, <2>1, <2>2, RankOrder
<1> QED
  BY <1>3, <1>4, <1>5 DEF M, C

\* What a document that was touched may mention is loaded for it.
LEMMA LoadedIfMatched ==
  ASSUME FilesOK(fileContents), NEW touched, NEW e \in AllEntities, NEW d \in AllDocuments, d.file \in touched,
         NEW r \in Resolvers, r # "route", Findable(e, r), NEW p \in MatchedIn(fileContents, e, d, r)
  PROVE  e \in LoadedFor(touched)
<1> DEFINE words == UNION {WordsOfFile(f) : f \in touched \cap DocFiles}
           text == UnitsIn(fileContents, d)[p]
<1>1. e \in Ents(fileContents) /\ d \in Docs(fileContents)
  BY ModelChunks
<1>2. d.file \in DocFiles /\ d.part \in DOMAIN fileContents[d.file].parts /\ d = [file |-> d.file, part |-> d.part]
      /\ p \in DOMAIN UnitsIn(fileContents, d)
  BY <1>1, DocumentFacts DEF MatchedIn
<1>3. WordsIn(text) \subseteq words
  <2>1. d \in DocumentsIn(d.file)
    BY <1>2 DEF DocumentsIn
  <2>2. text \in ToSet(UnitsOf(d))
    BY <1>2 DEF ToSet, UnitsOf, UnitsIn
  <2>3. WordsIn(text) \subseteq WordsOfFile(d.file)
    BY <2>1, <2>2 DEF WordsOfFile
  <2> QED
    BY <1>2, <2>3
<1>4. /\ e.file \in CodeFiles /\ e \in EntitiesIn(e.file)
      /\ ToSet(BareName(e)) \subseteq ToSet(QualifiedName(e))
      /\ Len(e.segments) > 2 => ToSet(BareName(e)) \subseteq ToSet(AliasOf(e))
      /\ IsSequence(BareName(e))
  BY <1>1, EntityFacts DEF EntitiesIn
<1>5. MatchesIn(fileContents, e, d, r, p)
  BY DEF MatchedIn
<1>6. CASE r = "filename"
  <2>1. PICK n \in FileNames[e.file] : MatchesNeedle(text, n)
    BY <1>5, <1>6 DEF MatchesIn, MatchFilename
  <2>2. WordsIn(n) # {} /\ WordsIn(n) \subseteq WordsIn(text)
    BY <1>6, <2>1 DEF Findable, MatchesNeedle, MayContain
  <2>3. Spelled(e.file, words)
    BY <1>3, <2>2 DEF Spelled
  <2> QED
    BY <1>4, <2>3 DEF LoadedFor
<1>7. CASE r # "filename"
  <2>1. Len(BareName(e)) = 1 /\ IsWord(BareName(e)[1])
    BY <1>7 DEF Findable
  <2>2. BareName(e)[1] \in ToSet(BareName(e))
    BY <1>4, <2>1 DEF IsSequence, ToSet
  <2>3. PICK needle : ToSet(BareName(e)) \subseteq ToSet(needle) /\ MatchesNeedle(text, needle)
    <3>1. CASE r = "exact"
      BY <1>5, <3>1 DEF MatchesIn, MatchExact
    <3>2. CASE r = "qualified"
      BY <1>4, <1>5, <3>2 DEF MatchesIn, MatchQualified
    <3>3. CASE r = "alias"
      <4>1. Len(e.segments) > 2 /\ MatchesNeedle(text, AliasOf(e))
        BY <1>5, <3>3 DEF MatchesIn, MatchAlias
      <4> QED
        BY <1>4, <4>1
    <3> QED
      BY <1>7, <3>1, <3>2, <3>3 DEF Resolvers
  <2>4. BareName(e)[1] \in words
    BY <1>3, <2>1, <2>2, <2>3 DEF MatchesNeedle, MayContain, WordsIn
  <2> QED
    BY <2>1, <2>4 DEF LoadedFor
<1> QED
  BY <1>6, <1>7

-----------------------------------------------------------------------------
(* The invariant.                                                          *)

\* Links that the passes made, not the users.
PassLinks == {l \in links : l.resolver # User}

\* Links A were made over files F; the files are H by now.  What a pair's
\* files held may be lost until the next pass once a build dropped links.
LinksMadeOver(A, F, H, dropped) ==
    /\ \A l \in A : \E e \in Ents(F), d \in Docs(F), r \in Resolvers : l \in LinksOf(F, e, d, r)
    /\ \A e \in Ents(F), d \in Docs(F), r \in Resolvers :
         \/ LinksOf(F, e, d, r) \subseteq A
         \/ /\ LinksOf(F, e, d, r) \cap A = {}
            /\ ~Findable(e, r) \/ (dropped /\ (H[e.file] # F[e.file] \/ H[d.file] # F[d.file]))

AutoOK ==
    /\ graph = NeverLinked => PassLinks = {}
    /\ graph # NeverLinked /\ loss # "returned" => LinksMadeOver(PassLinks, graph.files, fileContents, loss = "dropped")

CommandFields == {"step", "build", "rows", "entity", "intent"}

ShapeOK ==
    /\ build \in Nat /\ (build = 0 => graph = NeverLinked /\ command = NoCommand)
    /\ FilesOK(fileContents)
    /\ graph = NeverLinked \/ (DOMAIN graph = {"kind", "files", "intents"} /\ FilesOK(graph.files))
    /\ graph = NeverLinked => loss = "none"
    /\ loss \in {"none", "dropped", "returned"}
    /\ graphShown => graph # NeverLinked /\ graph.files = fileContents
    /\ \/ command = NoCommand
       \/ /\ DOMAIN command = CommandFields /\ command.step \in {"add", "clear", "read", "put"}
          /\ \A l \in command.rows : l.resolver = User

\* The rows of intents I over files F.
RowsIn(F, m) ==
    IF m.document \notin Docs(F) THEN {}
    ELSE LET chunk == IF m.ordinal \in DOMAIN UnitsIn(F, m.document) THEN m.ordinal ELSE WholeDocument
         IN {[entity |-> e.id, document |-> m.document, chunk |-> chunk,
              type |-> "documented_by", resolver |-> User] :
                e \in {e \in Ents(F) : QualifiedName(e) = m.entity}}
RowsOver(F, I) == UNION {RowsIn(F, m) : m \in I}

UserOK ==
    sound =>
        /\ command # NoCommand => command.build = build
        /\ command.step \in {"read", "put"} =>
             UserRows \subseteq RowsOver(fileContents, intents) /\ (graph # NeverLinked => graph.files = fileContents)
        /\ command.step = "put" => command.rows = RowsOver(fileContents, intents)
        /\ command.step \in {"idle", "add"} /\ graph # NeverLinked /\ loss = "none" =>
             UserRows = RowsOver(graph.files, intents)
        /\ loss = "dropped" => \E f \in LinkFiles : fileContents[f] # graph.files[f]

LinkInv == ShapeOK /\ AutoOK /\ UserOK

\* The rows of the intents, said of the files.
LEMMA MaterializedIs ==
  /\ Materialized = RowsOver(fileContents, intents)
  /\ \A F, I : \A l \in RowsOver(F, I) : l.resolver = User
<1>1. \A m : RowsOfIntent(m) = RowsIn(fileContents, m)
  BY ModelChunks DEF RowsOfIntent, RowsIn
<1>2. \A F, m : \A l \in RowsIn(F, m) : l.resolver = User
  BY DEF RowsIn
<1> QED
  BY <1>1, <1>2 DEF Materialized, RowsOver

\* A row of the user links an entity and a document that the files hold.
LEMMA RowsHeld ==
  ASSUME NEW F, NEW I, NEW l \in RowsOver(F, I)
  PROVE  l.resolver = User /\ l.document \in Docs(F) /\ \E e \in Ents(F) : l.entity = e.id
BY DEF RowsOver, RowsIn

\* A candidate link names its entity, document and resolver, and a linked
\* chunk.
LEMMA LinkFields ==
  ASSUME NEW F, NEW e, NEW d, NEW r \in Resolvers, NEW l \in LinksOf(F, e, d, r)
  PROVE  l.entity = e.id /\ l.document = d /\ l.resolver = r /\ l.resolver # User /\ l.chunk \in ChunksOf(F, e, d, r)
BY ResolversAre DEF LinksOf, LinkOf

\* The links between entities and documents are the candidates of their
\* pairs.
LEMMA CandidatesAre ==
  /\ \A e, d : CandidateLinks(e, d) = UNION {LinksOf(fileContents, e, d, r) : r \in Resolvers}
  /\ \A E, D, l : l \in LinksBetween(E, D) <=> \E e \in E, d \in D, r \in Resolvers : l \in LinksOf(fileContents, e, d, r)
<1>1. \A e, d : CandidateLinks(e, d) = UNION {LinksOf(fileContents, e, d, r) : r \in Resolvers}
  BY ResolversAre, ModelChunks DEF CandidateLinks, LinksOf, LinkOf
<1> QED
  BY <1>1 DEF LinksBetween

DanglingIn(F, l) == l.entity \notin {e.id : e \in Ents(F)} \/ l.document \notin Docs(F)

\* A link dangles when the files hold its entity or its document no more.
LEMMA DanglingIs == \A l : Dangling(l) <=> DanglingIn(fileContents, l)
BY ModelChunks DEF Dangling, DanglingIn

\* Only the change of a file lets a candidate dangle.
LEMMA NotDangling ==
  ASSUME NEW F, NEW H, FilesOK(F), FilesOK(H), NEW e \in Ents(F), NEW d \in Docs(F), NEW l,
         l.entity = e.id, l.document = d, DanglingIn(H, l)
  PROVE  F[e.file] # H[e.file] \/ F[d.file] # H[d.file]
<1> SUFFICES ASSUME F[e.file] = H[e.file], F[d.file] = H[d.file] PROVE FALSE
  OBVIOUS
<1>1. e \in Ents(H)
  BY EntityFacts DEF Ents
<1>2. d \in Docs(H)
  BY DocumentFacts DEF Docs, DocsIn
<1> QED
  BY <1>1, <1>2 DEF DanglingIn

\* Without a build there is no graph and no link.
LEMMA LinkingStarts == LinkingInit => LinkInv
<1> SUFFICES ASSUME LinkingInit PROVE LinkInv
  OBVIOUS
<1> USE DEF LinkingInit
<1>1. FilesOK(fileContents)
  BY DEF FilesOK, FileStates
<1>2. ShapeOK
  BY <1>1 DEF ShapeOK
<1>3. AutoOK
  BY DEF AutoOK, PassLinks
<1>4. UserOK
  BY DEF UserOK, NoCommand
<1> QED
  BY <1>2, <1>3, <1>4 DEF LinkInv

\* The links of the passes change with the files, the graph and the links
\* only.
LEMMA AutoKept ==
  ASSUME AutoOK, PassLinks' = PassLinks, graph' = graph, loss' = loss, fileContents' = fileContents
  PROVE  AutoOK'
BY DEF AutoOK

\* Links that were made stay made when a file changes and some are dropped.
LEMMA MadeWhenChanged ==
  ASSUME NEW G, FilesOK(G), NEW H, FilesOK(H), NEW f \in LinkFiles, NEW K, FilesOK(K),
         \A g \in LinkFiles \ {f} : K[g] = H[g],
         NEW A, NEW B, NEW dropped \in BOOLEAN, NEW drops \in BOOLEAN, LinksMadeOver(A, G, H, dropped),
         dropped => drops /\ (H[f] # K[f] => G[f] # K[f]),
         B = A \/ (B = {l \in A : ~DanglingIn(K, l)} /\ (B # A => drops))
  PROVE  LinksMadeOver(B, G, K, drops)
<1>1. B \subseteq A /\ \A l \in A \ B : DanglingIn(K, l) /\ drops
  OBVIOUS
<1>2. \A l \in B : \E e \in Ents(G), d \in Docs(G), r \in Resolvers : l \in LinksOf(G, e, d, r)
  BY <1>1 DEF LinksMadeOver
<1>3. ASSUME NEW e \in Ents(G), NEW d \in Docs(G), NEW r \in Resolvers
      PROVE  \/ LinksOf(G, e, d, r) \subseteq B
             \/ /\ LinksOf(G, e, d, r) \cap B = {}
                /\ ~Findable(e, r) \/ (drops /\ (K[e.file] # G[e.file] \/ K[d.file] # G[d.file]))
  <2> DEFINE L == LinksOf(G, e, d, r)
  <2>1. e.file \in LinkFiles /\ d.file \in LinkFiles
    BY EntityFacts, DocumentFacts
  <2>2. \A l \in L : l.entity = e.id /\ l.document = d
    BY LinkFields
  <2>3. \/ L \subseteq A
        \/ L \cap A = {} /\ ~Findable(e, r)
        \/ L \cap A = {} /\ dropped /\ (H[e.file] # G[e.file] \/ H[d.file] # G[d.file])
    BY Zenon DEF LinksMadeOver
  <2> HIDE DEF L
  <2>4. CASE L \cap A = {} /\ ~Findable(e, r)
    BY <1>1, <2>4 DEF L
  <2>5. CASE L \cap A = {} /\ dropped /\ (H[e.file] # G[e.file] \/ H[d.file] # G[d.file])
    <3>1. \A g \in LinkFiles : H[g] # G[g] => K[g] # G[g]
      <4> TAKE g \in LinkFiles
      <4>1. CASE g = f
        BY <2>5, <4>1
      <4>2. CASE g # f
        BY <4>2
      <4> QED
        BY <4>1, <4>2
    <3> QED
      BY <1>1, <2>1, <2>5, <3>1 DEF L
  <2>7. CASE L \subseteq B
    BY <2>7 DEF L
  <2>6. ASSUME L \subseteq A, NEW l \in L, l \notin B
        PROVE  L \cap B = {} /\ drops /\ (K[e.file] # G[e.file] \/ K[d.file] # G[d.file])
    <3>1. DanglingIn(K, l) /\ drops /\ B = {k \in A : ~DanglingIn(K, k)}
      BY <1>1, <2>6
    <3>2. \A k \in L : DanglingIn(K, k)
      BY <2>2, <2>6, <3>1 DEF DanglingIn
    <3>3. K[e.file] # G[e.file] \/ K[d.file] # G[d.file]
      BY <2>2, <2>6, <3>1, NotDangling
    <3> QED
      BY <3>1, <3>2, <3>3
  <2> QED
    <3>1. CASE L \subseteq A /\ ~(L \subseteq B)
      BY <2>6, <3>1 DEF L
    <3> QED
      BY <2>3, <2>4, <2>5, <2>7, <3>1
<1> QED
  BY <1>2, <1>3 DEF LinksMadeOver

\* A publication changes one file, in place or with the links of a new build.
LEMMA PublishIs ==
  ASSUME LinkInv, PublishFile
  PROVE  \E f \in LinkFiles :
           /\ FilesOK(fileContents') /\ \A g \in LinkFiles \ {f} : fileContents'[g] = fileContents[g]
           /\ \/ links' = links /\ build' = build
              \/ links' = {l \in links : ~DanglingIn(fileContents', l)}
           /\ loss' = IF graph = NeverLinked THEN loss
                      ELSE CASE /\ loss = "dropped" /\ fileContents[f] # fileContents'[f]
                                /\ graph.files[f] = fileContents'[f] -> "returned"
                             [] loss = "none" /\ links' # links -> "dropped"
                             [] OTHER -> loss
           /\ graphShown' = FALSE /\ sound' = (sound /\ command = NoCommand)
           /\ UNCHANGED <<graph, intents, command>>
<1>1. PICK f \in LinkFiles, inPlace \in BOOLEAN : \E content \in LinkContents[f] \cup {Missing} :
        /\ fileContents' = [fileContents EXCEPT ![f] = content]
        /\ build' = IF inPlace THEN build ELSE build + 1
        /\ links' = IF inPlace THEN links ELSE {l \in links : ~Dangling(l)'}
        /\ loss' = IF graph = NeverLinked THEN loss
                   ELSE CASE loss = "dropped" /\ fileContents[f] # content /\ graph.files[f] = content -> "returned"
                          [] loss = "none" /\ links' # links -> "dropped"
                          [] OTHER -> loss
  BY DEF PublishFile
<1> PICK content \in LinkContents[f] \cup {Missing} :
        /\ fileContents' = [fileContents EXCEPT ![f] = content]
        /\ build' = IF inPlace THEN build ELSE build + 1
        /\ links' = IF inPlace THEN links ELSE {l \in links : ~Dangling(l)'}
        /\ loss' = IF graph = NeverLinked THEN loss
                   ELSE CASE loss = "dropped" /\ fileContents[f] # content /\ graph.files[f] = content -> "returned"
                          [] loss = "none" /\ links' # links -> "dropped"
                          [] OTHER -> loss
  BY <1>1
<1>5. \A l : Dangling(l)' <=> DanglingIn(fileContents', l)
  BY DEF Dangling, DanglingIn, AllEntities, Ents, EntitiesIn, AllDocuments, Docs, DocumentsIn, DocsIn
<1>6. (links' = links /\ build' = build) \/ links' = {l \in links : ~DanglingIn(fileContents', l)}
  BY <1>5
<1>2. FilesOK(fileContents) /\ content \in FileStates(f)
  BY DEF LinkInv, ShapeOK, FileStates, MayHold
<1>3. FilesOK(fileContents') /\ fileContents'[f] = content /\ \A g \in LinkFiles \ {f} : fileContents'[g] = fileContents[g]
  BY <1>2 DEF FilesOK
<1>4. graphShown' = FALSE /\ sound' = (sound /\ command = NoCommand) /\ UNCHANGED <<graph, intents, command>>
  BY DEF PublishFile
<1> QED
  BY <1>3, <1>4, <1>6

\* A publication leaves the links of the passes as the graph knows them, or
\* has lost some.
LEMMA PublishAuto ==
  ASSUME LinkInv, PublishFile
  PROVE  AutoOK'
<1>1. PICK f \in LinkFiles :
           /\ FilesOK(fileContents') /\ \A g \in LinkFiles \ {f} : fileContents'[g] = fileContents[g]
           /\ links' = links \/ links' = {l \in links : ~DanglingIn(fileContents', l)}
           /\ loss' = IF graph = NeverLinked THEN loss
                      ELSE CASE /\ loss = "dropped" /\ fileContents[f] # fileContents'[f]
                                /\ graph.files[f] = fileContents'[f] -> "returned"
                             [] loss = "none" /\ links' # links -> "dropped"
                             [] OTHER -> loss
           /\ graph' = graph
  BY PublishIs
<1>2. PassLinks' = PassLinks \/ (PassLinks' = {l \in PassLinks : ~DanglingIn(fileContents', l)} /\ (PassLinks' # PassLinks => links' # links))
  BY <1>1 DEF PassLinks
<1>3. CASE graph = NeverLinked
  <2>1. PassLinks = {}
    BY <1>3 DEF LinkInv, AutoOK
  <2>2. PassLinks' = {}
    BY <1>2, <2>1
  <2> QED
    BY <1>1, <1>3, <2>2 DEF AutoOK
<1>4. ASSUME graph # NeverLinked, loss' # "returned"
      PROVE  LinksMadeOver(PassLinks', graph.files, fileContents', loss' = "dropped")
  <2>1. FilesOK(fileContents) /\ FilesOK(graph.files) /\ loss \in {"none", "dropped", "returned"}
    BY <1>4 DEF LinkInv, ShapeOK
  <2>2. loss # "returned" /\ (loss = "dropped" => loss' = "dropped" /\ (fileContents[f] # fileContents'[f] => graph.files[f] # fileContents'[f]))
    BY <1>1, <1>4, <2>1
  <2>3. links' # links => loss' = "dropped"
    BY <1>1, <1>4, <2>1, <2>2
  <2>4. LinksMadeOver(PassLinks, graph.files, fileContents, loss = "dropped")
    BY <1>4, <2>2 DEF LinkInv, AutoOK
  <2> DEFINE G == graph.files
             K == fileContents'
             B == PassLinks'
             dropped == loss = "dropped"
             drops == loss' = "dropped"
  <2>5. /\ FilesOK(G) /\ FilesOK(K) /\ dropped \in BOOLEAN /\ drops \in BOOLEAN
        /\ LinksMadeOver(PassLinks, G, fileContents, dropped)
        /\ dropped => drops /\ (fileContents[f] # K[f] => G[f] # K[f])
        /\ B = PassLinks \/ (B = {l \in PassLinks : ~DanglingIn(K, l)} /\ (B # PassLinks => drops))
        /\ \A g \in LinkFiles \ {f} : K[g] = fileContents[g]
    BY <1>1, <1>2, <2>1, <2>2, <2>3, <2>4
  <2> HIDE DEF G, K, B, dropped, drops
  <2>6. LinksMadeOver(B, G, K, drops)
    BY <2>1, <2>5, MadeWhenChanged
  <2> QED
    BY <2>6 DEF G, K, B, drops
<1> QED
  BY <1>1, <1>3, <1>4 DEF AutoOK

\* The links a pass makes for the files it reads anew.
LEMMA SidesAre ==
  ASSUME FilesOK(fileContents), NEW T, NEW l
  PROVE  /\ l \in CodeSide(T) <=> \E e \in Ents(fileContents), d \in Docs(fileContents), r \in Resolvers :
                                    e.file \in T /\ l \in LinksOf(fileContents, e, d, r)
         /\ l \in DocSide(T) <=> \E e \in Ents(fileContents), d \in Docs(fileContents), r \in Resolvers :
                                    /\ e.file \notin T /\ d.file \in T /\ l \in LinksOf(fileContents, e, d, r)
                                    /\ e \in LoadedFor(T) \/ r = "route"
<1> DEFINE F == fileContents
           code == UNION {EntitiesIn(f) : f \in CoveredFiles(T)}
           docs == UNION {DocumentsIn(f) : f \in T \cap DocFiles}
           others == {e \in AllEntities : e.file \notin CoveredFiles(T)}
<1>1. \A e : e \in Ents(F) => e.file \in CodeFiles /\ e \in EntitiesIn(e.file)
  BY EntityFacts DEF EntitiesIn
<1>2. \A e : \A f \in CodeFiles : e \in EntitiesIn(f) => e \in Ents(F) /\ e.file = f
  <2> SUFFICES ASSUME NEW e, NEW f \in CodeFiles, e \in EntitiesIn(f) PROVE e \in Ents(F) /\ e.file = f
    OBVIOUS
  <2>1. e \in Ents(F)
    BY DEF Ents, EntitiesIn
  <2>2. F[f] \in MayHold(f)
    <3>1. f \in LinkFiles
      BY DEF LinkFiles
    <3>2. F[f] \in FileStates(f)
      BY <3>1 DEF FilesOK
    <3>3. F[f] # Missing
      BY DEF Missing, EntitiesIn
    <3> QED
      BY <3>2, <3>3 DEF FileStates
  <2>3. e.file = f
    BY <2>2, LinkAssumption DEF EntitiesIn
  <2> QED
    BY <2>1, <2>3
<1>3. \A e \in Ents(F) : e.file \in CoveredFiles(T) <=> e.file \in T
  BY <1>1 DEF CoveredFiles
<1>4. \A e : e \in code <=> e \in Ents(F) /\ e.file \in T
  BY <1>1, <1>2, <1>3 DEF CoveredFiles
<1>5. \A e : e \in others <=> e \in Ents(F) /\ e.file \notin T
  BY <1>3, ModelChunks
<1>6. \A d : d \in docs <=> d \in Docs(F) /\ d.file \in T
  BY ModelChunks DEF Docs, DocsIn
<1>7. CodeSide(T) = LinksBetween(code, Docs(F))
  BY ModelChunks DEF CodeSide
<1>8. DocSide(T) = LinksBetween(others \cap LoadedFor(T), docs) \cup {k \in LinksBetween(others, docs) : k.resolver = "route"}
  BY DEF DocSide
<1> HIDE DEF code, docs, others
<1>9. \A E, D : l \in LinksBetween(E, D) <=> \E e \in E, d \in D, r \in Resolvers : l \in LinksOf(F, e, d, r)
  BY CandidatesAre
<1>10. \A e, d : \A r \in Resolvers : l \in LinksOf(F, e, d, r) => l.resolver = r
  BY LinkFields
<1>13. "route" \in Resolvers
  BY DEF Resolvers
<1> HIDE DEF F
<1>11. l \in CodeSide(T) <=> \E e \in Ents(F), d \in Docs(F), r \in Resolvers : e.file \in T /\ l \in LinksOf(F, e, d, r)
  BY <1>4, <1>7, <1>9
<1>14. ASSUME l \in DocSide(T)
       PROVE  \E e \in Ents(F), d \in Docs(F), r \in Resolvers :
                                    /\ e.file \notin T /\ d.file \in T /\ l \in LinksOf(F, e, d, r)
                                    /\ e \in LoadedFor(T) \/ r = "route"
  <2>1. CASE l \in LinksBetween(others \cap LoadedFor(T), docs)
    <3>1. PICK e \in others \cap LoadedFor(T), d \in docs, r \in Resolvers : l \in LinksOf(F, e, d, r)
      BY <1>9, <2>1
    <3> QED
      BY <1>5, <1>6, <3>1
  <2>2. CASE l \in LinksBetween(others, docs) /\ l.resolver = "route"
    <3>1. PICK e \in others, d \in docs, r \in Resolvers : l \in LinksOf(F, e, d, r)
      BY <1>9, <2>2
    <3> QED
      BY <1>5, <1>6, <1>10, <2>2, <3>1
  <2> QED
    BY <1>8, <1>14, <2>1, <2>2
<1>15. ASSUME NEW e \in Ents(F), NEW d \in Docs(F), NEW r \in Resolvers,
              e.file \notin T, d.file \in T, l \in LinksOf(F, e, d, r), e \in LoadedFor(T) \/ r = "route"
       PROVE  l \in DocSide(T)
  <2>1. e \in others /\ d \in docs
    BY <1>5, <1>6, <1>15
  <2>2. CASE e \in LoadedFor(T)
    BY <1>8, <1>9, <1>15, <2>1, <2>2
  <2>3. CASE r = "route"
    <3>1. l \in LinksBetween(others, docs) /\ l.resolver = "route"
      BY <1>9, <1>10, <1>15, <2>1, <2>3
    <3> QED
      BY <1>8, <3>1
  <2> QED
    BY <1>15, <2>2, <2>3
<1> QED
  BY <1>11, <1>14, <1>15 DEF F

\* An incremental pass leaves the links a full one would make.
LEMMA PassAuto ==
  ASSUME LinkInv, LinkPass
  PROVE  AutoOK'
<1> DEFINE F == fileContents
           G == graph.files
           T == Touched
           kept == IF Full THEN {} ELSE links \ ClearedBy(T)
           A == {l \in kept : l.resolver # User}
           B == A \cup LinkTouchedFiles(T)
<1>1. /\ links' = (A \cup LinkTouchedFiles(T)) \cup Materialized /\ graph' = Digest /\ fileContents' = fileContents
      /\ loss' = IF loss = "dropped" THEN "none" ELSE loss
  BY DEF LinkPass
<1>2. FilesOK(F) /\ loss \in {"none", "dropped", "returned"} /\ (graph = NeverLinked => loss = "none")
      /\ (graph # NeverLinked => FilesOK(G))
  BY DEF LinkInv, ShapeOK
<1>3. \A l : l \in LinkTouchedFiles(T) <=> l \in CodeSide(T) \/ l \in DocSide(T)
  BY DEF LinkTouchedFiles
<1>4. \A l : /\ l \in CodeSide(T) => \E e \in Ents(F), d \in Docs(F), r \in Resolvers :
                                    e.file \in T /\ l \in LinksOf(F, e, d, r)
             /\ l \in DocSide(T) => \E e \in Ents(F), d \in Docs(F), r \in Resolvers :
                                    /\ e.file \notin T /\ d.file \in T /\ l \in LinksOf(F, e, d, r)
                                    /\ e \in LoadedFor(T) \/ r = "route"
  BY <1>2, SidesAre
<1>5. PassLinks' = B
  <2>1. \A l \in LinkTouchedFiles(T) : l.resolver # User
    BY <1>3, <1>4, LinkFields
  <2>2. \A l \in Materialized : l.resolver = User
    BY MaterializedIs
  <2> HIDE DEF A, T
  <2>3. \A l \in A : l.resolver # User
    BY DEF A
  <2> QED
    BY <1>1, <2>1, <2>2, <2>3 DEF PassLinks
<1>6. CASE loss' = "returned"
  <2>1. graph' # NeverLinked
    BY <1>1 DEF Digest, NeverLinked
  <2> QED
    BY <1>6, <2>1 DEF AutoOK
<1>7. ASSUME graph # NeverLinked, loss' # "returned"
      PROVE  /\ FilesOK(G) /\ LinksMadeOver(PassLinks, G, F, loss = "dropped")
             /\ \A f \in LinkFiles \ T : F[f] # Missing => F[f] = G[f]
             /\ \A l \in links : l \in kept <=> /\ l.document.file \notin T /\ ~DanglingIn(F, l)
                                             /\ \A e \in Ents(F) : l.entity = e.id => e.file \notin T
  <2>1. loss # "returned"
    BY <1>1, <1>7
  <2>2. FilesOK(G) /\ LinksMadeOver(PassLinks, G, F, loss = "dropped")
    BY <1>2, <1>7, <2>1 DEF LinkInv, AutoOK
  <2>3. \A f \in LinkFiles \ T : F[f] # Missing => F[f] = G[f]
    BY <1>7 DEF Touched, Full
  <2>4. \A l : Dangling(l) <=> DanglingIn(F, l)
    BY DanglingIs
  <2> DEFINE touchedEntities == UNION {EntitiesIn(f) : f \in T \cap CodeFiles}
  <2>5. \A e : e \in touchedEntities <=> e \in Ents(F) /\ e.file \in T
    <3>1. ASSUME NEW e \in touchedEntities PROVE e \in Ents(F) /\ e.file \in T
      <4>1. PICK f \in T \cap CodeFiles : e \in F[f].entities
        BY DEF EntitiesIn
      <4>2. e \in Ents(F) /\ f \in LinkFiles
        BY <4>1 DEF Ents, LinkFiles
      <4>3. F[f] \in MayHold(f)
        BY <1>2, <4>1, <4>2 DEF FilesOK, FileStates, Missing
      <4> QED
        BY <4>1, <4>2, <4>3, LinkAssumption
    <3>2. ASSUME NEW e \in Ents(F), e.file \in T PROVE e \in touchedEntities
      BY <1>2, <3>2, EntityFacts DEF EntitiesIn
    <3> QED
      BY <3>1, <3>2
  <2>6. kept = links \ ClearedBy(T)
    BY <1>7 DEF Full
  <2>7. ClearedBy(T) = {l \in links : l.document.file \in T \/ l.entity \in {e.id : e \in touchedEntities} \/ Dangling(l)}
    BY DEF ClearedBy
  <2> HIDE DEF T, touchedEntities, kept, F
  <2>8. ASSUME NEW l \in links
        PROVE  l \in kept <=> /\ l.document.file \notin T /\ ~DanglingIn(F, l)
                             /\ \A e \in Ents(F) : l.entity = e.id => e.file \notin T
    <3>1. l \in ClearedBy(T) <=> l.document.file \in T \/ (\E e \in touchedEntities : l.entity = e.id) \/ DanglingIn(F, l)
      BY <2>4, <2>7
    <3>2. (\E e \in touchedEntities : l.entity = e.id) <=> (\E e \in Ents(F) : l.entity = e.id /\ e.file \in T)
      BY <2>5
    <3> QED
      BY <2>6, <3>1, <3>2
  <2> QED
    BY <2>2, <2>3, <2>8
<1>8. graph = NeverLinked => kept = {} /\ T = LinkFiles
  BY DEF Full, Touched
<1> HIDE DEF kept, T, F, G
<1>9. ASSUME loss' # "returned", NEW l \in B
      PROVE  \E e \in Ents(F), d \in Docs(F), r \in Resolvers : l \in LinksOf(F, e, d, r)
  <2>1. CASE l \in LinkTouchedFiles(T)
    BY <1>3, <1>4, <2>1
  <2>2. CASE l \in A
    <3>1. graph # NeverLinked
      BY <1>8, <2>2
    <3>2. l \in PassLinks /\ l \in kept /\ l \in links
      BY <2>2 DEF PassLinks, kept
    <3>3. PICK e \in Ents(G), d \in Docs(G), r \in Resolvers : l \in LinksOf(G, e, d, r)
      BY <1>7, <1>9, <3>1, <3>2 DEF LinksMadeOver
    <3>4. l.entity = e.id /\ l.document = d
      BY <3>3, LinkFields
    <3>5. /\ d.file \notin T /\ ~DanglingIn(F, l) /\ \A g \in Ents(F) : l.entity = g.id => g.file \notin T
      BY <1>7, <1>9, <3>1, <3>2, <3>4
    <3>6. d \in Docs(F) /\ \E g \in Ents(F) : e.id = g.id
      BY <3>4, <3>5 DEF DanglingIn
    <3>7. FilesOK(F) /\ FilesOK(G)
      BY <1>2, <1>7, <1>9, <3>1
    <3>8. PICK g \in Ents(F) : e.id = g.id
      BY <3>6
    <3>9. e.file = g.file /\ g.file \notin T /\ e.file \in LinkFiles /\ F[e.file] # Missing
      <4>1. e.file = g.file
        BY <3>7, <3>8, SameId
      <4>2. g.file \notin T
        BY <3>4, <3>5, <3>8
      <4>3. g \in F[g.file].entities /\ g.file \in LinkFiles
        BY <3>7, EntityFacts
      <4> QED
        BY <4>1, <4>2, <4>3 DEF Missing
    <3>10. F[e.file] = G[e.file]
      BY <1>7, <1>9, <3>1, <3>9
    <3>11. F[d.file] = G[d.file]
      BY <1>7, <1>9, <3>1, <3>5, <3>6, <3>7, DocumentFacts
    <3>12. e \in Ents(F)
      BY <3>7, <3>10, EntityFacts DEF Ents
    <3>13. l \in LinksOf(F, e, d, r)
      BY <3>3, <3>10, <3>11, ChunksSame DEF LinksOf
    <3> QED
      BY <3>6, <3>12, <3>13
  <2> QED
    BY <1>9, <2>1, <2>2
<1>10. ASSUME loss' # "returned", NEW e \in Ents(F), NEW d \in Docs(F), NEW r \in Resolvers
       PROVE  LinksOf(F, e, d, r) \subseteq B \/ (LinksOf(F, e, d, r) \cap B = {} /\ ~Findable(e, r))
  <2> DEFINE L == LinksOf(F, e, d, r)
  <2>1. \A l \in L : l.entity = e.id /\ l.document = d /\ l.resolver = r /\ l.resolver # User
    BY LinkFields
  <2>2. e.file \in LinkFiles /\ d.file \in LinkFiles /\ F[e.file] # Missing /\ F[d.file] # Missing
    <3>1. e \in F[e.file].entities /\ e.file \in LinkFiles
      BY <1>2, EntityFacts
    <3> QED
      BY <1>2, <3>1, DocumentFacts DEF Missing
  <2>3. \A g \in Ents(F) : g.id = e.id => g = e
    BY <1>2, SameId
  <2>4. CASE e.file \in T
    <3>1. \A l \in L : l \in CodeSide(T)
      BY <1>2, <2>4, SidesAre DEF F
    <3> QED
      BY <1>3, <3>1
  <2>5. \A l \in L : l \in CodeSide(T) => e.file \in T
    <3> TAKE l \in L
    <3> HAVE l \in CodeSide(T)
    <3>1. PICK g \in Ents(F), b \in Docs(F), s \in Resolvers : g.file \in T /\ l \in LinksOf(F, g, b, s)
      BY <1>4
    <3>2. l.entity = g.id
      BY <3>1, LinkFields
    <3> QED
      BY <2>1, <2>3, <3>1, <3>2
  <2>6. \A l \in L : l \in DocSide(T) => d.file \in T /\ (e \in LoadedFor(T) \/ r = "route")
    <3> TAKE l \in L
    <3> HAVE l \in DocSide(T)
    <3>1. PICK g \in Ents(F), b \in Docs(F), s \in Resolvers :
            b.file \in T /\ l \in LinksOf(F, g, b, s) /\ (g \in LoadedFor(T) \/ s = "route")
      BY <1>4
    <3>2. l.entity = g.id /\ l.document = b /\ l.resolver = s
      BY <3>1, LinkFields
    <3> QED
      BY <2>1, <2>3, <3>1, <3>2
  <2> HIDE DEF L
  <2>7. CASE e.file \notin T /\ d.file \in T
    <3>1. CASE e \in LoadedFor(T) \/ r = "route"
      <4>1. \A l \in L : l \in DocSide(T)
        BY <1>2, <2>7, <3>1, SidesAre DEF F, L
      <4> QED
        BY <1>3, <4>1 DEF L
    <3>2. CASE e \notin LoadedFor(T) /\ r # "route"
      <4>1. CASE L = {}
        BY <4>1 DEF L
      <4>2. CASE L # {}
        <5>1. PICK p : p \in MatchedIn(F, e, d, r)
          <6>1. ChunksOf(F, e, d, r) # {}
            BY <4>2 DEF L, LinksOf
          <6> QED
            BY <1>2, <6>1, ChunkBounds
        <5>2. ~Findable(e, r)
          <6>1. e \in AllEntities /\ d \in AllDocuments
            BY ModelChunks DEF F
          <6> QED
            BY <1>2, <2>7, <3>2, <5>1, <6>1, LoadedIfMatched DEF F
        <5>3. \A l \in L : l \notin LinkTouchedFiles(T)
          BY <1>3, <2>5, <2>6, <2>7, <3>2
        <5>4. \A l \in L : l \notin A
          <6> TAKE l \in L
          <6> SUFFICES ASSUME l \in A PROVE FALSE
            OBVIOUS
          <6>1. graph # NeverLinked /\ l \in kept /\ l \in links
            BY <1>8 DEF kept
          <6> QED
            BY <1>7, <1>10, <2>1, <2>7, <6>1
        <5> QED
          BY <5>2, <5>3, <5>4 DEF L
      <4> QED
        BY <4>1, <4>2
    <3> QED
      BY <3>1, <3>2
  <2>8. CASE e.file \notin T /\ d.file \notin T
    <3>1. graph # NeverLinked
      BY <1>8, <2>2, <2>8
    <3>2. F[e.file] = G[e.file] /\ F[d.file] = G[d.file]
      BY <1>7, <1>10, <2>2, <2>8, <3>1
    <3>3. e \in Ents(G) /\ d \in Docs(G)
      <4>1. e \in F[e.file].entities /\ e.file \in CodeFiles
        BY <1>2, EntityFacts
      <4>2. d.file \in DocFiles /\ d.part \in DOMAIN F[d.file].parts /\ d = [file |-> d.file, part |-> d.part]
        BY <1>2, DocumentFacts
      <4> QED
        BY <3>2, <4>1, <4>2 DEF Ents, Docs, DocsIn
    <3>4. L = LinksOf(G, e, d, r)
      BY <3>2, ChunksSame DEF L, LinksOf
    <3>5. LinksMadeOver(PassLinks, G, F, loss = "dropped")
      BY <1>7, <1>10, <3>1
    <3>6. L \subseteq PassLinks \/ (L \cap PassLinks = {} /\ ~Findable(e, r))
      BY <3>2, <3>3, <3>4, <3>5 DEF LinksMadeOver
    <3>7. \A l \in L : l \notin LinkTouchedFiles(T)
      BY <1>3, <2>5, <2>6, <2>8
    <3>8. \A l \in L : l \in PassLinks => l \in A
      <4> TAKE l \in L
      <4> HAVE l \in PassLinks
      <4>1. l \in links /\ l.resolver # User
        BY DEF PassLinks
      <4>2. ~DanglingIn(F, l)
        BY <2>1 DEF DanglingIn
      <4>3. \A g \in Ents(F) : l.entity = g.id => g.file \notin T
        BY <2>1, <2>3, <2>8
      <4>4. l \in kept
        BY <1>7, <1>10, <2>1, <2>8, <3>1, <4>1, <4>2, <4>3
      <4> QED
        BY <4>1, <4>4
    <3>9. \A l \in L : l \in A => l \in PassLinks
      BY DEF PassLinks, kept
    <3> QED
      BY <3>6, <3>7, <3>8, <3>9 DEF L
  <2> QED
    BY <2>4, <2>7, <2>8
<1>11. CASE loss' # "returned"
  <2>1. LinksMadeOver(B, F, F, loss' = "dropped")
    BY <1>9, <1>10, <1>11 DEF LinksMadeOver
  <2>2. graph'.files = F /\ fileContents' = F /\ graph' # NeverLinked
    BY <1>1 DEF Digest, NeverLinked, F
  <2> QED
    BY <1>5, <2>1, <2>2 DEF AutoOK
<1> QED
  BY <1>6, <1>11

\* A command is under way exactly when it is at one of its steps.
LEMMA CommandIs ==
  ASSUME ShapeOK
  PROVE  /\ command = NoCommand <=> command.step = "idle"
         /\ command # NoCommand => command.step \in {"add", "clear", "read", "put"} /\ DOMAIN command = CommandFields
BY DEF ShapeOK, NoCommand

\* The first build has no graph yet.
LEMMA StartKeeps ==
  ASSUME LinkInv, StartSource
  PROVE  LinkInv'
<1>1. /\ build = 0 /\ graph = NeverLinked /\ command = NoCommand /\ loss = "none"
      /\ fileContents' = FirstContents /\ build' = 1
      /\ UNCHANGED <<links, graph, graphShown, intents, command, sound, loss>>
  BY DEF StartSource, LinkInv, ShapeOK
<1>2. FilesOK(fileContents')
  BY <1>1, LinkAssumption DEF FilesOK, FileStates, MayHold
<1>3. ShapeOK'
  BY <1>1, <1>2 DEF LinkInv, ShapeOK
<1>4. AutoOK'
  BY <1>1 DEF LinkInv, AutoOK, PassLinks
<1>5. UserOK'
  BY <1>1 DEF UserOK, NoCommand
<1> QED
  BY <1>3, <1>4, <1>5 DEF LinkInv

\* A publication leaves the rows of the user as the graph knows them, or has
\* lost some.
LEMMA PublishUser ==
  ASSUME LinkInv, PublishFile
  PROVE  UserOK'
<1> SUFFICES ASSUME sound' PROVE UserOK'
  BY DEF UserOK
<1>1. PICK f \in LinkFiles :
           /\ FilesOK(fileContents') /\ \A g \in LinkFiles \ {f} : fileContents'[g] = fileContents[g]
           /\ links' = links \/ links' = {l \in links : ~DanglingIn(fileContents', l)}
           /\ loss' = IF graph = NeverLinked THEN loss
                      ELSE CASE /\ loss = "dropped" /\ fileContents[f] # fileContents'[f]
                                /\ graph.files[f] = fileContents'[f] -> "returned"
                             [] loss = "none" /\ links' # links -> "dropped"
                             [] OTHER -> loss
           /\ sound' = (sound /\ command = NoCommand)
           /\ UNCHANGED <<graph, intents, command>>
  BY PublishIs
<1>2. sound /\ command' = NoCommand /\ command = NoCommand /\ command.step = "idle" /\ command'.step = "idle"
  <2>1. sound /\ command = NoCommand /\ command' = command
    BY <1>1
  <2> QED
    BY <2>1 DEF NoCommand
<1>3. /\ loss \in {"none", "dropped", "returned"} /\ (graph = NeverLinked => loss = "none")
      /\ FilesOK(fileContents) /\ (graph # NeverLinked => FilesOK(graph.files))
  BY DEF LinkInv, ShapeOK
<1>4. /\ graph # NeverLinked /\ loss = "none" => UserRows = RowsOver(graph.files, intents)
      /\ loss = "dropped" => \E g \in LinkFiles : fileContents[g] # graph.files[g]
  BY <1>2 DEF LinkInv, UserOK
<1>5. ASSUME graph # NeverLinked, loss' = "none" PROVE UserRows' = RowsOver(graph.files, intents)
  <2>1. loss = "none" /\ links' = links
    BY <1>1, <1>3, <1>5
  <2> QED
    BY <1>4, <1>5, <2>1 DEF UserRows
<1>6. ASSUME loss' = "dropped" PROVE \E g \in LinkFiles : fileContents'[g] # graph.files[g]
  <2>1. graph # NeverLinked
    BY <1>1, <1>3, <1>6
  <2>2. loss = "dropped" \/ (loss = "none" /\ links' # links)
    BY <1>1, <1>3, <1>6, <2>1
  <2>3. CASE loss = "dropped"
    <3>1. fileContents[f] = fileContents'[f] \/ graph.files[f] # fileContents'[f]
      BY <1>1, <1>6, <2>1, <2>3
    <3>2. PICK g \in LinkFiles : fileContents[g] # graph.files[g]
      BY <1>4, <2>3
    <3>3. CASE g = f
      BY <3>1, <3>2, <3>3
    <3>4. CASE g # f
      BY <1>1, <3>2, <3>4
    <3> QED
      BY <3>3, <3>4
  <2>4. CASE loss = "none" /\ links' # links
    <3>1. PICK l \in links : DanglingIn(fileContents', l)
      BY <1>1, <2>4
    <3>2. PICK e \in Ents(graph.files), d \in Docs(graph.files) : l.entity = e.id /\ l.document = d
      <4>1. CASE l.resolver = User
        <5>1. l \in RowsOver(graph.files, intents)
          BY <1>4, <2>1, <2>4, <4>1 DEF UserRows
        <5> QED
          BY <5>1, RowsHeld
      <4>2. CASE l.resolver # User
        <5>1. l \in PassLinks
          BY <4>2 DEF PassLinks
        <5>2. LinksMadeOver(PassLinks, graph.files, fileContents, loss = "dropped")
          BY <2>1, <2>4 DEF LinkInv, AutoOK
        <5>3. PICK e \in Ents(graph.files), d \in Docs(graph.files), r \in Resolvers : l \in LinksOf(graph.files, e, d, r)
          BY <5>1, <5>2 DEF LinksMadeOver
        <5> QED
          BY <5>3, LinkFields
      <4> QED
        BY <4>1, <4>2
    <3>3. FilesOK(graph.files) /\ FilesOK(fileContents')
      BY <1>1, <1>3, <2>1
    <3>4. graph.files[e.file] # fileContents'[e.file] \/ graph.files[d.file] # fileContents'[d.file]
      BY <3>1, <3>2, <3>3, NotDangling
    <3>5. e.file \in LinkFiles /\ d.file \in LinkFiles
      BY <3>3, EntityFacts, DocumentFacts
    <3> QED
      BY <3>4, <3>5
  <2> QED
    BY <2>2, <2>3, <2>4
<1>7. graph' = graph /\ intents' = intents
  BY <1>1
<1> QED
  BY <1>2, <1>5, <1>6, <1>7 DEF UserOK

\* A publication keeps the invariant.
LEMMA PublishKeeps ==
  ASSUME LinkInv, PublishFile
  PROVE  LinkInv'
<1>1. PICK f \in LinkFiles :
           /\ FilesOK(fileContents')
           /\ loss' = IF graph = NeverLinked THEN loss
                      ELSE CASE /\ loss = "dropped" /\ fileContents[f] # fileContents'[f]
                                /\ graph.files[f] = fileContents'[f] -> "returned"
                             [] loss = "none" /\ links' # links -> "dropped"
                             [] OTHER -> loss
           /\ graphShown' = FALSE /\ UNCHANGED <<graph, intents, command>>
  BY PublishIs
<1>2. build' \in Nat /\ build' # 0
  BY DEF PublishFile, LinkInv, ShapeOK
<1>3. loss' \in {"none", "dropped", "returned"} /\ (graph' = NeverLinked => loss' = "none")
  BY <1>1 DEF LinkInv, ShapeOK
<1>4. ShapeOK'
  BY <1>1, <1>2, <1>3 DEF LinkInv, ShapeOK
<1> QED
  BY <1>4, PublishAuto, PublishUser DEF LinkInv

\* A pass keeps the invariant.
LEMMA PassKeeps ==
  ASSUME LinkInv, LinkPass
  PROVE  LinkInv'
<1>1. /\ graph' = Digest /\ fileContents' = fileContents /\ intents' = intents /\ command' = command /\ build' = build
      /\ loss' = (IF loss = "dropped" THEN "none" ELSE loss) /\ sound' = (sound \/ command = NoCommand) /\ build > 0
  BY DEF LinkPass
<1>2. graph' # NeverLinked /\ DOMAIN graph' = {"kind", "files", "intents"} /\ graph'.files = fileContents
  BY <1>1 DEF Digest, NeverLinked
<1>3. ShapeOK'
  BY <1>1, <1>2 DEF LinkInv, ShapeOK
<1>4. UserRows' = RowsOver(fileContents, intents)
  <2> DEFINE kept == IF Full THEN {} ELSE links \ ClearedBy(Touched)
             A == {l \in kept : l.resolver # User}
  <2>1. links' = A \cup LinkTouchedFiles(Touched) \cup Materialized
    BY DEF LinkPass
  <2>2. \A l \in LinkTouchedFiles(Touched) : l.resolver # User
    <3>1. FilesOK(fileContents)
      BY DEF LinkInv, ShapeOK
    <3> QED
      BY <3>1, SidesAre, LinkFields DEF LinkTouchedFiles
  <2>3. \A l \in A : l.resolver # User
    OBVIOUS
  <2>4. Materialized = RowsOver(fileContents, intents) /\ \A l \in Materialized : l.resolver = User
    BY MaterializedIs
  <2> HIDE DEF A
  <2> QED
    BY <2>1, <2>2, <2>3, <2>4 DEF UserRows
<1>5. UserOK'
  <2> SUFFICES ASSUME sound' PROVE UserOK'
    BY DEF UserOK
  <2>1. command # NoCommand => sound
    BY <1>1
  <2>2. command # NoCommand => command.build = build
    BY <2>1 DEF LinkInv, UserOK
  <2>3. command.step = "put" => command.rows = RowsOver(fileContents, intents)
    BY <2>1 DEF LinkInv, UserOK, NoCommand
  <2>4. loss' # "dropped"
    BY <1>1
  <2> QED
    BY <1>1, <1>2, <1>4, <2>2, <2>3, <2>4 DEF UserOK
<1> QED
  BY <1>3, <1>5, PassAuto DEF LinkInv

\* Nothing but the command, the intents and what is due to the user changes.
LEMMA CommandStep ==
  ASSUME LinkInv,
         UNCHANGED <<fileContents, build, graph, graphShown, loss>>, PassLinks' = PassLinks,
         build > 0 \/ command' = NoCommand,
         \/ command' = NoCommand
         \/ /\ DOMAIN command' = CommandFields /\ command'.step \in {"add", "clear", "read", "put"}
            /\ \A l \in command'.rows : l.resolver = User,
         UserOK'
  PROVE  LinkInv'
<1>1. AutoOK'
  BY AutoKept DEF LinkInv
<1>2. ShapeOK'
  BY DEF LinkInv, ShapeOK
<1> QED
  BY <1>1, <1>2 DEF LinkInv

\* Adding a link begins with an entity and a document of the build.
LEMMA BeginKeeps ==
  ASSUME LinkInv, BeginAdd
  PROVE  LinkInv'
<1>1. PICK id, m : command' = [step |-> "add", build |-> build, rows |-> {}, entity |-> id, intent |-> m]
  BY DEF BeginAdd
<1>2. /\ command = NoCommand /\ build > 0
      /\ UNCHANGED <<fileContents, build, links, graph, graphShown, intents, sound, loss>>
  BY DEF BeginAdd
<1>3. /\ command'.step = "add" /\ command'.build = build /\ command'.rows = {}
      /\ DOMAIN command' = CommandFields /\ command.step = "idle"
  BY <1>1, <1>2 DEF CommandFields, NoCommand
<1>4. UserOK'
  BY <1>2, <1>3 DEF LinkInv, UserOK, UserRows
<1>5. PassLinks' = PassLinks
  BY <1>2 DEF PassLinks
<1> QED
  BY <1>2, <1>3, <1>4, <1>5, CommandStep

\* The intent is written before any row is.
LEMMA AddKeeps ==
  ASSUME LinkInv, AddIntent
  PROVE  LinkInv'
<1>1. /\ command.step = "add" /\ UNCHANGED <<fileContents, build, links, graph, graphShown, sound, loss>>
      /\ \/ command' = [command EXCEPT !.step = "clear"]
         \/ command' = NoCommand /\ intents' = intents
  BY DEF AddIntent
<1>2. command # NoCommand /\ DOMAIN command = CommandFields /\ ShapeOK /\ build > 0
  BY <1>1, CommandIs DEF LinkInv, ShapeOK, NoCommand
<1>3. PassLinks' = PassLinks
  BY <1>1 DEF PassLinks
<1>4. CASE command' = [command EXCEPT !.step = "clear"]
  <2>1. /\ command'.step = "clear" /\ command'.build = command.build /\ command'.rows = command.rows
        /\ DOMAIN command' = CommandFields
    BY <1>2, <1>4 DEF CommandFields
  <2>2. \A l \in command.rows : l.resolver = User
    BY <1>2 DEF ShapeOK
  <2>3. UserOK'
    BY <1>1, <1>2, <2>1 DEF LinkInv, UserOK
  <2> QED
    BY <1>1, <1>2, <1>3, <2>1, <2>2, <2>3, CommandStep
<1>5. CASE command' = NoCommand /\ intents' = intents
  <2>1. command'.step = "idle"
    BY <1>5 DEF NoCommand
  <2>2. UserOK'
    BY <1>1, <1>5, <2>1 DEF LinkInv, UserOK, UserRows
  <2> QED
    BY <1>1, <1>3, <1>5, <2>2, CommandStep
<1> QED
  BY <1>1, <1>4, <1>5

\* An intent is removed before any row is.
LEMMA RemoveKeeps ==
  ASSUME LinkInv, RemoveIntent
  PROVE  LinkInv'
<1>1. PICK m : command' = [step |-> "clear", build |-> build, rows |-> {}, entity |-> WholeDocument, intent |-> m]
  BY DEF RemoveIntent
<1>2. build > 0 /\ UNCHANGED <<fileContents, build, links, graph, graphShown, sound, loss>>
  BY DEF RemoveIntent
<1>3. /\ command'.step = "clear" /\ command'.build = build /\ command'.rows = {}
      /\ DOMAIN command' = CommandFields
  BY <1>1 DEF CommandFields
<1>4. UserOK'
  BY <1>2, <1>3 DEF LinkInv, UserOK
<1>5. PassLinks' = PassLinks
  BY <1>2 DEF PassLinks
<1> QED
  BY <1>2, <1>3, <1>4, <1>5, CommandStep

\* The rows of the user are deleted, to be written again.
LEMMA ClearKeeps ==
  ASSUME LinkInv, ClearUserRows
  PROVE  LinkInv'
<1>1. /\ command.step = "clear" /\ command' = [command EXCEPT !.step = "read"]
      /\ links' = (IF command.build = build THEN links \ UserRows ELSE links)
      /\ sound' = (sound /\ (graph = NeverLinked \/ graph.files = fileContents))
      /\ UNCHANGED <<fileContents, build, graph, graphShown, intents, loss>>
  BY DEF ClearUserRows
<1>2. command # NoCommand /\ DOMAIN command = CommandFields /\ ShapeOK /\ build > 0
  BY <1>1, CommandIs DEF LinkInv, ShapeOK, NoCommand
<1>3. /\ command'.step = "read" /\ command'.build = command.build /\ command'.rows = command.rows
      /\ DOMAIN command' = CommandFields
  BY <1>1, <1>2 DEF CommandFields
<1>4. \A l \in command.rows : l.resolver = User
  BY <1>2 DEF ShapeOK
<1>5. PassLinks' = PassLinks
  BY <1>1 DEF PassLinks, UserRows
<1>6. UserOK'
  <2> SUFFICES ASSUME sound' PROVE UserOK'
    BY DEF UserOK
  <2>1. sound /\ command.build = build /\ (graph = NeverLinked \/ graph.files = fileContents)
    BY <1>1, <1>2 DEF LinkInv, UserOK
  <2>2. UserRows' = {}
    BY <1>1, <2>1 DEF UserRows
  <2>3. loss = "dropped" => \E f \in LinkFiles : fileContents[f] # graph.files[f]
    BY <2>1 DEF LinkInv, UserOK
  <2> QED
    BY <1>1, <1>3, <2>1, <2>2, <2>3 DEF UserOK
<1> QED
  BY <1>1, <1>2, <1>3, <1>4, <1>5, <1>6, CommandStep

\* The intents are read for the rows that are written next.
LEMMA ReadKeeps ==
  ASSUME LinkInv, ReadIntents
  PROVE  LinkInv'
<1>1. /\ command.step = "read"
      /\ command' = [command EXCEPT !.step = "put", !.rows = IF command.build = build THEN Materialized ELSE {}]
      /\ UNCHANGED <<fileContents, build, links, graph, graphShown, intents, sound, loss>>
  BY DEF ReadIntents
<1>2. command # NoCommand /\ DOMAIN command = CommandFields /\ ShapeOK /\ build > 0
  BY <1>1, CommandIs DEF LinkInv, ShapeOK, NoCommand
<1>3. /\ command'.step = "put" /\ command'.build = command.build
      /\ command'.rows = (IF command.build = build THEN RowsOver(fileContents, intents) ELSE {})
      /\ DOMAIN command' = CommandFields
  BY <1>1, <1>2, MaterializedIs DEF CommandFields
<1>4. \A l \in command'.rows : l.resolver = User
  BY <1>3, MaterializedIs
<1>5. PassLinks' = PassLinks /\ UserRows' = UserRows
  BY <1>1 DEF PassLinks, UserRows
<1>6. UserOK'
  BY <1>1, <1>2, <1>3, <1>5 DEF LinkInv, UserOK
<1> QED
  BY <1>1, <1>2, <1>3, <1>4, <1>5, <1>6, CommandStep

\* The rows that are written are those of the intents.
LEMMA PutKeeps ==
  ASSUME LinkInv, PutUserRows
  PROVE  LinkInv'
<1>1. /\ command.step = "put" /\ command' = NoCommand
      /\ links' = (IF command.build = build THEN links \cup command.rows ELSE links)
      /\ UNCHANGED <<fileContents, build, graph, graphShown, intents, sound, loss>>
  BY DEF PutUserRows
<1>2. command # NoCommand /\ \A l \in command.rows : l.resolver = User
  BY <1>1 DEF LinkInv, ShapeOK, NoCommand
<1>3. PassLinks' = PassLinks
  BY <1>1, <1>2 DEF PassLinks
<1>4. command'.step = "idle"
  BY <1>1 DEF NoCommand
<1>5. UserOK'
  <2> SUFFICES ASSUME sound' PROVE UserOK'
    BY DEF UserOK
  <2>1. /\ command.build = build /\ command.rows = RowsOver(fileContents, intents)
        /\ UserRows \subseteq RowsOver(fileContents, intents) /\ (graph # NeverLinked => graph.files = fileContents)
        /\ loss = "dropped" => \E f \in LinkFiles : fileContents[f] # graph.files[f]
    BY <1>1, <1>2 DEF LinkInv, UserOK
  <2>2. UserRows' = RowsOver(fileContents, intents)
    BY <1>1, <1>2, <2>1 DEF UserRows
  <2> QED
    BY <1>1, <1>4, <2>1, <2>2 DEF UserOK
<1> QED
  BY <1>1, <1>3, <1>5, CommandStep

\* A command that dies leaves the rows as they are.
LEMMA DeathKeeps ==
  ASSUME LinkInv, CommandDies
  PROVE  LinkInv'
<1>1. /\ command' = NoCommand /\ sound' = (sound /\ command.step = "add")
      /\ UNCHANGED <<fileContents, build, links, graph, graphShown, intents, loss>>
  BY DEF CommandDies
<1>2. PassLinks' = PassLinks /\ UserRows' = UserRows /\ command'.step = "idle"
  BY <1>1 DEF PassLinks, UserRows, NoCommand
<1>3. UserOK'
  BY <1>1, <1>2 DEF LinkInv, UserOK
<1> QED
  BY <1>1, <1>2, <1>3, CommandStep

\* Confirming the rows, and links kept on the server, change no row.
LEMMA RestKeeps ==
  ASSUME LinkInv, UNCHANGED <<fileContents, build, links, graph, intents, command, sound, loss>>,
         graphShown' => graphShown \/ graph = Digest
  PROVE  LinkInv'
<1>1. graph = Digest => graph # NeverLinked /\ graph.files = fileContents
  BY DEF Digest, NeverLinked
<1>2. ShapeOK'
  BY <1>1 DEF LinkInv, ShapeOK
<1>3. AutoOK'
  BY DEF LinkInv, AutoOK, PassLinks
<1>4. UserOK'
  BY DEF LinkInv, UserOK, UserRows
<1> QED
  BY <1>2, <1>3, <1>4 DEF LinkInv

\* Every publication, pass and command keeps the invariant.
LEMMA LinkingStep == LinkInv /\ [LinkingNext]_linkVars => LinkInv'
<1> SUFFICES ASSUME LinkInv, [LinkingNext]_linkVars PROVE LinkInv'
  OBVIOUS
<1>1. CASE StartSource
  BY <1>1, StartKeeps
<1>2. CASE PublishFile
  BY <1>2, PublishKeeps
<1>3. CASE Rebind
  BY <1>3, RestKeeps DEF Rebind
<1>4. CASE LinkPass
  BY <1>4, PassKeeps
<1>5. CASE BeginAdd
  BY <1>5, BeginKeeps
<1>6. CASE AddIntent
  BY <1>6, AddKeeps
<1>7. CASE RemoveIntent
  BY <1>7, RemoveKeeps
<1>8. CASE ClearUserRows
  BY <1>8, ClearKeeps
<1>9. CASE ReadIntents
  BY <1>9, ReadKeeps
<1>10. CASE PutUserRows
  BY <1>10, PutKeeps
<1>11. CASE CommandDies
  BY <1>11, DeathKeeps
<1>12. CASE ServerAdd
  BY <1>12, RestKeeps DEF ServerAdd
<1>13. CASE ServerRemove
  BY <1>13, RestKeeps DEF ServerRemove
<1>14. CASE UNCHANGED linkVars
  BY <1>14, RestKeeps DEF linkVars
<1> QED
  BY <1>1, <1>2, <1>3, <1>4, <1>5, <1>6, <1>7, <1>8, <1>9, <1>10, <1>11, <1>12, <1>13, <1>14 DEF LinkingNext

\* Every state of the links satisfies the inductive invariant.
THEOREM LinkInvariant == LinkingSpec => []LinkInv
<1>1. LinkingInit => LinkInv
  BY LinkingStarts
<1>2. LinkInv /\ [LinkingNext]_linkVars => LinkInv'
  BY LinkingStep
<1> QED
  BY <1>1, <1>2, PTL DEF LinkingSpec

\* What a matched unit says of an entity.
LEMMA MentionedIs ==
  ASSUME FilesOK(fileContents), NEW e \in Ents(fileContents), NEW d \in Docs(fileContents), NEW r \in Resolvers
  PROVE  {p \in DOMAIN UnitsOf(d) : Mentions(e, r, UnitsOf(d)[p])} = MatchedIn(fileContents, e, d, r)
<1> DEFINE F == fileContents
<1>1. UnitsOf(d) = UnitsIn(F, d) /\ \A p \in DOMAIN UnitsIn(F, d) : IsSequence(UnitsIn(F, d)[p])
  BY ModelChunks, DocumentFacts
<1>2. IsSequence(BareName(e)) /\ IsSequence(QualifiedName(e)) /\ (Len(e.segments) > 2 => IsSequence(AliasOf(e)))
      /\ e.file \in CodeFiles
  BY EntityFacts
<1>3. \A n \in FileNames[e.file] : IsSequence(n)
  BY <1>2, LinkAssumption
<1>4. ASSUME NEW p \in DOMAIN UnitsIn(F, d)
      PROVE  Mentions(e, r, UnitsIn(F, d)[p]) <=> MatchesIn(F, e, d, r, p)
  <2> DEFINE text == UnitsIn(F, d)[p]
  <2>0. IsSequence(text)
    BY <1>1
  <2>1. CASE r = "exact"
    <3>1. MatchesNeedle(text, BareName(e)) <=> ContainsIdentifier(text, BareName(e))
      BY <1>2, <2>0, NeedleWords
    <3> QED
      BY <2>1, <3>1 DEF Mentions, MatchesIn, MatchExact
  <2>2. CASE r = "qualified"
    <3>1. MatchesNeedle(text, QualifiedName(e)) <=> ContainsIdentifier(text, QualifiedName(e))
      BY <1>2, <2>0, NeedleWords
    <3> QED
      BY <2>2, <3>1 DEF Mentions, MatchesIn, MatchQualified
  <2>3. CASE r = "alias"
    <3>1. Len(e.segments) >= 3 <=> Len(e.segments) > 2
      <4>1. Len(e.segments) \in Nat
        BY EntityFacts DEF IsSequence
      <4> QED
        BY <4>1
    <3>2. Len(e.segments) > 2 => (MatchesNeedle(text, AliasOf(e)) <=> ContainsIdentifier(text, AliasOf(e)))
      BY <1>2, <2>0, NeedleWords
    <3> QED
      BY <2>3, <3>1, <3>2 DEF Mentions, MatchesIn, MatchAlias
  <2>4. CASE r = "filename"
    <3>1. \A n \in FileNames[e.file] : MatchesNeedle(text, n) <=> ContainsIdentifier(text, n)
      BY <1>3, <2>0, NeedleWords
    <3> QED
      BY <2>4, <3>1 DEF Mentions, MatchesIn, MatchFilename
  <2>5. CASE r = "route"
    BY <2>5, ModelChunks DEF Mentions, MatchesIn, RoutesOf, RoutesIn, RoutePath
  <2> QED
    BY <2>1, <2>2, <2>3, <2>4, <2>5 DEF Resolvers
<1> QED
  BY <1>1, <1>4 DEF MatchedIn

\* A graph that is shown is right about what the passes link.
LEMMA AutomaticIs ==
  ASSUME LinkInv
  PROVE  AutomaticRight
<1> SUFFICES ASSUME graphShown, loss # "returned" PROVE AutomaticRight
  BY DEF AutomaticRight
<1> DEFINE F == fileContents
<1>1. /\ FilesOK(F) /\ graph # NeverLinked /\ graph.files = F
      /\ LinksMadeOver(PassLinks, F, F, loss = "dropped")
  BY DEF LinkInv, ShapeOK, AutoOK
<1>2. ASSUME NEW l \in PassLinks
      PROVE  \E e \in Ents(F), d \in Docs(F), r \in Resolvers : l \in LinksOf(F, e, d, r)
  BY <1>1 DEF LinksMadeOver
<1>3. ASSUME NEW e \in Ents(F), NEW d \in Docs(F), NEW r \in Resolvers
      PROVE  LinksOf(F, e, d, r) \subseteq PassLinks \/ (LinksOf(F, e, d, r) \cap PassLinks = {} /\ ~Findable(e, r))
  BY <1>1 DEF LinksMadeOver
<1>4. ASSUME NEW l \in links, l.resolver # User
      PROVE  ~Dangling(l)
  <2>1. PICK e \in Ents(F), d \in Docs(F), r \in Resolvers : l \in LinksOf(F, e, d, r)
    BY <1>2, <1>4 DEF PassLinks
  <2>2. l.entity = e.id /\ l.document = d
    BY <2>1, LinkFields
  <2> QED
    BY <2>2, DanglingIs DEF DanglingIn
<1>5. ASSUME NEW e \in AllEntities, NEW d \in AllDocuments, NEW r \in DOMAIN LinkTypeOf
      PROVE  LET rows == ChunksIn(LinkRowsOf(e, d, r))
                 mentioned == {p \in DOMAIN UnitsOf(d) : Mentions(e, r, UnitsOf(d)[p])}
             IN /\ rows \subseteq mentioned
                /\ Findable(e, r) =>
                     \/ rows = mentioned /\ Cardinality(rows) <= MaxLinks
                     \/ Cardinality(rows) = MaxLinks
                /\ r # "route" => \A p \in rows, q \in mentioned \ rows : p < q
  <2> DEFINE L == LinksOf(F, e, d, r)
             C == ChunksOf(F, e, d, r)
             M == MatchedIn(F, e, d, r)
             mentioned == {p \in DOMAIN UnitsOf(d) : Mentions(e, r, UnitsOf(d)[p])}
             rows == ChunksIn(LinkRowsOf(e, d, r))
  <2>1. e \in Ents(F) /\ d \in Docs(F) /\ r \in Resolvers
    BY ModelChunks, ResolversAre
  <2>2. mentioned = M
    BY <1>1, <2>1, MentionedIs
  <2>3. /\ C \subseteq M
        /\ (C = M /\ Cardinality(C) <= MaxLinks) \/ Cardinality(C) = MaxLinks
        /\ r # "route" => \A p \in C, q \in M \ C : p < q
    BY <1>1, <2>1, ChunkBounds
  <2>4. ASSUME NEW l \in LinkRowsOf(e, d, r)
        PROVE  l \in PassLinks /\ l \in L /\ l.chunk \in C
    <3>1. l \in links /\ l.entity = e.id /\ l.document = d /\ l.resolver = r
      BY DEF LinkRowsOf
    <3>2. l \in PassLinks
      BY <2>1, <3>1, ResolversAre DEF PassLinks
    <3>3. PICK g \in Ents(F), b \in Docs(F), s \in Resolvers : l \in LinksOf(F, g, b, s)
      BY <1>2, <3>2
    <3>4. l.entity = g.id /\ l.document = b /\ l.resolver = s /\ l.chunk \in ChunksOf(F, g, b, s)
      BY <3>3, LinkFields
    <3>5. g = e
      <4>1. g.id = e.id /\ FilesOK(F) /\ e \in Ents(F)
        BY <1>1, <2>1, <3>1, <3>4
      <4> HIDE DEF F
      <4> QED
        BY <4>1, SameId
    <3> QED
      BY <3>1, <3>2, <3>3, <3>4, <3>5
  <2>5. CASE L \subseteq PassLinks
    <3>1. ASSUME NEW p \in C PROVE \E l \in LinkRowsOf(e, d, r) : l.chunk = p
      <4> DEFINE l == LinkOf(e, d, r, p)
      <4>1. l \in L
        BY DEF LinksOf
      <4>2. l \in links /\ l.chunk = p /\ l \in LinkRowsOf(e, d, r)
        BY <2>5, <4>1 DEF LinkOf, LinkRowsOf, PassLinks
      <4> QED
        BY <4>2
    <3>2. rows = C
      BY <2>4, <3>1 DEF ChunksIn
    <3> QED
      BY <2>2, <2>3, <3>2
  <2>6. CASE L \cap PassLinks = {} /\ ~Findable(e, r)
    <3>1. rows = {}
      BY <2>4, <2>6 DEF ChunksIn
    <3> QED
      BY <2>6, <3>1
  <2> QED
    BY <1>3, <2>1, <2>5, <2>6
<1> QED
  BY <1>4, <1>5 DEF AutomaticRight

\* Once no command is under way the links of the user are what the intents
\* say.
LEMMA UserIs ==
  ASSUME LinkInv
  PROVE  UserLinksRight
<1> SUFFICES ASSUME graphShown, command = NoCommand, sound, loss # "returned" PROVE UserLinksRight
  BY DEF UserLinksRight
<1> DEFINE F == fileContents
<1>1. graph # NeverLinked /\ graph.files = F /\ loss \in {"none", "dropped"} /\ command.step = "idle"
  BY DEF LinkInv, ShapeOK, NoCommand
<1>2. UserRows = RowsOver(F, intents)
  BY <1>1 DEF LinkInv, UserOK
<1>3. ASSUME NEW l \in UserRows
      PROVE  ~Dangling(l) /\ \E m \in intents, e \in AllEntities : StandsFor(l, m, e)
  <2>1. PICK m \in intents : l \in RowsIn(F, m)
    BY <1>2 DEF RowsOver
  <2>2. /\ m.document \in Docs(F) /\ l.document = m.document
        /\ \E e \in Ents(F) : l.entity = e.id /\ QualifiedName(e) = m.entity
        /\ l.chunk = IF m.ordinal \in DOMAIN UnitsIn(F, m.document) THEN m.ordinal ELSE WholeDocument
    BY <2>1 DEF RowsIn
  <2>3. ~Dangling(l)
    BY <2>2, DanglingIs DEF DanglingIn
  <2>4. \E e \in AllEntities : StandsFor(l, m, e)
    BY <2>2, ModelChunks DEF StandsFor
  <2> QED
    BY <2>3, <2>4
<1>4. ASSUME NEW m \in intents, NEW e \in AllEntities, m.document \in AllDocuments, m.entity = QualifiedName(e)
      PROVE  \E l \in UserRows : StandsFor(l, m, e)
  <2> DEFINE chunk == IF m.ordinal \in DOMAIN UnitsIn(F, m.document) THEN m.ordinal ELSE WholeDocument
             l == [entity |-> e.id, document |-> m.document, chunk |-> chunk,
                   type |-> "documented_by", resolver |-> User]
  <2>1. e \in Ents(F) /\ m.document \in Docs(F)
    BY <1>4, ModelChunks
  <2>2. l \in RowsIn(F, m)
    BY <1>4, <2>1 DEF RowsIn
  <2>3. StandsFor(l, m, e)
    BY <1>4, ModelChunks DEF StandsFor
  <2> QED
    BY <1>2, <2>2, <2>3 DEF RowsOver
<1> QED
  BY <1>3, <1>4 DEF UserLinksRight

\* Incremental passes give the links a full pass would, and the links of the
\* user survive every build, for any files, names and numbers of edits and
\* commands (linker.rs, manual.rs).
THEOREM LinksAreRight == LinkingSpec => []LinkingRight
<1>1. LinkInv => LinkingRight
  BY AutomaticIs, UserIs DEF LinkingRight
<1> QED
  BY <1>1, LinkInvariant, PTL
=============================================================================
