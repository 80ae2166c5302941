---------------------- MODULE PolymarketCatalogueProofs ----------------------
(***************************************************************************)
(* Proofs about TagTaxonomy and PolymarketCatalogue, for any catalogue, any *)
(* number of syncs and of faults.                                           *)
(***************************************************************************)
EXTENDS PolymarketCatalogue, SequenceTheorems, FiniteSetTheorems, TLAPS

-----------------------------------------------------------------------------
(* The selection of the DEV_MODE sync.                                      *)

\* below[x] is what comes before x in a strict total order on F.
Orders(below, F) ==
    /\ below \in [F -> SUBSET F]
    /\ \A x \in F : x \notin below[x]
    /\ \A x, y \in F : x \in below[y] => below[x] \subseteq below[y]
    /\ \A x, y \in F : x = y \/ x \in below[y] \/ y \in below[x]

\* Counting what comes before numbers a finite set in its order, without gaps.
LEMMA Ranking ==
    ASSUME NEW F, IsFiniteSet(F), NEW below, Orders(below, F)
    PROVE  /\ Cardinality(F) \in Nat
           /\ \A x \in F : /\ Cardinality(below[x]) \in Nat
                           /\ Cardinality(below[x]) < Cardinality(F)
           /\ \A x, y \in F : x \in below[y]
                                <=> Cardinality(below[x]) < Cardinality(below[y])
           /\ \A x, y \in F : Cardinality(below[x]) = Cardinality(below[y]) => x = y
           /\ \A k \in 1..Cardinality(F) : \E x \in F : Cardinality(below[x]) + 1 = k
  <1> DEFINE n == Cardinality(F)
             rank(x) == Cardinality(below[x])
             f == [x \in F |-> rank(x) + 1]
  <1>1. ASSUME NEW x \in F PROVE IsFiniteSet(below[x]) /\ rank(x) \in Nat
    <2>1. below[x] \in SUBSET F
      BY DEF Orders
    <2>2. IsFiniteSet(below[x])
      BY <2>1, FS_Subset
    <2>3. QED
      BY <2>2, FS_CardinalityType
  <1>2. n \in Nat
    BY FS_CardinalityType
  <1>3. ASSUME NEW x \in F, NEW S, IsFiniteSet(S), below[x] \subseteq S, x \in S
        PROVE  rank(x) < Cardinality(S)
    <2>1. below[x] \in SUBSET S /\ below[x] # S
      BY <1>3 DEF Orders
    <2>2. rank(x) <= Cardinality(S) /\ Cardinality(S) # rank(x)
      BY <2>1, <1>3, FS_Subset
    <2>3. Cardinality(S) \in Nat
      BY <1>3, FS_CardinalityType
    <2>4. QED
      BY <2>2, <2>3, <1>1
  <1>4. ASSUME NEW x \in F PROVE rank(x) < n
    <2>1. below[x] \subseteq F
      BY DEF Orders
    <2>2. QED
      BY <2>1, <1>3
  <1>5. ASSUME NEW x \in F, NEW y \in F, x \in below[y] PROVE rank(x) < rank(y)
    <2>1. below[x] \subseteq below[y]
      BY <1>5 DEF Orders
    <2>2. QED
      BY <2>1, <1>1, <1>3, <1>5
  <1>6. ASSUME NEW x \in F, NEW y \in F PROVE x = y \/ x \in below[y] \/ y \in below[x]
    BY DEF Orders
  <1>7. ASSUME NEW x \in F, NEW y \in F PROVE x \in below[y] <=> rank(x) < rank(y)
    <2>1. rank(x) \in Nat /\ rank(y) \in Nat
      BY <1>1
    <2>2. QED
      BY <2>1, <1>5, <1>6
  <1>8. ASSUME NEW x \in F, NEW y \in F, rank(x) = rank(y) PROVE x = y
    <2>1. rank(x) \in Nat /\ rank(y) \in Nat
      BY <1>1
    <2>2. QED
      BY <2>1, <1>5, <1>6, <1>8
  <1>9. f \in Surjection(F, 1..n)
    <2>1. IsFiniteSet(1..n) /\ Cardinality(1..n) = n
      <3>1. 1 \in Int /\ n \in Int
        BY <1>2
      <3>2. /\ IsFiniteSet(1..n)
            /\ Cardinality(1..n) = IF 1 > n THEN 0 ELSE n - 1 + 1
        BY <3>1, FS_Interval
      <3>3. QED
        BY <3>2, <1>2
    <2>2. ASSUME NEW x \in F PROVE f[x] \in 1..n
      BY <1>1, <1>2, <1>4
    <2>3. f \in [F -> 1..n]
      BY <2>2
    <2>4. ASSUME NEW x \in F, NEW y \in F, f[x] = f[y] PROVE x = y
      <3>1. rank(x) \in Nat /\ rank(y) \in Nat /\ rank(x) + 1 = rank(y) + 1
        BY <2>4, <1>1
      <3>2. QED
        BY <3>1, <1>8
    <2>5. f \in Injection(F, 1..n)
      BY <2>3, <2>4 DEF Injection, IsInjective
    <2>6. QED
      BY <2>1, <2>5, FS_Injection
  <1>10. ASSUME NEW k \in 1..n PROVE \E x \in F : rank(x) + 1 = k
    <2>1. \E x \in F : f[x] = k
      BY <1>9 DEF Surjection
    <2>2. QED
      BY <2>1
  <1>11. QED
    BY <1>1, <1>2, <1>4, <1>7, <1>8, <1>10

\* A page of candidates with their buckets and volumes.
Page(page, bucket, volume) ==
    \E C : page \in Seq(C) /\ bucket \in [C -> Nat] /\ volume \in [C -> Nat]

LEMMA PageTyped ==
    ASSUME NEW page, NEW bucket, NEW volume, Page(page, bucket, volume)
    PROVE  /\ Len(page) \in Nat /\ DOMAIN page = 1..Len(page)
           /\ IsFiniteSet(DOMAIN page) /\ DOMAIN page \subseteq Nat
           /\ \A i \in DOMAIN page : bucket[page[i]] \in Nat /\ volume[page[i]] \in Nat
  <1>1. PICK C : page \in Seq(C) /\ bucket \in [C -> Nat] /\ volume \in [C -> Nat]
    BY DEF Page
  <1>2. Len(page) \in Nat /\ DOMAIN page = 1..Len(page)
    BY <1>1
  <1>3. ASSUME NEW i \in DOMAIN page PROVE page[i] \in C
    BY <1>1, <1>2
  <1>4. IsFiniteSet(1..Len(page))
    BY <1>2, FS_Interval
  <1>5. QED
    BY <1>1, <1>2, <1>3, <1>4

\* The places of the page in bucket b.
Places(page, bucket, b) == {i \in DOMAIN page : bucket[page[i]] = b}

\* The places of a bucket are numbered by their rounds, the largest volume first.
LEMMA Rounds ==
    ASSUME NEW page, NEW bucket, NEW volume, Page(page, bucket, volume), NEW b
    PROVE  LET B == Places(page, bucket, b)
               round(i) == Round(page, bucket, volume, i)
           IN  /\ Cardinality(B) \in Nat
               /\ \A i \in B : /\ Ahead(page, bucket, volume, i) \subseteq B
                               /\ round(i) \in Nat /\ round(i) < Cardinality(B)
               /\ \A i, j \in B : i \in Ahead(page, bucket, volume, j)
                                    <=> round(i) < round(j)
               /\ \A i, j \in B : round(i) = round(j) => i = j
               /\ \A k \in 1..Cardinality(B) : \E i \in B : round(i) + 1 = k
  <1> DEFINE B == Places(page, bucket, b)
             below == [i \in B |-> Ahead(page, bucket, volume, i)]
  <1>1. /\ IsFiniteSet(DOMAIN page) /\ DOMAIN page \subseteq Nat
        /\ \A i \in DOMAIN page : volume[page[i]] \in Nat
    BY PageTyped
  <1>2. B \in SUBSET DOMAIN page
    BY DEF Places
  <1>3. IsFiniteSet(B)
    BY <1>1, <1>2, FS_Subset
  <1>4. ASSUME NEW i \in B
        PROVE  /\ Ahead(page, bucket, volume, i) \subseteq B
               /\ \A j \in B : j \in Ahead(page, bucket, volume, i)
                             <=> \/ volume[page[j]] > volume[page[i]]
                                 \/ volume[page[j]] = volume[page[i]] /\ j < i
    <2>1. i \in DOMAIN page /\ bucket[page[i]] = b
      BY DEF Places
    <2>2. ASSUME NEW j \in Ahead(page, bucket, volume, i) PROVE j \in B
      BY <2>1, <2>2 DEF Places, Ahead
    <2>3. ASSUME NEW j \in B
          PROVE  j \in Ahead(page, bucket, volume, i)
                   <=> \/ volume[page[j]] > volume[page[i]]
                       \/ volume[page[j]] = volume[page[i]] /\ j < i
      BY <2>1 DEF Places, Ahead
    <2>4. QED
      BY <2>2, <2>3
  <1>5. Orders(below, B)
    <2>1. below \in [B -> SUBSET B]
      BY <1>4
    <2>2. ASSUME NEW x \in B PROVE x \notin below[x]
      <3>1. volume[page[x]] \in Nat /\ x \in Nat
        BY <1>1, <1>2
      <3>2. QED
        BY <3>1, <1>4
    <2>3. ASSUME NEW x \in B, NEW y \in B, x \in below[y]
          PROVE  below[x] \subseteq below[y]
      <3>1. SUFFICES ASSUME NEW z \in below[x] PROVE z \in below[y]
        OBVIOUS
      <3>2. z \in B
        BY <1>4
      <3>3. /\ volume[page[x]] \in Nat /\ x \in Nat
            /\ volume[page[y]] \in Nat /\ y \in Nat
            /\ volume[page[z]] \in Nat /\ z \in Nat
        BY <3>2, <1>1, <1>2
      <3>4. \/ volume[page[x]] > volume[page[y]]
            \/ volume[page[x]] = volume[page[y]] /\ x < y
        BY <2>3, <1>4
      <3>5. \/ volume[page[z]] > volume[page[x]]
            \/ volume[page[z]] = volume[page[x]] /\ z < x
        BY <3>1, <3>2, <1>4
      <3>6. \/ volume[page[z]] > volume[page[y]]
            \/ volume[page[z]] = volume[page[y]] /\ z < y
        BY <3>3, <3>4, <3>5
      <3>7. QED
        BY <3>2, <3>6, <1>4
    <2>4. ASSUME NEW x \in B, NEW y \in B
          PROVE  x = y \/ x \in below[y] \/ y \in below[x]
      <3>1. /\ volume[page[x]] \in Nat /\ x \in Nat
            /\ volume[page[y]] \in Nat /\ y \in Nat
        BY <1>1, <1>2
      <3>2. \/ x = y
            \/ volume[page[x]] > volume[page[y]]
            \/ volume[page[x]] = volume[page[y]] /\ x < y
            \/ volume[page[y]] > volume[page[x]]
            \/ volume[page[y]] = volume[page[x]] /\ y < x
        BY <3>1
      <3>3. QED
        BY <3>2, <1>4
    <2>5. QED
      BY <2>1, <2>2, <2>3, <2>4 DEF Orders
  <1>6. ASSUME NEW i \in B
        PROVE  /\ below[i] = Ahead(page, bucket, volume, i)
               /\ Round(page, bucket, volume, i) = Cardinality(below[i])
    BY DEF Round
  <1>7. ASSUME NEW i \in B PROVE Ahead(page, bucket, volume, i) \subseteq B
    BY <1>4
  <1> HIDE DEF B, below
  <1>8. /\ Cardinality(B) \in Nat
        /\ \A x \in B : /\ Cardinality(below[x]) \in Nat
                        /\ Cardinality(below[x]) < Cardinality(B)
        /\ \A x, y \in B : x \in below[y]
                             <=> Cardinality(below[x]) < Cardinality(below[y])
        /\ \A x, y \in B : Cardinality(below[x]) = Cardinality(below[y]) => x = y
        /\ \A k \in 1..Cardinality(B) : \E x \in B : Cardinality(below[x]) + 1 = k
    BY <1>3, <1>5, Ranking
  <1>9. QED
    BY <1>6, <1>7, <1>8 DEF B

\* The places that are selected in one of n rounds, and the turn of each of them.
InRounds(page, bucket, volume, n) ==
    {i \in DOMAIN page : Round(page, bucket, volume, i) < n}

Turn(page, bucket, volume, n, i) ==
    Cardinality({j \in InRounds(page, bucket, volume, n) :
                    Sooner(page, bucket, volume, j, i)}) + 1

LEMMA SameBucket ==
    ASSUME NEW page, NEW bucket, NEW volume, Page(page, bucket, volume),
           NEW i \in DOMAIN page
    PROVE  /\ Round(page, bucket, volume, i) \in Nat
           /\ \A j \in DOMAIN page :
                 bucket[page[j]] = bucket[page[i]]
                 /\ Round(page, bucket, volume, j) = Round(page, bucket, volume, i)
                 => j = i
  <1> DEFINE B == Places(page, bucket, bucket[page[i]])
  <1>1. /\ \A x \in B : Round(page, bucket, volume, x) \in Nat
        /\ \A x, y \in B : Round(page, bucket, volume, x) = Round(page, bucket, volume, y)
                            => x = y
    BY Rounds
  <1>2. i \in B /\ \A j \in DOMAIN page : bucket[page[j]] = bucket[page[i]] => j \in B
    BY DEF Places
  <1>3. QED
    BY <1>1, <1>2

\* Turns number the places that are selected in n rounds.
LEMMA Turns ==
    ASSUME NEW page, NEW bucket, NEW volume, Page(page, bucket, volume), NEW n \in Nat
    PROVE  LET R == InRounds(page, bucket, volume, n)
               turn(i) == Turn(page, bucket, volume, n, i)
           IN  /\ Cardinality(R) \in Nat
               /\ \A i \in R : turn(i) \in 1..Cardinality(R)
               /\ \A i, j \in R : Sooner(page, bucket, volume, i, j) => turn(i) < turn(j)
               /\ \A i, j \in R : turn(i) = turn(j) => i = j
               /\ \A k \in 1..Cardinality(R) : \E i \in R : turn(i) = k
  <1> DEFINE R == InRounds(page, bucket, volume, n)
             round(i) == Round(page, bucket, volume, i)
             before(i) == {j \in R : Sooner(page, bucket, volume, j, i)}
             below == [i \in R |-> before(i)]
  <1>1. /\ IsFiniteSet(DOMAIN page)
        /\ \A i \in DOMAIN page : bucket[page[i]] \in Nat
    BY PageTyped
  <1>2. R \in SUBSET DOMAIN page
    BY DEF InRounds
  <1>3. IsFiniteSet(R)
    BY <1>1, <1>2, FS_Subset
  <1>4. ASSUME NEW i \in R PROVE round(i) \in Nat /\ bucket[page[i]] \in Nat
    BY <1>1, <1>2, SameBucket
  <1>5. ASSUME NEW i \in R, NEW j \in R, round(i) = round(j),
               bucket[page[i]] = bucket[page[j]]
        PROVE  i = j
    BY <1>2, <1>5, SameBucket
  <1>6. ASSUME NEW i \in R, NEW j \in R
        PROVE  Sooner(page, bucket, volume, j, i)
               <=> \/ round(j) < round(i)
                   \/ round(j) = round(i) /\ bucket[page[j]] < bucket[page[i]]
    BY DEF Sooner
  <1>7. Orders(below, R)
    <2>1. below \in [R -> SUBSET R]
      OBVIOUS
    <2> HIDE DEF R, round
    <2>2. ASSUME NEW x \in R PROVE x \notin below[x]
      BY <1>4, <1>6
    <2>3. ASSUME NEW x \in R, NEW y \in R, x \in below[y]
          PROVE  below[x] \subseteq below[y]
      <3>1. SUFFICES ASSUME NEW z \in below[x] PROVE z \in below[y]
        OBVIOUS
      <3>2. z \in R
        OBVIOUS
      <3>3. /\ round(x) \in Nat /\ bucket[page[x]] \in Nat
            /\ round(y) \in Nat /\ bucket[page[y]] \in Nat
            /\ round(z) \in Nat /\ bucket[page[z]] \in Nat
        BY <3>2, <1>4
      <3>4. \/ round(x) < round(y)
            \/ round(x) = round(y) /\ bucket[page[x]] < bucket[page[y]]
        BY <2>3, <1>6
      <3>5. \/ round(z) < round(x)
            \/ round(z) = round(x) /\ bucket[page[z]] < bucket[page[x]]
        BY <3>1, <3>2, <1>6
      <3>6. \/ round(z) < round(y)
            \/ round(z) = round(y) /\ bucket[page[z]] < bucket[page[y]]
        BY <3>3, <3>4, <3>5
      <3>7. QED
        BY <3>2, <3>6, <1>6
    <2>4. ASSUME NEW x \in R, NEW y \in R
          PROVE  x = y \/ x \in below[y] \/ y \in below[x]
      <3>1. /\ round(x) \in Nat /\ bucket[page[x]] \in Nat
            /\ round(y) \in Nat /\ bucket[page[y]] \in Nat
        BY <1>4
      <3>2. \/ round(x) = round(y) /\ bucket[page[x]] = bucket[page[y]]
            \/ round(x) < round(y)
            \/ round(x) = round(y) /\ bucket[page[x]] < bucket[page[y]]
            \/ round(y) < round(x)
            \/ round(y) = round(x) /\ bucket[page[y]] < bucket[page[x]]
        BY <3>1
      <3>3. QED
        BY <3>2, <1>5, <1>6
    <2>5. QED
      BY <2>1, <2>2, <2>3, <2>4 DEF Orders
  <1>8. ASSUME NEW i \in R
        PROVE  Turn(page, bucket, volume, n, i) = Cardinality(below[i]) + 1
    BY DEF Turn
  <1>9. ASSUME NEW i \in R, NEW j \in R, Sooner(page, bucket, volume, i, j)
        PROVE  i \in below[j]
    BY <1>9
  <1> HIDE DEF R, below
  <1>10. /\ Cardinality(R) \in Nat
         /\ \A x \in R : /\ Cardinality(below[x]) \in Nat
                         /\ Cardinality(below[x]) < Cardinality(R)
         /\ \A x, y \in R : x \in below[y]
                              <=> Cardinality(below[x]) < Cardinality(below[y])
         /\ \A x, y \in R : Cardinality(below[x]) = Cardinality(below[y]) => x = y
         /\ \A k \in 1..Cardinality(R) : \E x \in R : Cardinality(below[x]) + 1 = k
    BY <1>3, <1>7, Ranking
  <1>11. ASSUME NEW i \in R
         PROVE  Turn(page, bucket, volume, n, i) \in 1..Cardinality(R)
    BY <1>8, <1>10
  <1>12. ASSUME NEW i \in R, NEW j \in R, Sooner(page, bucket, volume, i, j)
         PROVE  Turn(page, bucket, volume, n, i) < Turn(page, bucket, volume, n, j)
    BY <1>8, <1>9, <1>10, <1>12
  <1>13. ASSUME NEW i \in R, NEW j \in R,
                Turn(page, bucket, volume, n, i) = Turn(page, bucket, volume, n, j)
         PROVE  i = j
    <2>1. Cardinality(below[i]) + 1 = Cardinality(below[j]) + 1
      BY <1>8, <1>13
    <2>2. Cardinality(below[i]) \in Nat /\ Cardinality(below[j]) \in Nat
      BY <1>10
    <2>3. Cardinality(below[i]) = Cardinality(below[j])
      BY <2>1, <2>2
    <2>4. QED
      BY <2>3, <1>10
  <1>14. ASSUME NEW k \in 1..Cardinality(R)
         PROVE  \E i \in R : Turn(page, bucket, volume, n, i) = k
    BY <1>8, <1>10
  <1>15. QED
    BY <1>10, <1>11, <1>12, <1>13, <1>14 DEF R

\* The places whose turn comes before the selection is full.
Taken(page, bucket, volume, total, n) ==
    LET R == InRounds(page, bucket, volume, n)
    IN  {i \in R : Turn(page, bucket, volume, n, i) <= Lesser(total, Cardinality(R))}

PlacesPicks(place, page, bucket, volume, total, n) ==
    LET T == Taken(page, bucket, volume, total, n)
        turn(i) == Turn(page, bucket, volume, n, i)
        picks == SelectDiverse(page, bucket, volume, total, n)
    IN  /\ \A k \in DOMAIN picks : turn(place[k]) = k /\ picks[k] = page[place[k]]
        /\ \A i \in T : turn(i) \in DOMAIN picks /\ place[turn(i)] = i

\* The k-th series that is selected is the one at the place whose turn is k.
LEMMA Picks ==
    ASSUME NEW page, NEW bucket, NEW volume, Page(page, bucket, volume),
           NEW n \in Nat, NEW total \in Nat
    PROVE  LET T == Taken(page, bucket, volume, total, n)
               turn(i) == Turn(page, bucket, volume, n, i)
               size == Lesser(total, Cardinality(InRounds(page, bucket, volume, n)))
               picks == SelectDiverse(page, bucket, volume, total, n)
           IN  /\ size \in Nat /\ size <= total
               /\ T \subseteq DOMAIN page
               /\ picks \in [1..size -> {page[i] : i \in T}]
               /\ \E place \in [1..size -> T] :
                     PlacesPicks(place, page, bucket, volume, total, n)
  <1> DEFINE R == InRounds(page, bucket, volume, n)
             T == Taken(page, bucket, volume, total, n)
             turn(i) == Turn(page, bucket, volume, n, i)
             size == Lesser(total, Cardinality(R))
             picks == SelectDiverse(page, bucket, volume, total, n)
             place == [k \in 1..size |-> CHOOSE i \in R : turn(i) = k]
  <1>1. /\ Cardinality(R) \in Nat
        /\ \A i \in R : turn(i) \in 1..Cardinality(R)
        /\ \A i, j \in R : turn(i) = turn(j) => i = j
        /\ \A k \in 1..Cardinality(R) : \E i \in R : turn(i) = k
    BY Turns
  <1>2. size \in Nat /\ size <= total /\ size <= Cardinality(R)
    BY <1>1 DEF Lesser
  <1>3. R \subseteq DOMAIN page /\ T \subseteq R /\ T = {i \in R : turn(i) <= size}
    BY DEF InRounds, Taken
  <1>4. picks = [k \in 1..size |-> page[CHOOSE i \in R : turn(i) = k]]
    BY DEF SelectDiverse, InRounds, Turn
  <1> HIDE DEF R, T, turn, size, picks
  <1>5. ASSUME NEW k \in 1..size
        PROVE  place[k] \in T /\ turn(place[k]) = k /\ picks[k] = page[place[k]]
    <2>1. k \in 1..Cardinality(R) /\ k <= size
      BY <1>1, <1>2
    <2>2. \E i \in R : turn(i) = k
      BY <2>1, <1>1
    <2>3. place[k] = CHOOSE i \in R : turn(i) = k
      OBVIOUS
    <2>4. place[k] \in R /\ turn(place[k]) = k
      BY <2>2, <2>3
    <2>5. place[k] \in T
      BY <2>1, <2>4, <1>3
    <2>6. picks[k] = page[place[k]]
      BY <2>3, <1>4
    <2>7. QED
      BY <2>4, <2>5, <2>6
  <1>6. place \in [1..size -> T]
    BY <1>5
  <1>7. picks \in [1..size -> {page[i] : i \in T}]
    BY <1>4, <1>5
  <1>8. ASSUME NEW i \in T PROVE turn(i) \in 1..size /\ place[turn(i)] = i
    <2>1. i \in R /\ turn(i) \in 1..Cardinality(R) /\ turn(i) <= size
      BY <1>1, <1>3
    <2>2. turn(i) \in 1..size
      BY <2>1, <1>1, <1>2
    <2>3. place[turn(i)] \in R /\ turn(place[turn(i)]) = turn(i)
      BY <2>2, <1>3, <1>5
    <2>4. QED
      BY <2>1, <2>2, <2>3, <1>1
  <1> HIDE DEF place
  <1>9. DOMAIN picks = 1..size
    BY <1>4
  <1>10. PlacesPicks(place, page, bucket, volume, total, n)
    BY <1>5, <1>8, <1>9 DEF PlacesPicks, T, turn, picks
  <1>11. T \subseteq DOMAIN page
    BY <1>3
  <1>12. QED
    BY <1>2, <1>6, <1>7, <1>10, <1>11 DEF R, T, turn, size, picks

At(page, T) == {page[i] : i \in T}

\* What is selected are series of the page, each place of it once.
LEMMA SelectionOfPage ==
    ASSUME NEW page, NEW bucket, NEW volume, Page(page, bucket, volume),
           NEW n \in Nat, NEW total \in Nat
    PROVE  LET T == Taken(page, bucket, volume, total, n)
               picks == SelectDiverse(page, bucket, volume, total, n)
           IN  /\ \A C : page \in Seq(C) => picks \in Seq(C)
               /\ Len(picks) =
                     Lesser(total, Cardinality(InRounds(page, bucket, volume, n)))
               /\ ToSet(picks) = At(page, T)
               /\ IsInjective(page) => IsInjective(picks)
  <1> DEFINE T == Taken(page, bucket, volume, total, n)
             turn(i) == Turn(page, bucket, volume, n, i)
             size == Lesser(total, Cardinality(InRounds(page, bucket, volume, n)))
             picks == SelectDiverse(page, bucket, volume, total, n)
  <1>1. /\ size \in Nat /\ size <= total
        /\ T \subseteq DOMAIN page
        /\ picks \in [1..size -> {page[i] : i \in T}]
        /\ \E place \in [1..size -> T] : PlacesPicks(place, page, bucket, volume, total, n)
    BY Picks
  <1>2. DOMAIN page = 1..Len(page)
    BY PageTyped
  <1>3. DOMAIN picks = 1..size
    BY <1>1
  <1> HIDE DEF T, turn, size, picks
  <1>4. PICK place \in [1..size -> T] : PlacesPicks(place, page, bucket, volume, total, n)
    BY <1>1
  <1>5. /\ \A k \in 1..size : turn(place[k]) = k /\ picks[k] = page[place[k]]
        /\ \A i \in T : turn(i) \in 1..size /\ place[turn(i)] = i
    BY <1>4, <1>3 DEF PlacesPicks, T, turn, picks
  <1>6. ASSUME NEW C, page \in Seq(C) PROVE picks \in Seq(C)
    <2>1. ASSUME NEW k \in 1..size PROVE page[place[k]] \in C
      BY <1>2, <1>1, <1>5, <1>6
    <2>2. picks \in [1..size -> C]
      BY <2>1, <1>1, <1>5
    <2>3. QED
      BY <2>2, <1>1
  <1>7. Len(picks) = size
    BY <1>1, <1>3
  <1>8. ToSet(picks) = {page[i] : i \in T}
    <2>1. ToSet(picks) = {picks[k] : k \in 1..size}
      BY <1>3 DEF ToSet
    <2>2. ASSUME NEW k \in 1..size PROVE picks[k] \in {page[i] : i \in T}
      BY <1>5
    <2>3. ASSUME NEW i \in T PROVE page[i] \in {picks[k] : k \in 1..size}
      <3>1. turn(i) \in 1..size /\ picks[turn(i)] = page[i]
        BY <1>5
      <3>2. QED
        BY <3>1
    <2>4. QED
      BY <2>1, <2>2, <2>3
  <1>9. ASSUME IsInjective(page) PROVE IsInjective(picks)
    <2>1. ASSUME NEW k \in 1..size, NEW l \in 1..size, picks[k] = picks[l] PROVE k = l
      <3>1. page[place[k]] = page[place[l]]
        BY <2>1, <1>5
      <3>2. place[k] \in DOMAIN page /\ place[l] \in DOMAIN page
        BY <1>1
      <3>3. place[k] = place[l]
        BY <3>1, <3>2, <1>9 DEF IsInjective
      <3>4. QED
        BY <3>3, <1>5
    <2>2. QED
      BY <2>1, <1>3 DEF IsInjective
  <1>10. QED
    BY <1>6, <1>7, <1>8, <1>9 DEF At, T, size, picks

TakenOf(page, bucket, volume, total, n, b) ==
    {i \in Taken(page, bucket, volume, total, n) : bucket[page[i]] = b}

\* What is taken of a bucket are the first rounds of it, without gaps.
FirstRounds(page, bucket, volume, total, n, b) ==
    LET T == Taken(page, bucket, volume, total, n)
        round(i) == Round(page, bucket, volume, i)
        P == TakenOf(page, bucket, volume, total, n, b)
        c == Cardinality(P)
    IN  /\ IsFiniteSet(P) /\ c \in Nat /\ c <= n
        /\ \A i \in P : round(i) \in 0..(c - 1)
        /\ \A k \in 0..(c - 1) : \E i \in P : round(i) = k
        /\ \A t \in Places(page, bucket, b) \ T :
              /\ P \subseteq Ahead(page, bucket, volume, t)
              /\ c < n => \E u \in InRounds(page, bucket, volume, n) \ T :
                              bucket[page[u]] = b /\ round(u) = c

LEMMA TakenOfBucket ==
    ASSUME NEW page, NEW bucket, NEW volume, Page(page, bucket, volume),
           NEW n \in Nat, NEW total \in Nat, NEW b
    PROVE  FirstRounds(page, bucket, volume, total, n, b)
  <1> DEFINE R == InRounds(page, bucket, volume, n)
             T == Taken(page, bucket, volume, total, n)
             B == Places(page, bucket, b)
             ahead(i) == Ahead(page, bucket, volume, i)
             round(i) == Round(page, bucket, volume, i)
             turn(i) == Turn(page, bucket, volume, n, i)
             size == Lesser(total, Cardinality(R))
             P == TakenOf(page, bucket, volume, total, n, b)
             c == Cardinality(P)
  <1>1. /\ Cardinality(B) \in Nat
        /\ \A i \in B : ahead(i) \subseteq B /\ round(i) \in Nat /\ round(i) < Cardinality(B)
        /\ \A i, j \in B : i \in ahead(j) <=> round(i) < round(j)
        /\ \A i, j \in B : round(i) = round(j) => i = j
        /\ \A k \in 1..Cardinality(B) : \E i \in B : round(i) + 1 = k
    BY Rounds
  <1>2. /\ Cardinality(R) \in Nat
        /\ \A i \in R : turn(i) \in 1..Cardinality(R)
        /\ \A i, j \in R : Sooner(page, bucket, volume, i, j) => turn(i) < turn(j)
    BY Turns
  <1>3. size \in Nat
    BY <1>2 DEF Lesser
  <1>4. /\ IsFiniteSet(DOMAIN page)
        /\ R = {i \in DOMAIN page : round(i) < n}
        /\ T = {i \in R : turn(i) <= size}
        /\ B = {i \in DOMAIN page : bucket[page[i]] = b}
        /\ P \subseteq T /\ P \subseteq B
    BY PageTyped DEF InRounds, Taken, TakenOf, Places
  <1>5. \A i \in DOMAIN page : round(i) = Cardinality(ahead(i))
    BY DEF Round
  <1>6. ASSUME NEW i \in R, NEW j \in R, round(i) < round(j)
        PROVE  Sooner(page, bucket, volume, i, j)
    BY <1>6 DEF Sooner
  <1>7. \A i \in B \cap T : i \in P
    BY <1>4 DEF TakenOf
  <1> HIDE DEF R, T, B, ahead, round, turn, size, P
  <1>8. IsFiniteSet(P) /\ c \in Nat
    <2>1. P \in SUBSET DOMAIN page
      BY <1>4
    <2>2. IsFiniteSet(P)
      BY <2>1, <1>4, FS_Subset
    <2>3. QED
      BY <2>2, FS_CardinalityType
  <1>9. ASSUME NEW i \in P, NEW j \in B, round(j) < round(i) PROVE j \in P
    <2>1. i \in R /\ turn(i) <= size /\ i \in B /\ j \in DOMAIN page
      BY <1>4
    <2>2. round(i) \in Nat /\ round(j) \in Nat /\ round(i) < n
      BY <2>1, <1>1, <1>4
    <2>3. j \in R
      BY <2>1, <2>2, <1>4, <1>9
    <2>4. turn(j) < turn(i)
      BY <2>1, <2>3, <1>2, <1>6, <1>9
    <2>5. turn(j) <= size
      BY <2>1, <2>3, <2>4, <1>2, <1>3
    <2>6. QED
      BY <2>3, <2>5, <1>4, <1>7
  <1>10. ASSUME NEW i \in P PROVE round(i) \in 0..(c - 1)
    <2>1. i \in B /\ i \in DOMAIN page
      BY <1>4
    <2>2. ASSUME NEW j \in ahead(i) PROVE j \in P
      <3>1. j \in B
        BY <2>1, <1>1
      <3>2. round(j) < round(i)
        BY <2>1, <3>1, <1>1
      <3>3. QED
        BY <3>1, <3>2, <1>9
    <2>3. i \notin ahead(i)
      <3>1. round(i) \in Nat
        BY <2>1, <1>1
      <3>2. QED
        BY <2>1, <3>1, <1>1
    <2>4. ahead(i) \in SUBSET P /\ ahead(i) # P
      BY <2>2, <2>3
    <2>5. Cardinality(ahead(i)) <= c /\ c # Cardinality(ahead(i))
      BY <2>4, <1>8, FS_Subset
    <2>6. round(i) = Cardinality(ahead(i)) /\ round(i) \in Nat
      BY <2>1, <1>1, <1>5
    <2>7. QED
      BY <2>5, <2>6, <1>8
  <1>11. ASSUME NEW i \in P, NEW j \in P, round(i) = round(j) PROVE i = j
    BY <1>1, <1>4, <1>11
  <1>12. c <= n /\ \A k \in 0..(c - 1) : \E i \in P : round(i) = k
    <2> DEFINE f == [i \in P |-> round(i)]
    <2>1. \A m \in Nat : IsFiniteSet(0..(m - 1)) /\ Cardinality(0..(m - 1)) = m
      <3>1. ASSUME NEW m \in Nat
            PROVE  IsFiniteSet(0..(m - 1)) /\ Cardinality(0..(m - 1)) = m
        <4>1. 0 \in Int /\ m - 1 \in Int
          OBVIOUS
        <4>2. /\ IsFiniteSet(0..(m - 1))
              /\ Cardinality(0..(m - 1)) = IF 0 > m - 1 THEN 0 ELSE m - 1 - 0 + 1
          BY <4>1, FS_Interval
        <4>3. QED
          BY <4>2
      <3>2. QED
        BY <3>1
    <2>2. IsInjective(f)
      BY <1>11 DEF IsInjective
    <2>3. ASSUME NEW m \in Nat, \A i \in P : round(i) \in 0..(m - 1)
          PROVE  f \in Injection(P, 0..(m - 1))
      BY <2>2, <2>3 DEF Injection
    <2>4. f \in Injection(P, 0..(c - 1))
      BY <2>3, <1>8, <1>10
    <2>5. f \in Surjection(P, 0..(c - 1))
      BY <2>1, <2>4, <1>8, FS_Injection
    <2>6. ASSUME NEW k \in 0..(c - 1) PROVE \E i \in P : round(i) = k
      BY <2>5 DEF Surjection
    <2>7. ASSUME NEW i \in P PROVE round(i) \in 0..(n - 1)
      <3>1. round(i) \in Nat /\ round(i) < n
        BY <1>1, <1>4
      <3>2. QED
        BY <3>1
    <2>8. f \in Injection(P, 0..(n - 1))
      BY <2>3, <2>7
    <2>9. c <= n
      BY <2>1, <2>8, FS_Injection
    <2>10. QED
      BY <2>6, <2>9
  <1>13. ASSUME NEW t \in B \ T
         PROVE  /\ P \subseteq ahead(t)
                /\ c < n => \E u \in R \ T : u \in B /\ round(u) = c
    <2>1. ASSUME NEW i \in P PROVE i \in ahead(t)
      <3>1. i \in B /\ t \notin P
        BY <1>4
      <3>2. ~(round(t) < round(i)) /\ round(t) # round(i)
        BY <3>1, <1>1, <1>9
      <3>3. round(t) \in Nat /\ round(i) \in Nat
        BY <3>1, <1>1
      <3>4. QED
        BY <3>1, <3>2, <3>3, <1>1
    <2>2. ASSUME c < n PROVE \E u \in R \ T : u \in B /\ round(u) = c
      <3>1. c <= round(t)
        <4>1. IsFiniteSet(ahead(t)) /\ P \in SUBSET ahead(t)
          <5>1. ahead(t) \in SUBSET DOMAIN page
            BY <1>1, <1>4
          <5>2. QED
            BY <5>1, <2>1, <1>4, FS_Subset
        <4>2. c <= Cardinality(ahead(t))
          BY <4>1, FS_Subset
        <4>3. QED
          BY <4>2, <1>4, <1>5
      <3>2. c + 1 \in 1..Cardinality(B)
        BY <3>1, <1>1, <1>8
      <3>3. PICK u \in B : round(u) + 1 = c + 1
        BY <3>2, <1>1
      <3>4. round(u) = c
        BY <3>3, <1>1, <1>8
      <3>5. u \in R
        BY <3>4, <2>2, <1>4
      <3>6. u \notin P
        <4>1. c \notin 0..(c - 1)
          BY <1>8
        <4>2. QED
          BY <4>1, <3>4, <1>10
      <3>7. QED
        BY <3>4, <3>5, <3>6, <1>7
    <2>3. QED
      BY <2>1, <2>2
  <1>14. ASSUME NEW t \in B \ T, c < n
         PROVE  \E u \in R \ T : bucket[page[u]] = b /\ round(u) = c
    BY <1>4, <1>13, <1>14
  <1>15. QED
    BY <1>8, <1>10, <1>12, <1>13, <1>14
       DEF FirstRounds, R, T, B, ahead, round, P

\* Series are counted at their places where a page lists none of them twice.
LEMMA CountedAtPlaces ==
    ASSUME NEW page, IsInjective(page), NEW T, T \subseteq DOMAIN page, IsFiniteSet(T)
    PROVE  Cardinality({page[i] : i \in T}) = Cardinality(T)
  <1> DEFINE S == {page[i] : i \in T}
             f == [i \in T |-> page[i]]
  <1>1. f \in [T -> S]
    OBVIOUS
  <1>2. \A i, j \in T : f[i] = f[j] => i = j
    BY DEF IsInjective
  <1>3. \A s \in S : \E i \in T : f[i] = s
    OBVIOUS
  <1>4. f \in Bijection(T, S)
    BY <1>1, <1>2, <1>3 DEF Bijection, Injection, Surjection, IsInjective
  <1>5. ExistsBijection(T, S)
    BY <1>4 DEF ExistsBijection
  <1>6. QED
    BY <1>5, FS_Bijection

\* _select_diverse_series keeps what it promises, whatever the page, its buckets and
\* volumes, the number of rounds and the number of series wanted.
THEOREM SelectionDiverse ==
    ASSUME NEW C, NEW page \in Seq(C), IsInjective(page),
           NEW bucket \in [C -> Nat], NEW volume \in [C -> Nat],
           NEW total \in Nat \ {0}, NEW n \in Nat
    PROVE  Diverse(SelectDiverse(page, bucket, volume, total, n),
                   page, bucket, volume, total, n)
  <1> DEFINE R == InRounds(page, bucket, volume, n)
             T == Taken(page, bucket, volume, total, n)
             round(i) == Round(page, bucket, volume, i)
             turn(i) == Turn(page, bucket, volume, n, i)
             size == Lesser(total, Cardinality(R))
             P(b) == TakenOf(page, bucket, volume, total, n, b)
             picks == SelectDiverse(page, bucket, volume, total, n)
             chosen == ToSet(picks)
             Count(b) == Cardinality({s \in chosen : bucket[s] = b})
  <1>1. Page(page, bucket, volume) /\ total \in Nat
    BY DEF Page
  <1>2. /\ Len(picks) = size /\ chosen = {page[i] : i \in T} /\ IsInjective(picks)
    <2>1. Len(picks) = size
      BY <1>1, SelectionOfPage
    <2>2. chosen = At(page, T)
      BY <1>1, SelectionOfPage
    <2>3. IsInjective(picks)
      BY <1>1, SelectionOfPage
    <2>4. QED
      BY <2>1, <2>2, <2>3 DEF At
  <1>3. /\ Cardinality(R) \in Nat
        /\ \A i \in R : turn(i) \in 1..Cardinality(R)
        /\ \A i, j \in R : Sooner(page, bucket, volume, i, j) => turn(i) < turn(j)
    BY <1>1, Turns
  <1>4. /\ R = {i \in DOMAIN page : round(i) < n}
        /\ T = {i \in R : turn(i) <= size}
    BY DEF InRounds, Taken
  <1>5. size \in Nat /\ (size = total \/ size = Cardinality(R))
    BY <1>3 DEF Lesser
  <1>6. ASSUME NEW b
        PROVE  /\ IsFiniteSet(P(b)) /\ Cardinality(P(b)) \in Nat
               /\ Cardinality(P(b)) <= n
               /\ \A i \in P(b) : round(i) \in 0..(Cardinality(P(b)) - 1)
               /\ \A k \in 0..(Cardinality(P(b)) - 1) : \E i \in P(b) : round(i) = k
               /\ \A t \in Places(page, bucket, b) \ T :
                     /\ P(b) \subseteq Ahead(page, bucket, volume, t)
                     /\ Cardinality(P(b)) < n =>
                           \E u \in R \ T : bucket[page[u]] = b
                                            /\ round(u) = Cardinality(P(b))
    <2>1. FirstRounds(page, bucket, volume, total, n, b)
      BY <1>1, TakenOfBucket
    <2>2. QED
      BY <2>1 DEF FirstRounds
  <1>7. \A i \in R, j \in R : round(i) < round(j) => Sooner(page, bucket, volume, i, j)
    BY DEF Sooner
  <1>8. \A t \in DOMAIN page : t \in Places(page, bucket, bucket[page[t]])
    BY DEF Places
  <1>9. \A t \in DOMAIN page : \A i \in Ahead(page, bucket, volume, t) :
            \/ volume[page[i]] > volume[page[t]] \/ volume[page[i]] = volume[page[t]]
    BY DEF Ahead
  <1>10. ASSUME NEW b PROVE Count(b) = Cardinality(P(b))
    <2>1. {s \in chosen : bucket[s] = b} = {page[i] : i \in P(b)}
      BY <1>2 DEF TakenOf
    <2>2. P(b) \subseteq DOMAIN page
      BY <1>4 DEF TakenOf
    <2>3. Cardinality({page[i] : i \in P(b)}) = Cardinality(P(b))
      BY <2>2, <1>6, CountedAtPlaces
    <2>4. QED
      BY <2>1, <2>3
  <1>11. ToSet(page) = {page[i] : i \in DOMAIN page} /\ T \subseteq DOMAIN page
    BY <1>4 DEF ToSet
  <1>12. \A i \in DOMAIN page : volume[page[i]] \in Nat
    BY <1>1, PageTyped
  <1>13. SUFFICES
           /\ \A s \in chosen : Count(bucket[s]) <= n
           /\ \A t \in ToSet(page) \ chosen :
                 /\ Count(bucket[t]) = n \/ size = total
                 /\ \A s \in chosen :
                      /\ bucket[s] = bucket[t] => volume[t] <= volume[s]
                      /\ Count(bucket[s]) <= Count(bucket[t]) + 1 \/ Count(bucket[t]) = n
    <2>1. chosen \subseteq ToSet(page)
      BY <1>2, <1>11
    <2>2. QED
      BY <2>1, <1>2, <1>13 DEF Diverse
  <1> HIDE DEF R, T, round, turn, size, P, picks, chosen, Count
  <1>14. ASSUME NEW s \in chosen PROVE Count(bucket[s]) <= n
    BY <1>6, <1>10
  <1>15. ASSUME NEW ts \in ToSet(page) \ chosen
         PROVE  /\ Count(bucket[ts]) = n \/ size = total
                /\ \A s \in chosen :
                      /\ bucket[s] = bucket[ts] => volume[ts] <= volume[s]
                      /\ \/ Count(bucket[s]) <= Count(bucket[ts]) + 1
                         \/ Count(bucket[ts]) = n
    <2>1. PICK t \in DOMAIN page : page[t] = ts
      BY <1>11
    <2> DEFINE b == bucket[ts]
               c == Count(b)
    <2>2. t \notin T /\ t \in Places(page, bucket, b) \ T
      BY <2>1, <1>2, <1>8
    <2>3. c \in Nat /\ c <= n /\ c = Cardinality(P(b))
      BY <1>6, <1>10
    <2>4. ASSUME c # n
          PROVE  \E u \in R \ T : bucket[page[u]] = b /\ round(u) = c
      <3>1. Cardinality(P(b)) < n
        BY <2>3, <2>4
      <3>2. \E u \in R \ T : bucket[page[u]] = b /\ round(u) = Cardinality(P(b))
        BY <2>2, <3>1, <1>6
      <3>3. QED
        BY <3>2, <2>3
    <2>5. c = n \/ size = total
      <3>1. SUFFICES ASSUME c # n, size # total PROVE FALSE
        OBVIOUS
      <3>2. R = T
        BY <3>1, <1>3, <1>4, <1>5
      <3>3. QED
        BY <3>1, <3>2, <2>4
    <2>6. ASSUME NEW s \in chosen, bucket[s] = b PROVE volume[ts] <= volume[s]
      <3>1. PICK i \in T : page[i] = s
        BY <1>2
      <3>2. i \in P(b)
        BY <3>1, <2>6 DEF P, T, TakenOf
      <3>3. i \in Ahead(page, bucket, volume, t)
        BY <3>2, <2>2, <1>6
      <3>4. volume[page[i]] > volume[page[t]] \/ volume[page[i]] = volume[page[t]]
        BY <3>3, <2>1, <1>9
      <3>5. volume[page[i]] \in Nat /\ volume[page[t]] \in Nat
        BY <1>11, <1>12
      <3>6. volume[page[t]] <= volume[page[i]]
        BY <3>4, <3>5
      <3>7. QED
        BY <3>6, <3>1, <2>1
    <2>7. ASSUME NEW s \in chosen PROVE Count(bucket[s]) <= c + 1 \/ c = n
      <3> DEFINE d == Count(bucket[s])
      <3>1. SUFFICES ASSUME d > c + 1, c # n PROVE FALSE
        <4>1. d \in Nat
          BY <1>6, <1>10
        <4>2. QED
          BY <4>1, <3>1, <2>3
      <3>2. d \in Nat /\ d = Cardinality(P(bucket[s]))
        BY <1>6, <1>10
      <3>3. d - 1 \in 0..(d - 1)
        BY <3>1, <3>2, <2>3
      <3>4. PICK v \in P(bucket[s]) : round(v) = d - 1
        BY <3>2, <3>3, <1>6
      <3>5. v \in T
        BY DEF P, T, TakenOf
      <3>6. PICK u \in R \ T : bucket[page[u]] = b /\ round(u) = c
        BY <3>1, <2>4
      <3>7. v \in R /\ turn(v) <= size
        BY <3>5, <1>4
      <3>8. round(u) < round(v)
        BY <3>1, <3>2, <3>4, <3>6, <2>3
      <3>9. turn(u) < turn(v)
        BY <3>7, <3>8, <1>3, <1>7
      <3>10. turn(u) <= size
        BY <3>7, <3>9, <1>3, <1>5
      <3>11. QED
        BY <3>6, <3>10, <1>4
    <2>8. QED
      BY <2>5, <2>6, <2>7
  <1>16. QED
    BY <1>14, <1>15

-----------------------------------------------------------------------------
(* The tags.                                                                *)

\* LinksAccounted rests on the tag sync asking for the children of listed tags
\* only; the bound on the fetches in flight rests on their being finitely many.
TagInv ==
    /\ TagTypeOK
    /\ IsFiniteSet(Holding)
    /\ waiting \subseteq TopLevel /\ Holding \subseteq TopLevel
    /\ answered \subseteq TopLevel
    /\ LinksAccounted

LEMMA MishapType ==
    ASSUME TagTypeOK, NEW kind, Mishap(kind)
    PROVE  mishaps' \in 0..MaxMishaps
  BY TagConstantsAssumption DEF TagTypeOK, Mishap

\* The fetch of t's children is at attempt n (0: it holds no permit), the row of
\* t is written.
SetAttempt(t, n) == attempt' = [attempt EXCEPT ![t] = n]

SetRow(t, row) == tagRow' = [tagRow EXCEPT ![t] = row]

\* Fetches that begin, answer or give up change one entry of attempt.
LEMMA HoldingStep ==
    ASSUME TagInv, NEW t \in Tags, NEW n \in 0..Attempts,
           SetAttempt(t, n),
           n # 0 => t \in Holding \/ (t \in TopLevel /\ Cardinality(Holding) < Permits)
    PROVE  /\ attempt' \in [Tags -> 0..Attempts]
           /\ IsFiniteSet(Holding') /\ Cardinality(Holding') <= Permits
           /\ Holding' \subseteq TopLevel
  <1>ty. /\ attempt \in [Tags -> 0..Attempts]
         /\ IsFiniteSet(Holding) /\ Cardinality(Holding) <= Permits
         /\ Cardinality(Holding) \in Nat
         /\ Holding \subseteq TopLevel
         /\ Permits \in Nat /\ Attempts \in Nat
    BY TagConstantsAssumption, FS_CardinalityType DEF TagInv, TagTypeOK
  <1>1. attempt' \in [Tags -> 0..Attempts]
    BY <1>ty DEF SetAttempt
  <1>2. CASE n = 0
    <2>1. Holding' = Holding \ {t}
      BY <1>2, <1>ty DEF Holding, SetAttempt
    <2>2. /\ IsFiniteSet(Holding \ {t})
          /\ Cardinality(Holding \ {t}) =
                IF t \in Holding THEN Cardinality(Holding) - 1 ELSE Cardinality(Holding)
      BY <1>ty, FS_RemoveElement
    <2>3. Cardinality(Holding \ {t}) <= Permits
      BY <1>ty, <2>2
    <2>4. QED
      BY <1>1, <1>ty, <2>1, <2>2, <2>3
  <1>3. CASE n # 0
    <2>1. Holding' = Holding \cup {t}
      BY <1>3, <1>ty DEF Holding, SetAttempt
    <2>2. /\ IsFiniteSet(Holding \cup {t})
          /\ Cardinality(Holding \cup {t}) =
                IF t \in Holding THEN Cardinality(Holding) ELSE Cardinality(Holding) + 1
      BY <1>ty, FS_AddElement
    <2>3. Cardinality(Holding \cup {t}) <= Permits
      BY <1>3, <1>ty, <2>2
    <2>4. QED
      BY <1>1, <1>3, <1>ty, <2>1, <2>2, <2>3
  <1>4. QED
    BY <1>2, <1>3

\* A step that leaves the rows and what is in flight alone.
LEMMA TagFrame ==
    ASSUME TagInv, TagTypeOK', attempt' = attempt, tagRow' = tagRow,
           wanting' = wanting, waiting' \subseteq TopLevel, answered' \subseteq TopLevel
    PROVE  TagInv'
  BY DEF TagInv, Holding, LinksAccounted, Reported, Row, ParentsOf

\* A fetch of children, in any of its steps.
Fetches(t, n) ==
    /\ SetAttempt(t, n)
    /\ n # 0 => t \in Holding \/ (t \in TopLevel /\ Cardinality(Holding) < Permits)
    /\ UNCHANGED <<tagRow, tagStep, listedTags, queue, wanting>>
    /\ waiting' \subseteq waiting
    /\ answered' \subseteq answered \cup Holding
    /\ mishaps' \in 0..MaxMishaps

LEMMA FetchTag ==
    ASSUME TagInv, NEW t \in Tags, NEW n \in 0..Attempts, Fetches(t, n)
    PROVE  TagInv'
  <1>1. /\ attempt' \in [Tags -> 0..Attempts]
        /\ IsFiniteSet(Holding') /\ Cardinality(Holding') <= Permits
        /\ Holding' \subseteq TopLevel
    BY HoldingStep DEF Fetches
  <1>2. waiting' \subseteq TopLevel /\ answered' \subseteq TopLevel
    BY DEF TagInv, Fetches
  <1>3. waiting' \subseteq Tags /\ answered' \subseteq Tags
    BY <1>2, TagConstantsAssumption
  <1>4. TagTypeOK'
    BY <1>1, <1>3 DEF TagInv, TagTypeOK, Fetches
  <1>5. LinksAccounted'
    BY DEF TagInv, LinksAccounted, Reported, Row, ParentsOf, Fetches
  <1>6. QED
    BY <1>1, <1>2, <1>4, <1>5 DEF TagInv

TagRows == [parents : SUBSET Tags, flags : BOOLEAN, present : BOOLEAN]

LEMMA RowType ==
    ASSUME NEW P \in SUBSET Tags, NEW t \in Tags
    PROVE  Row(P, t \in Flagged) \in TagRows /\ Row({}, FALSE) \in TagRows
  BY DEF Row, TagRows

\* One row is written, with the right links or onto the account of wanting.
Writes(t, row) ==
    /\ SetRow(t, row)
    /\ \/ wanting' = wanting \cup {t}
       \/ wanting' = wanting \ {t} /\ row = Reported(t)
    /\ UNCHANGED <<tagStep, listedTags, waiting, attempt, answered, mishaps>>
    /\ queue' \in SUBSET Tags

LEMMA TagWrite ==
    ASSUME TagInv, NEW t \in Tags, NEW row \in TagRows, Writes(t, row)
    PROVE  TagInv'
  <1>1. tagRow \in [Tags -> TagRows]
    BY DEF TagInv, TagTypeOK, TagRows
  <1>2. tagRow' \in [Tags -> TagRows] /\ tagRow'[t] = row
        /\ \A u \in Tags \ {t} : tagRow'[u] = tagRow[u]
    BY <1>1 DEF SetRow, Writes
  <1>3. wanting' \in SUBSET Tags
    BY DEF TagInv, TagTypeOK, Writes
  <1>4. TagTypeOK'
    BY <1>2, <1>3 DEF TagInv, TagTypeOK, Holding, TagRows, Writes
  <1>5. \A u \in Tags : tagRow[u].present => tagRow[u] = Reported(u) \/ u \in wanting
    BY DEF TagInv, LinksAccounted
  <1>6. \A u \in Tags : tagRow'[u].present => tagRow'[u] = Reported(u) \/ u \in wanting'
    BY <1>2, <1>5 DEF Writes
  <1>7. LinksAccounted'
    BY <1>6 DEF LinksAccounted, Reported, Row, ParentsOf
  <1>8. QED
    BY <1>4, <1>7 DEF TagInv, Holding, Writes

LEMMA TagInvInit == TagInit => TagInv
  <1> SUFFICES ASSUME TagInit PROVE TagInv
    OBVIOUS
  <1>1. Holding = {}
    BY DEF TagInit, Holding
  <1>2. IsFiniteSet({}) /\ Cardinality({}) = 0
    BY FS_EmptySet
  <1>3. /\ Permits \in Nat /\ Attempts \in Nat /\ MaxMishaps \in Nat
    BY TagConstantsAssumption
  <1>4. TagTypeOK
    BY <1>1, <1>2, <1>3 DEF TagInit, TagTypeOK, NoRow
  <1>5. LinksAccounted
    BY DEF TagInit, LinksAccounted, NoRow
  <1>6. QED
    BY <1>1, <1>2, <1>4, <1>5 DEF TagInv, TagInit

LEMMA ListTagsInv ==
    ASSUME TagInv, NEW S, ListTags(S)
    PROVE  TagInv'
  <1>1. mishaps' \in 0..MaxMishaps
    BY MishapType DEF ListTags, TagInv, TagTypeOK
  <1>2. waiting' \subseteq TopLevel /\ answered' = {}
    BY DEF ListTags
  <1>3. TagTypeOK'
    BY <1>1, <1>2, TagConstantsAssumption DEF ListTags, TagInv, TagTypeOK, Holding
  <1>4. QED
    BY <1>2, <1>3, TagFrame DEF ListTags

LEMMA TagSyncInv ==
    ASSUME TagInv, TagSyncProceeds
    PROVE  TagInv'
  <1>ty. /\ TagTypeOK
         /\ attempt \in [Tags -> 0..Attempts]
         /\ Attempts \in Nat \ {0} /\ MaxMishaps \in Nat
         /\ TopLevel \subseteq Tags
    BY TagConstantsAssumption DEF TagInv, TagTypeOK
  <1>mis. mishaps \in 0..MaxMishaps
    BY <1>ty DEF TagTypeOK
  <1>1. ASSUME NEW t \in Tags, AcquirePermit(t)
        PROVE  TagInv'
    <2>1. t \in TopLevel
      BY <1>1 DEF AcquirePermit, TagInv
    <2>2. 1 \in 0..Attempts
      BY <1>ty
    <2>3. QED
      BY <1>1, <1>mis, <2>1, <2>2, FetchTag DEF AcquirePermit, SetAttempt, Fetches
  <1>2. ASSUME NEW t \in Tags, ChildrenAnswered(t)
        PROVE  TagInv'
    <2>1. 0 \in 0..Attempts
      BY <1>ty
    <2>2. QED
      BY <1>2, <1>mis, <2>1, FetchTag DEF ChildrenAnswered, SetAttempt, Fetches
  <1>3. ASSUME NEW t \in Tags, ChildrenLimited(t)
        PROVE  TagInv'
    <2> DEFINE n == IF attempt[t] = Attempts THEN 0 ELSE attempt[t] + 1
    <2>1. n \in 0..Attempts
      BY <1>ty
    <2>2. SetAttempt(t, n) /\ t \in Holding
      BY <1>3 DEF ChildrenLimited, SetAttempt
    <2> HIDE DEF n
    <2>3. /\ UNCHANGED <<tagRow, tagStep, listedTags, queue, wanting>>
          /\ waiting' \subseteq waiting /\ answered' \subseteq answered \cup Holding
          /\ mishaps' \in 0..MaxMishaps
      BY <1>3, <1>mis DEF ChildrenLimited
    <2>4. Fetches(t, n)
      BY <2>2, <2>3 DEF Fetches
    <2>5. QED
      BY <2>1, <2>4, FetchTag
  <1>4. ASSUME NEW t \in Tags, ChildrenFail(t)
        PROVE  TagInv'
    <2>1. 0 \in 0..Attempts /\ mishaps' \in 0..MaxMishaps
      BY <1>4, <1>ty, MishapType DEF ChildrenFail
    <2>2. QED
      BY <1>4, <2>1, FetchTag DEF ChildrenFail, SetAttempt, Fetches
  <1>5. ASSUME NEW t \in Tags, UpsertTag(t)
        PROVE  TagInv'
    <2> DEFINE row == Row(FoundParents(t), t \in Flagged)
    <2>1. row \in TagRows
      BY <1>ty, RowType DEF FoundParents, TagTypeOK
    <2>2. ParentsOf(t) \cap TopLevel \subseteq answered =>
              FoundParents(t) = ParentsOf(t) \cap TopLevel
      BY <1>ty DEF FoundParents, ParentsOf, TagInv
    <2>3. \/ wanting' = wanting \cup {t}
          \/ wanting' = wanting \ {t} /\ row = Reported(t)
      BY <1>5, <2>2 DEF UpsertTag, Reported
    <2>4. queue' \in SUBSET Tags
      BY <1>5, <1>ty DEF UpsertTag, TagTypeOK
    <2>5. SetRow(t, row)
      BY <1>5 DEF UpsertTag, SetRow
    <2>6. UNCHANGED <<tagStep, listedTags, waiting, attempt, answered, mishaps>>
      BY <1>5 DEF UpsertTag
    <2> HIDE DEF row
    <2>7. Writes(t, row)
      BY <2>3, <2>4, <2>5, <2>6 DEF Writes
    <2>8. QED
      BY <2>1, <2>7, TagWrite
  <1>6. ASSUME NEW t \in Tags, SkipTag(t)
        PROVE  TagInv'
    <2>1. mishaps' \in 0..MaxMishaps
      BY <1>6, <1>ty, MishapType DEF SkipTag
    <2>2. TagTypeOK'
      BY <1>6, <1>ty, <2>1 DEF SkipTag, TagTypeOK, Holding
    <2>3. QED
      BY <1>6, <2>2, TagFrame DEF SkipTag, TagInv
  <1>7. CASE Gathered
    <2>1. queue' \subseteq Tags
      BY <1>7, <1>ty, TagConstantsAssumption DEF Gathered, TagTypeOK
    <2>2. TagTypeOK'
      BY <1>7, <1>ty, <2>1 DEF Gathered, TagTypeOK, Holding
    <2>3. QED
      BY <1>7, <2>2, TagFrame DEF Gathered, TagInv
  <1>8. CASE AllUpserted \/ SyncSports
    <2>1. TagTypeOK'
      BY <1>8, <1>ty DEF AllUpserted, SyncSports, TagTypeOK, Holding
    <2>2. QED
      BY <1>8, <2>1, TagFrame DEF AllUpserted, SyncSports, TagInv
  <1>9. QED
    BY <1>1, <1>2, <1>3, <1>4, <1>5, <1>6, <1>7, <1>8 DEF TagSyncProceeds

\* What an event's tag does to the taxonomy, and a fault elsewhere.
LEMMA WriteEventTagInv ==
    ASSUME TagInv, NEW t \in Tags, WriteEventTag(t)
    PROVE  TagInv'
  <1> DEFINE row == Row({}, FALSE)
  <1>1. row \in TagRows /\ SetRow(t, row)
    BY RowType DEF WriteEventTag, SetRow
  <1>2. queue' \in SUBSET Tags
    BY DEF WriteEventTag, TagInv, TagTypeOK
  <1>3. /\ wanting' = wanting \cup {t}
        /\ UNCHANGED <<tagStep, listedTags, waiting, attempt, answered, mishaps>>
    BY DEF WriteEventTag
  <1> HIDE DEF row
  <1>4. Writes(t, row)
    BY <1>1, <1>2, <1>3 DEF Writes
  <1>5. QED
    BY <1>1, <1>4, TagWrite

LEMMA TagQuiet ==
    ASSUME TagInv, UNCHANGED tagState, mishaps' \in 0..MaxMishaps
    PROVE  TagInv'
  BY DEF TagInv, tagState, TagTypeOK, Holding, LinksAccounted, Reported, Row, ParentsOf

-----------------------------------------------------------------------------
(* The list of series.                                                      *)

LEMMA RemoveAtProperties ==
    ASSUME NEW S, NEW q \in Seq(S), NEW i \in 1..Len(q)
    PROVE  /\ RemoveAt(q, i) \in Seq(S)
           /\ Len(RemoveAt(q, i)) = Len(q) - 1
           /\ \A j \in 1..(Len(q) - 1) :
                RemoveAt(q, i)[j] = IF j < i THEN q[j] ELSE q[j + 1]
  <1> DEFINE front == SubSeq(q, 1, i - 1)
             back == SubSeq(q, i + 1, Len(q))
  <1>len. Len(q) \in Nat /\ i \in Nat
    BY LenProperties
  <1>el. \A j \in 1..Len(q) : q[j] \in S
    BY ElementOfSeq
  <1>1. /\ front \in Seq(S)
        /\ Len(front) = i - 1
        /\ \A k \in 1..(i - 1) : front[k] = q[k]
    <2>1. \A j \in 1..(i - 1) : q[j] \in S
      BY <1>len, <1>el
    <2>2. /\ front \in Seq(S)
          /\ Len(front) = IF 1 <= i - 1 THEN (i - 1) - 1 + 1 ELSE 0
          /\ \A k \in 1..((i - 1) - 1 + 1) : front[k] = q[1 + k - 1]
      BY <1>len, <2>1, SubSeqProperties
    <2>3. \A k \in 1..(i - 1) : 1 + k - 1 = k /\ k \in 1..((i - 1) - 1 + 1)
      BY <1>len
    <2>4. Len(front) = i - 1
      BY <1>len, <2>2
    <2>5. \A k \in 1..(i - 1) : front[k] = q[k]
      BY <2>2, <2>3
    <2>6. QED
      BY <2>2, <2>4, <2>5
  <1>2. /\ back \in Seq(S)
        /\ Len(back) = Len(q) - i
        /\ \A k \in 1..(Len(q) - i) : back[k] = q[i + k]
    <2>1. \A j \in (i + 1)..Len(q) : q[j] \in S
      BY <1>len, <1>el
    <2>2. /\ back \in Seq(S)
          /\ Len(back) = IF i + 1 <= Len(q) THEN Len(q) - (i + 1) + 1 ELSE 0
          /\ \A k \in 1..(Len(q) - (i + 1) + 1) : back[k] = q[(i + 1) + k - 1]
      BY <1>len, <2>1, SubSeqProperties
    <2>3. \A k \in 1..(Len(q) - i) :
            (i + 1) + k - 1 = i + k /\ k \in 1..(Len(q) - (i + 1) + 1)
      BY <1>len
    <2>4. Len(back) = Len(q) - i
      BY <1>len, <2>2
    <2>5. \A k \in 1..(Len(q) - i) : back[k] = q[i + k]
      BY <2>2, <2>3
    <2>6. QED
      BY <2>2, <2>4, <2>5
  <1> HIDE DEF front, back
  <1>3. RemoveAt(q, i) = front \o back
    BY DEF RemoveAt, front, back
  <1>4. /\ front \o back \in Seq(S)
        /\ Len(front \o back) = Len(front) + Len(back)
        /\ \A j \in 1..(Len(front) + Len(back)) :
            (front \o back)[j] = IF j <= Len(front) THEN front[j]
                                 ELSE back[j - Len(front)]
    BY <1>1, <1>2, ConcatProperties
  <1>5. Len(front) + Len(back) = Len(q) - 1
    BY <1>1, <1>2, <1>len
  <1>6. ASSUME NEW j \in 1..(Len(q) - 1)
        PROVE  (front \o back)[j] = IF j < i THEN q[j] ELSE q[j + 1]
    <2>1. CASE j < i
      <3>1. j <= Len(front) /\ j \in 1..(i - 1)
        BY <1>1, <1>len, <2>1
      <3>2. (front \o back)[j] = front[j]
        BY <1>4, <1>5, <3>1
      <3>3. QED
        BY <1>1, <2>1, <3>1, <3>2
    <2>2. CASE ~(j < i)
      <3>1. /\ ~(j <= Len(front))
            /\ j - Len(front) \in 1..(Len(q) - i)
            /\ i + (j - Len(front)) = j + 1
        BY <1>1, <1>len, <2>2
      <3>2. (front \o back)[j] = back[j - Len(front)]
        BY <1>4, <1>5, <3>1
      <3>3. back[j - Len(front)] = q[i + (j - Len(front))]
        BY <1>2, <3>1
      <3>4. QED
        BY <2>2, <3>1, <3>2, <3>3
    <2>3. QED
      BY <2>1, <2>2
  <1>7. QED
    BY <1>3, <1>4, <1>5, <1>6

LEMMA SetToSeqType ==
    ASSUME NEW S, IsFiniteSet(S)
    PROVE  SetToSeq(S) \in Seq(S)
  <1>1. Cardinality(S) \in Nat /\ ExistsBijection(1..Cardinality(S), S)
    BY FS_CardinalityType
  <1>2. PICK f \in [1..Cardinality(S) -> S] : IsInjective(f)
    BY <1>1 DEF ExistsBijection, Bijection, Injection, IsInjective
  <1>3. SetToSeq(S) \in [1..Cardinality(S) -> S]
    BY <1>2 DEF SetToSeq
  <1>4. QED
    BY <1>1, <1>3

\* The places of a sequence of series, the elements of its beginning.
LEMMA BeforeElements ==
    ASSUME NEW q \in Seq(Series), NEW n \in Nat
    PROVE  /\ Before(q, n) = {q[j] : j \in 1..Lesser(n, Len(q))}
           /\ Lesser(n, Len(q)) \in Nat
           /\ 1..Lesser(n, Len(q)) \subseteq 1..Len(q)
           /\ ToSet(q) = {q[j] : j \in 1..Len(q)}
           /\ Len(q) \in Nat
  <1> DEFINE k == Lesser(n, Len(q))
             front == SubSeq(q, 1, k)
  <1>len. Len(q) \in Nat /\ DOMAIN q = 1..Len(q)
    BY LenProperties
  <1>el. \A j \in 1..Len(q) : q[j] \in Series
    BY ElementOfSeq
  <1>1. k \in Nat /\ k <= Len(q)
    BY <1>len DEF Lesser
  <1> HIDE DEF k
  <1>2. \A j \in 1..k : q[j] \in Series
    BY <1>len, <1>el, <1>1
  <1>3. /\ front \in Seq(Series)
        /\ Len(front) = IF 1 <= k THEN k - 1 + 1 ELSE 0
        /\ \A j \in 1..(k - 1 + 1) : front[j] = q[1 + j - 1]
    BY <1>1, <1>2, SubSeqProperties
  <1> HIDE DEF front
  <1>4. Len(front) = k /\ \A j \in 1..k : j \in 1..(k - 1 + 1) /\ 1 + j - 1 = j
    BY <1>1, <1>3
  <1>5. DOMAIN front = 1..k
    BY <1>3, <1>4, LenProperties
  <1>6. \A j \in 1..k : front[j] = q[j]
    BY <1>3, <1>4
  <1>7. ToSet(front) = {q[j] : j \in 1..k}
    BY <1>5, <1>6 DEF ToSet
  <1>8. ToSet(q) = {q[j] : j \in 1..Len(q)}
    BY <1>len DEF ToSet
  <1>9. Before(q, n) = ToSet(front)
    BY DEF Before, front, k
  <1>10. 1..k \subseteq 1..Len(q)
    BY <1>1, <1>len
  <1>11. QED
    BY <1>1, <1>7, <1>8, <1>9, <1>10, <1>len DEF k

LEMMA InSeq ==
    ASSUME NEW q \in Seq(Series), NEW n \in Nat, NEW s
    PROVE  /\ s \in Before(q, n) <=> \E j \in 1..Len(q) : j <= n /\ q[j] = s
           /\ s \in ToSet(q) <=> \E j \in 1..Len(q) : q[j] = s
  <1>1. Len(q) \in Nat
    BY LenProperties
  <1>2. 1..Lesser(n, Len(q)) = {j \in 1..Len(q) : j <= n}
    BY <1>1 DEF Lesser
  <1>3. /\ Before(q, n) = {q[j] : j \in 1..Lesser(n, Len(q))}
        /\ ToSet(q) = {q[j] : j \in 1..Len(q)}
    BY BeforeElements
  <1>4. s \in Before(q, n) <=> \E j \in {i \in 1..Len(q) : i <= n} : q[j] = s
    BY <1>2, <1>3
  <1>5. s \in Before(q, n) <=> \E j \in 1..Len(q) : j <= n /\ q[j] = s
    BY <1>4
  <1>6. s \in ToSet(q) <=> \E j \in 1..Len(q) : q[j] = s
    BY <1>3
  <1>7. QED
    BY <1>5, <1>6

\* A series leaves the list: those behind it move up by one place.
LEMMA ListShrinks ==
    ASSUME NEW q \in Seq(Series), NEW i \in 1..Len(q), NEW n \in Nat,
           NEW p, p = RemoveAt(q, i), IsInjective(q)
    PROVE  /\ p \in Seq(Series)
           /\ IsInjective(p)
           /\ ToSet(q) \ {q[i]} \subseteq ToSet(p)
           /\ Before(q, n) \ {q[i]} \subseteq Before(p, n)
  <1>1. /\ p \in Seq(Series)
        /\ Len(p) = Len(q) - 1
        /\ \A j \in 1..(Len(q) - 1) : p[j] = IF j < i THEN q[j] ELSE q[j + 1]
    BY RemoveAtProperties
  <1>len. Len(q) \in Nat /\ i \in Nat /\ DOMAIN q = 1..Len(q) /\ DOMAIN p = 1..Len(p)
    BY <1>1, LenProperties
  <1>2. ASSUME NEW j \in 1..Len(q), q[j] # q[i]
        PROVE  \E k \in 1..Len(p) : k <= j /\ p[k] = q[j]
    <2>1. CASE j < i
      <3>1. j \in 1..(Len(q) - 1)
        BY <1>len, <2>1
      <3>2. p[j] = q[j]
        BY <1>1, <2>1, <3>1
      <3>3. QED
        BY <1>1, <1>len, <3>1, <3>2
    <2>2. CASE i < j
      <3>1. /\ j - 1 \in 1..(Len(q) - 1) /\ ~(j - 1 < i)
            /\ (j - 1) + 1 = j /\ j - 1 <= j
        BY <1>len, <2>2
      <3>2. p[j - 1] = q[j]
        BY <1>1, <3>1
      <3>3. QED
        BY <1>1, <3>1, <3>2
    <2>3. j # i
      BY <1>2
    <2>4. QED
      BY <1>len, <2>1, <2>2, <2>3
  <1>3. ASSUME NEW a \in DOMAIN p, NEW b \in DOMAIN p, p[a] = p[b]
        PROVE  a = b
    <2> DEFINE up(k) == IF k < i THEN k ELSE k + 1
    <2>1. a \in 1..(Len(q) - 1) /\ b \in 1..(Len(q) - 1)
      BY <1>1, <1>len
    <2>2. up(a) \in 1..Len(q) /\ up(b) \in 1..Len(q)
      BY <1>len, <2>1
    <2>3. q[up(a)] = q[up(b)]
      BY <1>1, <1>3, <2>1
    <2>4. up(a) = up(b)
      BY <1>len, <2>2, <2>3 DEF IsInjective
    <2>5. QED
      BY <1>len, <2>1, <2>4
  <1>4. ToSet(q) \ {q[i]} \subseteq ToSet(p)
    <2> SUFFICES ASSUME NEW s, s \in ToSet(q), s # q[i] PROVE s \in ToSet(p)
      OBVIOUS
    <2>1. PICK j \in 1..Len(q) : q[j] = s
      BY InSeq
    <2>2. PICK k \in 1..Len(p) : p[k] = s
      BY <1>2, <2>1
    <2>3. QED
      BY <1>1, <2>2, InSeq
  <1>5. Before(q, n) \ {q[i]} \subseteq Before(p, n)
    <2> SUFFICES ASSUME NEW s, s \in Before(q, n), s # q[i] PROVE s \in Before(p, n)
      OBVIOUS
    <2>1. PICK j \in 1..Len(q) : j <= n /\ q[j] = s
      BY InSeq
    <2>2. PICK k \in 1..Len(p) : k <= j /\ p[k] = s
      BY <1>2, <2>1
    <2>3. k <= n
      BY <1>1, <1>len, <2>1, <2>2
    <2>4. QED
      BY <1>1, <2>2, <2>3, InSeq
  <1>6. IsInjective(p)
    BY <1>3 DEF IsInjective
  <1>7. QED
    BY <1>1, <1>4, <1>5, <1>6

\* A series is added at the end.
LEMMA ListGrows ==
    ASSUME NEW q \in Seq(Series), NEW s \in Series, s \notin ToSet(q), NEW n \in Nat,
           NEW p, p = Append(q, s), IsInjective(q)
    PROVE  /\ p \in Seq(Series)
           /\ IsInjective(p)
           /\ ToSet(q) \subseteq ToSet(p)
           /\ Before(q, n) \subseteq Before(p, n)
           /\ Before(p, n) \subseteq Before(q, n) \cup {s}
  <1>1. /\ p \in Seq(Series)
        /\ Len(p) = Len(q) + 1
        /\ \A j \in 1..Len(q) : p[j] = q[j]
        /\ p[Len(q) + 1] = s
    BY AppendProperties
  <1>len. Len(q) \in Nat /\ DOMAIN q = 1..Len(q) /\ DOMAIN p = 1..Len(p)
    BY <1>1, LenProperties
  <1>2. \A j \in 1..Len(q) : q[j] # s
    BY BeforeElements
  <1>3. ASSUME NEW a \in DOMAIN p, NEW b \in DOMAIN p, p[a] = p[b]
        PROVE  a = b
    <2>1. /\ a \in 1..Len(q) \/ a = Len(q) + 1
          /\ b \in 1..Len(q) \/ b = Len(q) + 1
      BY <1>1, <1>len
    <2>2. CASE a \in 1..Len(q) /\ b \in 1..Len(q)
      BY <1>1, <1>3, <1>len, <2>2 DEF IsInjective
    <2>3. QED
      BY <1>1, <1>2, <1>3, <2>1, <2>2
  <1>4. \A j \in 1..Len(q) : j \in 1..Len(p)
    BY <1>1, <1>len
  <1>5. ToSet(q) \subseteq ToSet(p)
    <2> SUFFICES ASSUME NEW x, x \in ToSet(q) PROVE x \in ToSet(p)
      OBVIOUS
    <2>1. PICK j \in 1..Len(q) : q[j] = x
      BY InSeq
    <2>2. QED
      BY <1>1, <1>4, <2>1, InSeq
  <1>6. Before(q, n) \subseteq Before(p, n)
    <2> SUFFICES ASSUME NEW x, x \in Before(q, n) PROVE x \in Before(p, n)
      OBVIOUS
    <2>1. PICK j \in 1..Len(q) : j <= n /\ q[j] = x
      BY InSeq
    <2>2. QED
      BY <1>1, <1>4, <2>1, InSeq
  <1>7. Before(p, n) \subseteq Before(q, n) \cup {s}
    <2> SUFFICES ASSUME NEW x, x \in Before(p, n), x # s PROVE x \in Before(q, n)
      OBVIOUS
    <2>1. PICK j \in 1..Len(p) : j <= n /\ p[j] = x
      <3>1. p \in Seq(Series) /\ x \in Before(p, n)
        BY <1>1
      <3>2. QED
        BY ONLY <3>1, InSeq, n \in Nat
    <2>2. j \in 1..Len(q)
      BY <1>1, <1>len, <2>1
    <2>3. QED
      BY <1>1, <2>1, <2>2, InSeq
  <1>8. IsInjective(p)
    BY <1>3 DEF IsInjective
  <1>9. QED
    BY <1>1, <1>5, <1>6, <1>7, <1>8

\* What FetchPage takes of the list.
LEMMA PageTaken ==
    ASSUME NEW q \in Seq(Series), NEW from \in Nat, NEW data,
           data = SubSeq(q, from + 1, Lesser(from + PageSize, Len(q)))
    PROVE  /\ data \in Seq(Series)
           /\ from + PageSize \in Nat
           /\ data = <<>> => ToSet(q) \subseteq Before(q, from)
           /\ Before(q, from + PageSize) \subseteq Before(q, from) \cup ToSet(data)
           /\ Len(data) < PageSize => ToSet(q) \subseteq Before(q, from + PageSize)
  <1> DEFINE k == Lesser(from + PageSize, Len(q))
  <1>len. Len(q) \in Nat /\ PageSize \in Nat \ {0} /\ from + PageSize \in Nat
    BY LenProperties, CatalogueAssumption
  <1>el. \A j \in 1..Len(q) : q[j] \in Series
    BY ElementOfSeq
  <1>1. /\ k \in Nat /\ k <= Len(q) /\ k <= from + PageSize
        /\ k = Len(q) \/ k = from + PageSize
    BY <1>len DEF Lesser
  <1>data. data = SubSeq(q, from + 1, k)
    OBVIOUS
  <1> HIDE DEF k
  <1>2. \A j \in (from + 1)..k : q[j] \in Series
    BY <1>len, <1>el, <1>1
  <1>3. /\ data \in Seq(Series)
        /\ Len(data) = IF from + 1 <= k THEN k - (from + 1) + 1 ELSE 0
        /\ \A j \in 1..(k - (from + 1) + 1) : data[j] = q[(from + 1) + j - 1]
    <2>1. from + 1 \in Int /\ k \in Int
      BY <1>1
    <2>2. /\ SubSeq(q, from + 1, k) \in Seq(Series)
          /\ Len(SubSeq(q, from + 1, k)) =
                IF from + 1 <= k THEN k - (from + 1) + 1 ELSE 0
          /\ \A j \in 1..(k - (from + 1) + 1) :
                SubSeq(q, from + 1, k)[j] = q[(from + 1) + j - 1]
      BY <1>2, <2>1, SubSeqProperties
    <2>3. QED
      BY <1>data, <2>2
  <1>4. data = <<>> => Len(data) = 0
    BY EmptySeq
  <1>5. ASSUME NEW j \in 1..Len(q), from < j, j <= from + PageSize
        PROVE  /\ j - from \in 1..Len(data)
               /\ data[j - from] = q[j]
    <2>1. j <= k /\ from + 1 <= k
      BY <1>1, <1>5, <1>len
    <2>2. /\ j - from \in 1..(k - (from + 1) + 1)
          /\ (from + 1) + (j - from) - 1 = j
      BY <1>1, <1>5, <1>len, <2>1
    <2>3. Len(data) = k - (from + 1) + 1
      BY <1>3, <2>1
    <2>4. QED
      BY <1>3, <2>2, <2>3
  <1>6. Before(q, from + PageSize) \subseteq Before(q, from) \cup ToSet(data)
    <2> SUFFICES ASSUME NEW s, s \in Before(q, from + PageSize), s \notin Before(q, from)
                 PROVE  s \in ToSet(data)
      OBVIOUS
    <2>1. PICK j \in 1..Len(q) : j <= from + PageSize /\ q[j] = s
      BY <1>len, InSeq
    <2>2. ~(j <= from)
      BY <2>1, InSeq
    <2>3. from < j
      BY <1>len, <2>2
    <2>4. j - from \in 1..Len(data) /\ data[j - from] = s
      BY <1>5, <2>1, <2>3
    <2>5. QED
      BY <1>3, <2>4, InSeq
  <1>7. ASSUME data = <<>>
        PROVE  ToSet(q) \subseteq Before(q, from)
    <2> SUFFICES ASSUME NEW s, s \in ToSet(q) PROVE s \in Before(q, from)
      OBVIOUS
    <2>1. PICK j \in 1..Len(q) : q[j] = s
      BY InSeq
    <2>2. ~(from + 1 <= k)
      BY <1>1, <1>3, <1>4, <1>7
    <2>3. j <= from
      BY <1>1, <1>len, <2>2
    <2>4. QED
      BY <2>1, <2>3, InSeq
  <1>8. ASSUME Len(data) < PageSize
        PROVE  ToSet(q) \subseteq Before(q, from + PageSize)
    <2> SUFFICES ASSUME NEW s, s \in ToSet(q) PROVE s \in Before(q, from + PageSize)
      OBVIOUS
    <2>1. PICK j \in 1..Len(q) : q[j] = s
      BY InSeq
    <2>2. k # from + PageSize
      BY <1>1, <1>3, <1>8, <1>len
    <2>3. j <= from + PageSize
      BY <1>1, <1>len, <2>2
    <2>4. QED
      BY <1>len, <2>1, <2>3, InSeq
  <1>9. QED
    BY <1>3, <1>6, <1>7, <1>8, <1>len

-----------------------------------------------------------------------------
(* The inductive invariant of the catalogue.                                *)

RunRecords == [step : {"idle", "page", "series", "events", "fallback"},
               offset : Nat, batch : Seq(Series), short : BOOLEAN,
               events : SUBSET Events, tags : SUBSET Tags,
               markets : SUBSET Markets, categories : BOOLEAN,
               found : SUBSET Markets, tokens : SUBSET Markets]

Histories == [stayed : SUBSET Series, seen : SUBSET Series,
              slid : SUBSET Series, clean : BOOLEAN]

\* A run has a series at hand exactly where it awaits something about it, and the
\* events it goes through are that series' own.
Shape(rec) ==
    /\ rec \in RunRecords
    /\ rec.step \in {"idle", "page", "fallback"} => rec.batch = <<>>
    /\ rec.step = "events" => rec.batch # <<>>
                              /\ rec.events \subseteq EventsIn(Head(rec.batch))
    /\ rec.step # "events" => rec.events = {} /\ rec.tags = {} /\ rec.markets = {}

ShapeInv ==
    /\ run \in [Runs -> RunRecords]
    /\ \A r \in Runs : Shape(run[r])
    /\ \A r \in FullRuns : run[r].step # "fallback"

\* Below each row that a run may still write lies the row it refers to.
SeriesOnRow == {s \in Series : seriesRow[s] # "absent"}

Grounded(rec) ==
    /\ \A e \in rec.events : SeriesOf[e] \in SeriesOnRow
    /\ \A m \in rec.markets : EventOf[m] \in eventRow
    /\ rec.found \subseteq marketRow /\ rec.tokens \subseteq marketRow

GroundInv ==
    /\ seriesRow \in [Series -> {"absent", "bare", "categorised"}]
    /\ eventRow \subseteq Events /\ marketRow \subseteq Markets
    /\ devTokens \in Seq(marketRow)
    /\ \A m \in marketRow : EventOf[m] \in eventRow
    /\ \A e \in eventRow : SeriesOf[e] \in SeriesOnRow
    /\ \A r \in Runs : Grounded(run[r])

\* A run that is going to give the series its categories.
WillCategorise(rec, s) ==
    /\ rec.step = "events" /\ Head(rec.batch) = s
    /\ rec.categories \/ \E e \in rec.events : TagsOf[e] # {}

BareInv ==
    /\ cut \subseteq Series
    /\ \A s \in Series :
        seriesRow[s] = "bare" => s \in cut \/ \E r \in Runs : WillCategorise(run[r], s)

\* Why a full sync skips only what slid behind its offset: of the series that
\* stayed, those before the offset were seen or slid there, and after a short page
\* there are no others.
Covered(rec, b) ==
    rec.step # "idle" =>
        /\ b.stayed \subseteq ToSet(listed)
        /\ b.stayed \cap Before(listed, rec.offset) \subseteq b.seen \cup b.slid
        /\ rec.step \in {"series", "events"} /\ rec.short
              => b.stayed \subseteq Before(listed, rec.offset)

ListInv ==
    /\ listed \in Seq(Series) /\ IsInjective(listed)
    /\ behind \in [FullRuns -> Histories]
    /\ \A r \in FullRuns : Covered(run[r], behind[r])

CatalogueInv ==
    /\ TagInv
    /\ devMode \in BOOLEAN
    /\ ShapeInv
    /\ GroundInv
    /\ BareInv
    /\ ListInv

\* What becomes of the statement for the outcomes of a market: it was attempted, or
\* is the next statement of a run; a run collects the tokens of no other.
Attempted == {m \in Markets : outcomeRow[m] # "none"}

OutcomeInv ==
    /\ outcomeRow \in [Markets -> {"none", "lost", "rows"}]
    /\ pending \in [Runs -> SUBSET Markets]
    /\ Attempted \subseteq marketRow
    /\ \A m \in marketRow : m \in Attempted \/ \E r \in Runs : m \in pending[r]
    /\ \A r \in Runs : pending[r] \subseteq marketRow
    /\ devTokens \in Seq(Attempted)
    /\ \A r \in Runs : /\ run[r].tokens \subseteq Attempted
                       /\ run[r].found \subseteq Attempted \cup pending[r]

-----------------------------------------------------------------------------
(* Steps of one run.                                                        *)

Sets(r, rec) == run' = [run EXCEPT ![r] = rec]

LEMMA Stays ==
    ASSUME CatalogueInv, NEW r \in Runs, run' = run
    PROVE  Sets(r, run[r])
  <1>1. run \in [Runs -> RunRecords]
    BY DEF CatalogueInv, ShapeInv
  <1>2. QED
    BY <1>1 DEF Sets

LEMMA ShapeKept ==
    ASSUME ShapeInv, NEW r \in Runs, NEW rec, Sets(r, rec), Shape(rec),
           r \in FullRuns => rec.step # "fallback"
    PROVE  /\ ShapeInv'
           /\ run'[r] = rec
           /\ \A q \in Runs : q # r => run'[q] = run[q]
  <1>1. run \in [Runs -> RunRecords] /\ rec \in RunRecords
    BY DEF ShapeInv, Shape
  <1>2. /\ run' \in [Runs -> RunRecords]
        /\ run'[r] = rec
        /\ \A q \in Runs : q # r => run'[q] = run[q]
    BY <1>1 DEF Sets
  <1>3. \A q \in Runs : Shape(run'[q])
    BY <1>2 DEF ShapeInv
  <1>4. \A q \in FullRuns : run'[q].step # "fallback"
    BY <1>2 DEF ShapeInv, Runs
  <1>5. QED
    BY <1>2, <1>3, <1>4 DEF ShapeInv

\* The tables only gain rows.
Gain ==
    /\ SeriesOnRow \subseteq SeriesOnRow'
    /\ eventRow \subseteq eventRow' /\ marketRow \subseteq marketRow'

LEMMA GroundKept ==
    ASSUME ShapeInv, GroundInv, NEW r \in Runs, NEW rec, Sets(r, rec), Gain,
           seriesRow' \in [Series -> {"absent", "bare", "categorised"}],
           eventRow' \subseteq Events, marketRow' \subseteq Markets,
           devTokens' \in Seq(marketRow'),
           \A m \in marketRow' : EventOf[m] \in eventRow',
           \A e \in eventRow' : SeriesOf[e] \in SeriesOnRow',
           \A e \in rec.events : SeriesOf[e] \in SeriesOnRow',
           \A m \in rec.markets : EventOf[m] \in eventRow',
           rec.found \subseteq marketRow', rec.tokens \subseteq marketRow'
    PROVE  GroundInv'
  <1>1. run \in [Runs -> RunRecords]
    BY DEF ShapeInv
  <1>2. run'[r] = rec /\ \A q \in Runs : q # r => run'[q] = run[q]
    BY <1>1 DEF Sets
  <1>3. ASSUME NEW q \in Runs
        PROVE  Grounded(run[q])'
    <2>1. CASE q = r
      BY <1>2, <2>1 DEF Grounded
    <2>2. CASE q # r
      <3>1. run'[q] = run[q] /\ Grounded(run[q])
        BY <1>2, <2>2 DEF GroundInv
      <3>2. QED
        BY <3>1 DEF Grounded, Gain
    <2>3. QED
      BY <2>1, <2>2
  <1>4. QED
    BY <1>3 DEF GroundInv

LEMMA BareKept ==
    ASSUME ShapeInv, BareInv, NEW r \in Runs, NEW rec, Sets(r, rec),
           seriesRow' = seriesRow, cut \subseteq cut', cut' \subseteq Series,
           \A s \in Series : WillCategorise(run[r], s)
                                 => s \in cut' \/ WillCategorise(rec, s)
    PROVE  BareInv'
  <1>1. run \in [Runs -> RunRecords]
    BY DEF ShapeInv
  <1>2. run'[r] = rec /\ \A q \in Runs : q # r => run'[q] = run[q]
    BY <1>1 DEF Sets
  <1>3. ASSUME NEW s \in Series, seriesRow[s] = "bare"
        PROVE  s \in cut' \/ \E q \in Runs : WillCategorise(run'[q], s)
    <2>1. s \in cut \/ \E q \in Runs : WillCategorise(run[q], s)
      BY <1>3 DEF BareInv
    <2>2. ASSUME NEW q \in Runs, WillCategorise(run[q], s)
          PROVE  s \in cut' \/ \E o \in Runs : WillCategorise(run'[o], s)
      <3>1. CASE q = r
        BY <1>2, <2>2, <3>1
      <3>2. CASE q # r
        BY <1>2, <2>2, <3>2
      <3>3. QED
        BY <3>1, <3>2
    <2>3. QED
      BY <2>1, <2>2
  <1>4. QED
    BY <1>3 DEF BareInv

LEMMA ListKept ==
    ASSUME ShapeInv, ListInv, NEW r \in Runs, NEW rec, Sets(r, rec), listed' = listed,
           behind' \in [FullRuns -> Histories],
           \A q \in FullRuns : q # r => behind'[q] = behind[q],
           r \in FullRuns => Covered(rec, behind'[r])
    PROVE  ListInv'
  <1>1. run \in [Runs -> RunRecords]
    BY DEF ShapeInv
  <1>2. run'[r] = rec /\ \A q \in Runs : q # r => run'[q] = run[q]
    BY <1>1 DEF Sets
  <1>3. ASSUME NEW q \in FullRuns
        PROVE  Covered(run[q], behind[q])'
    <2>1. CASE q = r
      BY <1>2, <2>1 DEF Covered
    <2>2. CASE q # r
      <3>1. /\ run'[q] = run[q] /\ behind'[q] = behind[q]
            /\ Covered(run[q], behind[q])
        BY <1>2, <2>2 DEF ListInv, Runs
      <3>2. QED
        BY <3>1 DEF Covered
    <2>3. QED
      BY <2>1, <2>2
  <1>4. QED
    BY <1>3 DEF ListInv

\* A step that changes of the catalogue nothing but run and cut.
OnlyRun(r, rec) ==
    /\ Sets(r, rec)
    /\ UNCHANGED <<devMode, listed, tables, devTokens>>
    /\ Shape(rec)
    /\ r \in FullRuns => rec.step # "fallback"
    /\ Grounded(rec)
    /\ cut \subseteq cut' /\ cut' \subseteq Series
    /\ \A s \in Series : WillCategorise(run[r], s)
                             => s \in cut' \/ WillCategorise(rec, s)
    /\ behind' \in [FullRuns -> Histories]
    /\ \A q \in FullRuns : q # r => behind'[q] = behind[q]
    /\ r \in FullRuns => Covered(rec, behind'[r])

LEMMA OnlyRunInv ==
    ASSUME CatalogueInv, NEW r \in Runs, NEW rec, OnlyRun(r, rec), TagInv'
    PROVE  CatalogueInv'
  <1>1. ShapeInv /\ GroundInv /\ BareInv /\ ListInv /\ devMode \in BOOLEAN
    BY DEF CatalogueInv
  <1>2. ShapeInv'
    BY <1>1, ShapeKept DEF OnlyRun
  <1>3. GroundInv'
    <2>1. /\ UNCHANGED <<seriesRow, eventRow, marketRow, devTokens>>
          /\ Sets(r, rec) /\ Grounded(rec)
      BY DEF OnlyRun, tables
    <2>2. Gain /\ SeriesOnRow' = SeriesOnRow
      BY <2>1 DEF Gain, SeriesOnRow
    <2>3. run \in [Runs -> RunRecords]
      BY <1>1 DEF ShapeInv
    <2>4. run'[r] = rec /\ \A q \in Runs : q # r => run'[q] = run[q]
      BY <2>1, <2>3 DEF Sets
    <2>5. \A q \in Runs : Grounded(run'[q])
      BY <1>1, <2>1, <2>4 DEF GroundInv
    <2>6. \A q \in Runs : Grounded(run[q])'
      BY <2>1, <2>2, <2>5 DEF Grounded
    <2>7. QED
      BY <1>1, <2>1, <2>2, <2>6 DEF GroundInv
  <1>4. BareInv'
    BY <1>1, BareKept DEF OnlyRun, tables
  <1>5. ListInv'
    BY <1>1, ListKept DEF OnlyRun
  <1>6. QED
    BY <1>1, <1>2, <1>3, <1>4, <1>5 DEF CatalogueInv, OnlyRun

LEMMA Aside ==
    ASSUME TagInv, UNCHANGED tagState,
           UNCHANGED mishaps \/ \E kind \in Faults : Mishap(kind)
    PROVE  TagInv'
  <1>1. mishaps \in 0..MaxMishaps /\ TagTypeOK
    BY DEF TagInv, TagTypeOK
  <1>2. mishaps' \in 0..MaxMishaps
    BY <1>1, MishapType
  <1>3. QED
    BY <1>2, TagQuiet

LEMMA RunTyped ==
    ASSUME CatalogueInv, NEW r \in Runs
    PROVE  /\ run \in [Runs -> RunRecords]
           /\ run[r] \in RunRecords
           /\ Shape(run[r]) /\ Grounded(run[r])
           /\ r \in FullRuns => run[r].step # "fallback"
           /\ behind \in [FullRuns -> Histories]
           /\ r \in FullRuns => behind[r] \in Histories /\ Covered(run[r], behind[r])
           /\ cut \subseteq Series
  BY DEF CatalogueInv, ShapeInv, GroundInv, BareInv, ListInv

LEMMA IdleShape ==
    /\ Shape(Idle) /\ Grounded(Idle) /\ Idle.step = "idle"
    /\ \A b : Covered(Idle, b)
  <1>1. Idle.step = "idle" /\ Idle.batch = <<>>
    BY DEF Idle
  <1>2. <<>> \in Seq(Series) /\ 0 \in Nat
    BY EmptySeq
  <1>3. Idle \in RunRecords
    BY <1>2 DEF Idle, RunRecords
  <1>4. Shape(Idle)
    BY <1>1, <1>3 DEF Shape, Idle
  <1>5. Grounded(Idle)
    BY DEF Grounded, Idle
  <1>6. \A b : Covered(Idle, b)
    BY <1>1 DEF Covered
  <1>7. QED
    BY <1>1, <1>4, <1>5, <1>6

\* A run ends.
LEMMA EndsInv ==
    ASSUME CatalogueInv, NEW r \in Runs, Sets(r, Idle), TagInv',
           UNCHANGED <<devMode, listed, tables, devTokens>>,
           cut \subseteq cut', cut' \subseteq Series,
           \A s \in Series : WillCategorise(run[r], s) => s \in cut',
           behind' \in [FullRuns -> Histories],
           \A q \in FullRuns : q # r => behind'[q] = behind[q]
    PROVE  CatalogueInv'
  <1>1. OnlyRun(r, Idle)
    BY IdleShape DEF OnlyRun
  <1>2. QED
    BY <1>1, OnlyRunInv

\* Of a run's history only the faults are noted.
LEMMA NotClean ==
    ASSUME CatalogueInv, NEW r \in Runs,
           behind' = IF r \in FullRuns THEN [behind EXCEPT ![r].clean = FALSE] ELSE behind
    PROVE  /\ behind' \in [FullRuns -> Histories]
           /\ \A q \in FullRuns : q # r => behind'[q] = behind[q]
           /\ r \in FullRuns => /\ behind'[r].stayed = behind[r].stayed
                                /\ behind'[r].seen = behind[r].seen
                                /\ behind'[r].slid = behind[r].slid
                                /\ ~behind'[r].clean
  <1>ty. behind \in [FullRuns -> Histories]
    BY RunTyped
  <1>1. CASE r \in FullRuns
    <2> DEFINE b == [behind[r] EXCEPT !.clean = FALSE]
    <2>1. /\ b \in Histories
          /\ b.stayed = behind[r].stayed /\ b.seen = behind[r].seen
          /\ b.slid = behind[r].slid /\ ~b.clean
      BY <1>ty, <1>1 DEF Histories
    <2>2. behind' = [behind EXCEPT ![r] = b]
      BY <1>1
    <2> HIDE DEF b
    <2>3. /\ behind' \in [FullRuns -> Histories]
          /\ behind'[r] = b
          /\ \A q \in FullRuns : q # r => behind'[q] = behind[q]
      BY <1>ty, <1>1, <2>1, <2>2
    <2>4. QED
      BY <2>1, <2>3
  <1>2. CASE r \notin FullRuns
    BY <1>ty, <1>2
  <1>3. QED
    BY <1>1, <1>2

LEMMA FetchPageFailsInv ==
    ASSUME CatalogueInv, NEW r \in Runs, FetchPageFails(r)
    PROVE  CatalogueInv'
  <1>ty. /\ run \in [Runs -> RunRecords] /\ run[r] \in RunRecords
         /\ behind \in [FullRuns -> Histories] /\ cut \subseteq Series
    BY RunTyped
  <1>1. Sets(r, Idle) /\ run[r].step = "page"
    BY DEF FetchPageFails, Sets
  <1>2. TagInv'
    BY Aside DEF CatalogueInv, FetchPageFails, Mishap
  <1>3. /\ behind' \in [FullRuns -> Histories]
        /\ \A q \in FullRuns : q # r => behind'[q] = behind[q]
    BY NotClean DEF FetchPageFails
  <1>4. \A s \in Series : ~WillCategorise(run[r], s)
    BY <1>1 DEF WillCategorise
  <1>5. UNCHANGED <<devMode, listed, tables, devTokens, cut>>
    BY DEF FetchPageFails
  <1>6. QED
    BY <1>ty, <1>1, <1>2, <1>3, <1>4, <1>5, EndsInv

LEMMA RunDiesInv ==
    ASSUME CatalogueInv, NEW r \in Runs, RunDies(r)
    PROVE  CatalogueInv'
  <1>ty. /\ run \in [Runs -> RunRecords] /\ run[r] \in RunRecords /\ Shape(run[r])
         /\ behind \in [FullRuns -> Histories] /\ cut \subseteq Series
    BY RunTyped
  <1> DEFINE batch == run[r].batch
             first == SubSeq(batch, 1, Lesser(1, Len(batch)))
  <1>1. Sets(r, Idle) /\ cut' = cut \cup ToSet(first)
    BY DEF RunDies, Sets
  <1>2. TagInv'
    BY Aside DEF CatalogueInv, RunDies, Mishap
  <1>3. /\ behind' \in [FullRuns -> Histories]
        /\ \A q \in FullRuns : q # r => behind'[q] = behind[q]
    BY NotClean DEF RunDies
  <1>4. batch \in Seq(Series) /\ 1 \in Nat
    BY <1>ty DEF RunRecords
  <1>5. Before(batch, 1) = ToSet(first)
    BY DEF Before
  <1>6. Before(batch, 1) \subseteq Series
    <2> SUFFICES ASSUME NEW s, s \in Before(batch, 1) PROVE s \in Series
      OBVIOUS
    <2>1. PICK j \in 1..Len(batch) : batch[j] = s
      BY <1>4, InSeq
    <2>2. QED
      BY <1>4, <2>1, ElementOfSeq
  <1>7. ASSUME NEW s \in Series, WillCategorise(run[r], s)
        PROVE  s \in cut'
    <2>1. batch # <<>> /\ Head(batch) = s
      BY <1>7, <1>ty DEF WillCategorise, Shape
    <2>2. batch[1] = s /\ Len(batch) \in Nat \ {0}
      BY <1>4, <2>1, EmptySeq
    <2>3. 1 \in 1..Len(batch) /\ 1 <= 1
      BY <2>2
    <2>4. s \in Before(batch, 1)
      BY <1>4, <2>2, <2>3, InSeq
    <2>5. QED
      BY <1>1, <1>5, <2>4
  <1>8. UNCHANGED <<devMode, listed, tables, devTokens>>
    BY DEF RunDies
  <1>9. cut \subseteq cut' /\ cut' \subseteq Series
    BY <1>ty, <1>1, <1>5, <1>6
  <1>10. QED
    BY <1>1, <1>2, <1>3, <1>7, <1>8, <1>9, EndsInv

LEMMA StartSyncInv ==
    ASSUME CatalogueInv, NEW r \in Runs, StartSync(r)
    PROVE  CatalogueInv'
  <1>ty. /\ run \in [Runs -> RunRecords] /\ Grounded(run[r])
         /\ behind \in [FullRuns -> Histories] /\ cut \subseteq Series
         /\ run[r] = Idle
    BY RunTyped DEF StartSync
  <1>lst. listed \in Seq(Series)
    BY DEF CatalogueInv, ListInv
  <1> DEFINE rec == [run[r] EXCEPT !.step = "page"]
             b == [stayed |-> ToSet(listed), seen |-> {}, slid |-> {}, clean |-> TRUE]
  <1>1. Sets(r, rec)
    BY DEF StartSync, Sets
  <1>3. <<>> \in Seq(Series) /\ 0 \in Nat
    BY EmptySeq
  <1>4. rec \in RunRecords
    BY <1>ty, RunTyped DEF RunRecords
  <1>2. /\ rec.step = "page" /\ rec.offset = 0 /\ rec.batch = <<>>
        /\ rec.events = {} /\ rec.tags = {} /\ rec.markets = {}
        /\ rec.found = {} /\ rec.tokens = {}
    BY <1>ty DEF Idle
  <1> HIDE DEF rec
  <1>5. Shape(rec) /\ rec.step # "fallback"
    BY <1>2, <1>4 DEF Shape
  <1>6. Grounded(rec)
    BY <1>2 DEF Grounded
  <1>7. /\ UNCHANGED <<devMode, listed, tables, devTokens, cut>>
        /\ TagInv'
    BY Aside DEF StartSync, tagVars, CatalogueInv
  <1>8. \A s \in Series : ~WillCategorise(run[r], s)
    BY <1>ty, IdleShape DEF WillCategorise
  <1>9. ToSet(listed) \subseteq Series
    <2> SUFFICES ASSUME NEW s, s \in ToSet(listed) PROVE s \in Series
      OBVIOUS
    <2>1. PICK j \in 1..Len(listed) : listed[j] = s
      BY <1>lst, <1>3, InSeq
    <2>2. QED
      BY <1>lst, <2>1, ElementOfSeq
  <1>10. Before(listed, 0) = {}
    <2> SUFFICES ASSUME NEW s, s \in Before(listed, 0) PROVE FALSE
      OBVIOUS
    <2>1. PICK j \in 1..Len(listed) : j <= 0 /\ listed[j] = s
      BY <1>lst, <1>3, InSeq
    <2>2. QED
      BY <1>lst, <2>1, LenProperties
  <1>11. /\ behind' \in [FullRuns -> Histories]
         /\ \A q \in FullRuns : q # r => behind'[q] = behind[q]
         /\ r \in FullRuns => behind'[r] = b
    <2>1. b \in Histories
      BY <1>9 DEF Histories
    <2>2. behind' = IF r \in FullRuns THEN [behind EXCEPT ![r] = b] ELSE behind
      BY DEF StartSync
    <2> HIDE DEF b
    <2>3. QED
      BY <1>ty, <2>1, <2>2
  <1>12. Covered(rec, b)
    BY <1>2, <1>10 DEF Covered
  <1> HIDE DEF b
  <1>13. OnlyRun(r, rec)
    BY <1>ty, <1>1, <1>5, <1>6, <1>7, <1>8, <1>11, <1>12 DEF OnlyRun
  <1>14. QED
    BY <1>7, <1>13, OnlyRunInv

\* The next page, a selection of a page, or none.
LEMMA FetchPageInv ==
    ASSUME CatalogueInv, NEW r \in Runs, FetchPage(r)
    PROVE  CatalogueInv'
  <1>ty. /\ run \in [Runs -> RunRecords] /\ run[r] \in RunRecords
         /\ Shape(run[r]) /\ Grounded(run[r]) /\ r \in FullRuns
         /\ behind \in [FullRuns -> Histories] /\ cut \subseteq Series
         /\ behind[r] \in Histories /\ Covered(run[r], behind[r])
         /\ run[r].step = "page"
    BY RunTyped DEF FetchPage
  <1>lst. listed \in Seq(Series)
    BY DEF CatalogueInv, ListInv
  <1> DEFINE from == run[r].offset
             data == SubSeq(listed, from + 1, Lesser(from + PageSize, Len(listed)))
             rec == IF data = <<>> THEN Idle
                    ELSE [run[r] EXCEPT !.step = "series", !.batch = data,
                                        !.short = Len(data) < PageSize,
                                        !.offset = from + PageSize]
             b == [behind[r] EXCEPT !.seen = @ \cup ToSet(data)]
  <1>1. Sets(r, rec)
    BY DEF FetchPage, Sets
  <1>2. /\ from \in Nat
        /\ data \in Seq(Series)
        /\ from + PageSize \in Nat
        /\ data = <<>> => ToSet(listed) \subseteq Before(listed, from)
        /\ Before(listed, from + PageSize) \subseteq Before(listed, from) \cup ToSet(data)
        /\ Len(data) < PageSize => ToSet(listed) \subseteq Before(listed, from + PageSize)
    <2>1. from \in Nat
      BY <1>ty DEF RunRecords
    <2>2. QED
      BY <1>lst, <2>1, PageTaken
  <1>3. behind' = [behind EXCEPT ![r] = b]
    BY DEF FetchPage
  <1> HIDE DEF data
  <1>4. ToSet(data) \subseteq Series
    <2> SUFFICES ASSUME NEW s, s \in ToSet(data) PROVE s \in Series
      OBVIOUS
    <2>1. PICK j \in 1..Len(data) : data[j] = s
      BY <1>2, InSeq
    <2>2. QED
      BY <1>2, <2>1, ElementOfSeq
  <1>5. /\ b \in Histories /\ b.stayed = behind[r].stayed
        /\ b.seen = behind[r].seen \cup ToSet(data) /\ b.slid = behind[r].slid
    BY <1>ty, <1>4 DEF Histories
  <1> HIDE DEF b
  <1>6. /\ behind' \in [FullRuns -> Histories]
        /\ behind'[r] = b
        /\ \A q \in FullRuns : q # r => behind'[q] = behind[q]
    BY <1>ty, <1>3, <1>5
  <1>7. ASSUME data # <<>>
        PROVE  /\ rec \in RunRecords
               /\ rec.step = "series" /\ rec.offset = from + PageSize
               /\ rec.short = (Len(data) < PageSize)
               /\ rec.events = run[r].events /\ rec.tags = run[r].tags
               /\ rec.markets = run[r].markets /\ rec.found = run[r].found
               /\ rec.tokens = run[r].tokens
    <2> DEFINE short == Len(data) < PageSize
               next == from + PageSize
    <2>1. short \in BOOLEAN /\ next \in Nat
      BY <1>2
    <2>2. rec = [run[r] EXCEPT !.step = "series", !.batch = data,
                               !.short = short, !.offset = next]
      BY <1>7
    <2> HIDE DEF short, next, rec
    <2>3. rec \in RunRecords
      BY <1>ty, <1>2, <2>1, <2>2 DEF RunRecords
    <2>4. /\ rec.step = "series" /\ rec.offset = next /\ rec.short = short
          /\ rec.events = run[r].events /\ rec.tags = run[r].tags
          /\ rec.markets = run[r].markets /\ rec.found = run[r].found
          /\ rec.tokens = run[r].tokens
      BY <1>ty, <2>2 DEF RunRecords
    <2>5. QED
      BY <2>3, <2>4 DEF short, next
  <1>8. data = <<>> => rec = Idle
    OBVIOUS
  <1> HIDE DEF rec
  <1>9. Shape(rec) /\ rec.step # "fallback" /\ Grounded(rec)
    <2>1. CASE data = <<>>
      BY <1>8, <2>1, IdleShape
    <2>2. CASE data # <<>>
      BY <1>7, <1>ty, <2>2 DEF Shape, Grounded
    <2>3. QED
      BY <2>1, <2>2
  <1>10. Covered(rec, b)
    <2>1. CASE data = <<>>
      BY <1>8, <2>1, IdleShape
    <2>2. CASE data # <<>>
      <3>1. /\ behind[r].stayed \subseteq ToSet(listed)
            /\ behind[r].stayed \cap Before(listed, from) \subseteq
                    behind[r].seen \cup behind[r].slid
        BY <1>ty DEF Covered
      <3>2. QED
        BY <1>2, <1>5, <1>7, <2>2, <3>1 DEF Covered
    <2>3. QED
      BY <2>1, <2>2
  <1>11. \A s \in Series : ~WillCategorise(run[r], s)
    BY <1>ty DEF WillCategorise
  <1>12. /\ UNCHANGED <<devMode, listed, tables, devTokens, cut>>
         /\ TagInv'
    BY Aside DEF FetchPage, tagVars, CatalogueInv
  <1>13. OnlyRun(r, rec)
    BY <1>ty, <1>1, <1>6, <1>9, <1>10, <1>11, <1>12 DEF OnlyRun
  <1>14. QED
    BY <1>12, <1>13, OnlyRunInv

LEMMA FetchCandidatesInv ==
    ASSUME CatalogueInv, NEW r \in Runs, FetchCandidates(r)
    PROVE  CatalogueInv'
  <1>ty. /\ run \in [Runs -> RunRecords] /\ run[r] \in RunRecords
         /\ Shape(run[r]) /\ Grounded(run[r])
         /\ behind \in [FullRuns -> Histories] /\ cut \subseteq Series
         /\ run[r].step = "page"
    BY RunTyped DEF FetchCandidates
  <1>dev. r \notin FullRuns
    BY CatalogueAssumption DEF FetchCandidates
  <1>lst. listed \in Seq(Series) /\ 0 \in Nat
    BY DEF CatalogueInv, ListInv
  <1> DEFINE chosen == SelectDiverse(listed, Bucket, Volume, MaxTotal, MaxPerBucket)
             rec == IF listed = <<>> THEN Idle
                    ELSE [run[r] EXCEPT !.step = "series", !.short = TRUE,
                                        !.batch = chosen]
  <1>1. Sets(r, rec)
    BY DEF FetchCandidates, Sets
  <1>2. Page(listed, Bucket, Volume)
    BY <1>lst, CatalogueAssumption DEF Page
  <1>3. chosen \in Seq(Series)
    BY <1>2, <1>lst, CatalogueAssumption, SelectionOfPage
  <1> HIDE DEF chosen
  <1>4. ASSUME listed # <<>>
        PROVE  /\ rec \in RunRecords /\ rec.step = "series"
               /\ rec.events = run[r].events /\ rec.tags = run[r].tags
               /\ rec.markets = run[r].markets /\ rec.found = run[r].found
               /\ rec.tokens = run[r].tokens
    BY <1>ty, <1>3, <1>4 DEF RunRecords
  <1>5. listed = <<>> => rec = Idle
    OBVIOUS
  <1> HIDE DEF rec
  <1>6. Shape(rec) /\ Grounded(rec)
    <2>1. CASE listed = <<>>
      BY <1>5, <2>1, IdleShape
    <2>2. CASE listed # <<>>
      BY <1>4, <1>ty, <2>2 DEF Shape, Grounded
    <2>3. QED
      BY <2>1, <2>2
  <1>7. \A s \in Series : ~WillCategorise(run[r], s)
    BY <1>ty DEF WillCategorise
  <1>8. /\ UNCHANGED <<devMode, listed, tables, devTokens, cut, behind>>
        /\ TagInv'
    BY Aside DEF FetchCandidates, tagVars, CatalogueInv
  <1>9. OnlyRun(r, rec)
    BY <1>ty, <1>dev, <1>1, <1>6, <1>7, <1>8 DEF OnlyRun
  <1>10. QED
    BY <1>8, <1>9, OnlyRunInv

-----------------------------------------------------------------------------
(* A series of the page.                                                    *)

\* A run at work on a page does not move its offset.
SamePage(rec, old) ==
    /\ old.step \in {"series", "events"} /\ rec.step \in {"series", "events"}
    /\ rec.offset = old.offset /\ rec.short = old.short

LEMMA CoveredKept ==
    ASSUME NEW rec, NEW old, NEW b, NEW c, SamePage(rec, old), Covered(old, b),
           c.stayed = b.stayed, c.seen = b.seen, c.slid = b.slid
    PROVE  Covered(rec, c)
  BY DEF Covered, SamePage

IsLeft(new, old, found) ==
    new = [old EXCEPT !.step = "series", !.batch = Tail(@), !.events = {}, !.tags = {},
                      !.markets = {}, !.categories = FALSE, !.found = {},
                      !.tokens = @ \cup found]

IsCleared(new, old, found) ==
    /\ Shape(new)
    /\ new.step = "series" /\ new.offset = old.offset /\ new.short = old.short
    /\ new.events = {} /\ new.tags = {} /\ new.markets = {} /\ new.found = {}
    /\ new.tokens = old.tokens \cup found

LEMMA LeftShape ==
    ASSUME NEW old \in RunRecords, old.batch # <<>>, NEW found, found \subseteq Markets,
           NEW new, IsLeft(new, old, found)
    PROVE  IsCleared(new, old, found)
  <1>1. old.batch \in Seq(Series) /\ Tail(old.batch) \in Seq(Series)
    BY HeadTailProperties DEF RunRecords
  <1>2. new = [old EXCEPT !.step = "series", !.batch = Tail(old.batch), !.events = {},
                          !.tags = {}, !.markets = {}, !.categories = FALSE,
                          !.found = {}, !.tokens = old.tokens \cup found]
    BY DEF IsLeft, RunRecords
  <1>3. new \in RunRecords
    BY <1>1, <1>2 DEF RunRecords
  <1>4. /\ new.step = "series" /\ new.offset = old.offset /\ new.short = old.short
        /\ new.events = {} /\ new.tags = {} /\ new.markets = {} /\ new.found = {}
        /\ new.tokens = old.tokens \cup found
    BY <1>2 DEF RunRecords
  <1>5. Shape(new)
    BY <1>3, <1>4 DEF Shape
  <1>6. QED
    BY <1>4, <1>5 DEF IsCleared

LEMMA LeaveSets ==
    ASSUME NEW r \in Runs, NEW found, Leave(r, found)
    PROVE  \E new : Sets(r, new) /\ IsLeft(new, run[r], found)
  BY DEF Leave, Sets, IsLeft

LEMMA SkipSeriesInv ==
    ASSUME CatalogueInv, NEW r \in Runs, SkipSeries(r)
    PROVE  CatalogueInv'
  <1>ty. /\ run \in [Runs -> RunRecords] /\ run[r] \in RunRecords
         /\ Shape(run[r]) /\ Grounded(run[r]) /\ cut \subseteq Series
         /\ r \in FullRuns => Covered(run[r], behind[r])
    BY RunTyped
  <1>1. /\ Leave(r, {}) /\ run[r].batch # <<>> /\ run[r].step \in {"series", "events"}
        /\ UNCHANGED <<devMode, listed, tables, devTokens>>
        /\ cut' = cut \cup {Head(run[r].batch)}
    BY DEF SkipSeries
  <1>2. TagInv'
    BY Aside DEF CatalogueInv, SkipSeries, Mishap
  <1>3. PICK rec : Sets(r, rec) /\ IsLeft(rec, run[r], {})
    BY <1>1, LeaveSets
  <1>4. /\ Shape(rec) /\ rec.step = "series" /\ rec.offset = run[r].offset
        /\ rec.short = run[r].short /\ rec.events = {} /\ rec.markets = {}
        /\ rec.found = {} /\ rec.tokens = run[r].tokens
    <2>1. IsCleared(rec, run[r], {})
      BY <1>ty, <1>1, <1>3, LeftShape
    <2>2. QED
      BY <2>1 DEF IsCleared
  <1>5. Head(run[r].batch) \in Series
    BY <1>ty, <1>1, HeadTailProperties DEF RunRecords
  <1>6. /\ behind' \in [FullRuns -> Histories]
        /\ \A q \in FullRuns : q # r => behind'[q] = behind[q]
        /\ r \in FullRuns => /\ behind'[r].stayed = behind[r].stayed
                             /\ behind'[r].seen = behind[r].seen
                             /\ behind'[r].slid = behind[r].slid
    BY NotClean DEF SkipSeries
  <1>7. r \in FullRuns => Covered(rec, behind'[r])
    <2>1. SamePage(rec, run[r])
      BY <1>1, <1>4 DEF SamePage
    <2>2. QED
      BY <1>ty, <1>6, <2>1, CoveredKept
  <1>8. Grounded(rec)
    BY <1>ty, <1>4 DEF Grounded
  <1>9. \A s \in Series : WillCategorise(run[r], s) => s \in cut'
    BY <1>1 DEF WillCategorise
  <1>10. OnlyRun(r, rec)
    BY <1>ty, <1>1, <1>3, <1>4, <1>5, <1>6, <1>7, <1>8, <1>9 DEF OnlyRun
  <1>11. QED
    BY <1>2, <1>10, OnlyRunInv

\* What a step about an event, a tag or a market leaves as it was.
SameSeries(rec, old) ==
    /\ rec \in RunRecords
    /\ rec.step = old.step /\ rec.batch = old.batch
    /\ rec.offset = old.offset /\ rec.short = old.short
    /\ rec.tokens = old.tokens

LEMMA SameSeriesKept ==
    ASSUME NEW rec, NEW old, NEW b, SameSeries(rec, old), old.step = "events",
           Shape(old), rec.events \subseteq old.events
    PROVE  /\ Shape(rec) /\ rec.step = "events"
           /\ Covered(old, b) => Covered(rec, b)
  BY DEF SameSeries, Shape, Covered

LEMMA SkipEventInv ==
    ASSUME CatalogueInv, NEW r \in Runs, NEW e \in Events, SkipEvent(r, e)
    PROVE  CatalogueInv'
  <1>ty. /\ run \in [Runs -> RunRecords] /\ run[r] \in RunRecords
         /\ Shape(run[r]) /\ Grounded(run[r]) /\ cut \subseteq Series
         /\ behind \in [FullRuns -> Histories]
         /\ r \in FullRuns => Covered(run[r], behind[r])
         /\ SeriesOf[e] \in Series
    BY RunTyped, CatalogueAssumption
  <1>1. /\ run[r].step = "events" /\ e \in run[r].events
        /\ UNCHANGED <<devMode, listed, tables, devTokens, behind>>
        /\ cut' = IF TagsOf[e] # {} THEN cut \cup {SeriesOf[e]} ELSE cut
    BY DEF SkipEvent, NextEvent
  <1>2. TagInv'
    BY Aside DEF CatalogueInv, SkipEvent, Mishap
  <1> DEFINE rec == [run[r] EXCEPT !.events = @ \ {e}]
  <1>3. Sets(r, rec)
    BY DEF SkipEvent, Sets
  <1>4. /\ SameSeries(rec, run[r])
        /\ rec.events = run[r].events \ {e} /\ rec.markets = run[r].markets
        /\ rec.found = run[r].found /\ rec.categories = run[r].categories
    BY <1>ty DEF RunRecords, SameSeries
  <1> HIDE DEF rec
  <1>5. /\ Shape(rec) /\ rec.step = "events"
        /\ r \in FullRuns => Covered(rec, behind[r])
    BY <1>ty, <1>1, <1>4, SameSeriesKept
  <1>6. Grounded(rec)
    BY <1>ty, <1>4 DEF Grounded, SameSeries
  <1>7. ASSUME NEW s \in Series, WillCategorise(run[r], s), s \notin cut'
        PROVE  WillCategorise(rec, s)
    <2>1. SeriesOf[e] = Head(run[r].batch)
      BY <1>ty, <1>1 DEF Shape, EventsIn
    <2>2. s = Head(run[r].batch)
      BY <1>7 DEF WillCategorise
    <2>3. TagsOf[e] = {}
      BY <1>1, <1>7, <2>1, <2>2
    <2>4. QED
      BY <1>4, <1>5, <1>7, <2>3 DEF WillCategorise, SameSeries
  <1>8. OnlyRun(r, rec)
    BY <1>ty, <1>1, <1>3, <1>5, <1>6, <1>7 DEF OnlyRun
  <1>9. QED
    BY <1>2, <1>8, OnlyRunInv

\* A tag of the event or one of its markets is done with.
LEMMA DoneWith ==
    ASSUME CatalogueInv, NEW r \in Runs, NEW rec, Sets(r, rec), TagInv',
           run[r].step = "events", SameSeries(rec, run[r]),
           rec.events = run[r].events, rec.markets \subseteq run[r].markets,
           rec.found = run[r].found, rec.categories = run[r].categories,
           UNCHANGED <<devMode, listed, tables, devTokens, behind, cut>>
    PROVE  CatalogueInv'
  <1>ty. /\ Shape(run[r]) /\ Grounded(run[r]) /\ cut \subseteq Series
         /\ behind \in [FullRuns -> Histories]
         /\ r \in FullRuns => Covered(run[r], behind[r])
    BY RunTyped
  <1>1. /\ Shape(rec) /\ rec.step = "events"
        /\ r \in FullRuns => Covered(rec, behind[r])
    BY <1>ty, SameSeriesKept
  <1>2. Grounded(rec)
    BY <1>ty DEF Grounded, SameSeries
  <1>3. \A s \in Series : WillCategorise(run[r], s) => WillCategorise(rec, s)
    BY DEF WillCategorise, SameSeries
  <1>4. OnlyRun(r, rec)
    BY <1>ty, <1>1, <1>2, <1>3 DEF OnlyRun
  <1>5. QED
    BY <1>4, OnlyRunInv

LEMMA EventTagInv ==
    ASSUME CatalogueInv, NEW r \in Runs, NEW t \in Tags,
           UpsertEventTag(r, t) \/ SkipEventTag(r, t)
    PROVE  CatalogueInv'
  <1>ty. run[r] \in RunRecords /\ Shape(run[r]) /\ run \in [Runs -> RunRecords]
    BY RunTyped
  <1>1. run[r].step = "events"
    BY <1>ty DEF UpsertEventTag, SkipEventTag, Shape
  <1> DEFINE rec == [run[r] EXCEPT !.tags = @ \ {t}]
  <1>2. Sets(r, rec) /\ UNCHANGED <<devMode, listed, tables, devTokens, behind, cut>>
    BY DEF UpsertEventTag, SkipEventTag, Sets
  <1>3. /\ SameSeries(rec, run[r])
        /\ rec.events = run[r].events /\ rec.markets = run[r].markets
        /\ rec.found = run[r].found /\ rec.categories = run[r].categories
    BY <1>ty DEF RunRecords, SameSeries
  <1> HIDE DEF rec
  <1>4. TagInv'
    <2>1. CASE UpsertEventTag(r, t)
      BY <2>1, WriteEventTagInv DEF UpsertEventTag, CatalogueInv
    <2>2. CASE SkipEventTag(r, t)
      BY <2>2, Aside DEF CatalogueInv, SkipEventTag, Mishap
    <2>3. QED
      BY <2>1, <2>2
  <1>5. QED
    BY <1>1, <1>2, <1>3, <1>4, DoneWith

LEMMA SkipMarketInv ==
    ASSUME CatalogueInv, NEW r \in Runs, NEW m \in Markets, SkipMarket(r, m)
    PROVE  CatalogueInv'
  <1>ty. run[r] \in RunRecords /\ Shape(run[r]) /\ run \in [Runs -> RunRecords]
    BY RunTyped
  <1>1. run[r].step = "events"
    BY <1>ty DEF SkipMarket, Shape
  <1> DEFINE rec == [run[r] EXCEPT !.markets = @ \ {m}]
  <1>2. Sets(r, rec) /\ UNCHANGED <<devMode, listed, tables, devTokens, behind, cut>>
    BY DEF SkipMarket, Sets
  <1>3. /\ SameSeries(rec, run[r])
        /\ rec.events = run[r].events /\ rec.markets \subseteq run[r].markets
        /\ rec.found = run[r].found /\ rec.categories = run[r].categories
    BY <1>ty DEF RunRecords, SameSeries
  <1> HIDE DEF rec
  <1>4. TagInv'
    BY Aside DEF CatalogueInv, SkipMarket, Mishap
  <1>5. QED
    BY <1>1, <1>2, <1>3, <1>4, DoneWith

LEMMA NextPageInv ==
    ASSUME CatalogueInv, NEW r \in Runs, NextPage(r)
    PROVE  CatalogueInv'
  <1>ty. /\ run \in [Runs -> RunRecords] /\ run[r] \in RunRecords
         /\ Shape(run[r]) /\ Grounded(run[r]) /\ r \in FullRuns
         /\ behind \in [FullRuns -> Histories] /\ cut \subseteq Series
         /\ Covered(run[r], behind[r])
         /\ run[r].step = "series" /\ run[r].batch = <<>>
    BY RunTyped DEF NextPage
  <1>1. /\ UNCHANGED <<devMode, listed, tables, devTokens, behind, cut>>
        /\ TagInv'
    BY Aside DEF NextPage, tagVars, CatalogueInv
  <1>2. \A s \in Series : ~WillCategorise(run[r], s)
    BY <1>ty DEF WillCategorise
  <1>3. CASE run[r].short
    <2>1. Sets(r, Idle)
      BY <1>3 DEF NextPage, Sets
    <2>2. QED
      BY <1>ty, <1>1, <1>2, <2>1, EndsInv
  <1>4. CASE ~run[r].short
    <2> DEFINE rec == [run[r] EXCEPT !.step = "page"]
    <2>1. Sets(r, rec)
      BY <1>4 DEF NextPage, Sets
    <2>2. /\ rec \in RunRecords
          /\ rec.step = "page" /\ rec.batch = <<>> /\ rec.offset = run[r].offset
          /\ rec.events = run[r].events /\ rec.tags = run[r].tags
          /\ rec.markets = run[r].markets /\ rec.found = run[r].found
          /\ rec.tokens = run[r].tokens
      BY <1>ty DEF RunRecords
    <2> HIDE DEF rec
    <2>3. Shape(rec) /\ Grounded(rec) /\ rec.step # "fallback"
      BY <1>ty, <2>2 DEF Shape, Grounded
    <2>4. Covered(rec, behind[r])
      BY <1>ty, <2>2 DEF Covered
    <2>5. OnlyRun(r, rec)
      BY <1>ty, <1>1, <1>2, <2>1, <2>3, <2>4 DEF OnlyRun
    <2>6. QED
      BY <1>1, <2>5, OnlyRunInv
  <1>5. QED
    BY <1>3, <1>4

-----------------------------------------------------------------------------
(* The rows.                                                                *)

\* How SeriesOnRow follows the writing of a series row.
LEMMA SeriesRowWritten ==
    ASSUME GroundInv, NEW s \in Series, NEW v \in {"bare", "categorised"},
           seriesRow' = [seriesRow EXCEPT ![s] = v]
    PROVE  /\ seriesRow' \in [Series -> {"absent", "bare", "categorised"}]
           /\ seriesRow'[s] = v
           /\ \A o \in Series : o # s => seriesRow'[o] = seriesRow[o]
           /\ SeriesOnRow' = SeriesOnRow \cup {s}
  <1>1. seriesRow \in [Series -> {"absent", "bare", "categorised"}]
    BY DEF GroundInv
  <1>2. /\ seriesRow' \in [Series -> {"absent", "bare", "categorised"}]
        /\ seriesRow'[s] = v
        /\ \A o \in Series : o # s => seriesRow'[o] = seriesRow[o]
    BY <1>1
  <1>3. SeriesOnRow' = SeriesOnRow \cup {s}
    BY <1>2 DEF SeriesOnRow
  <1>4. QED
    BY <1>2, <1>3

LEMMA UpsertSeriesInv ==
    ASSUME CatalogueInv, NEW r \in Runs, NEW E \in SUBSET Events, UpsertSeries(r, E)
    PROVE  CatalogueInv'
  <1>ty. /\ run \in [Runs -> RunRecords] /\ run[r] \in RunRecords
         /\ Shape(run[r]) /\ Grounded(run[r]) /\ cut \subseteq Series
         /\ behind \in [FullRuns -> Histories]
         /\ r \in FullRuns => Covered(run[r], behind[r])
    BY RunTyped
  <1>inv. ShapeInv /\ GroundInv /\ BareInv /\ ListInv /\ TagInv /\ devMode \in BOOLEAN
    BY DEF CatalogueInv
  <1> DEFINE s == Head(run[r].batch)
             v == IF s \in OwnCategories THEN "categorised" ELSE "bare"
             rec == [run[r] EXCEPT !.step = "events", !.events = E]
  <1>1. /\ run[r].step = "series" /\ run[r].batch # <<>>
        /\ seriesRow' = [seriesRow EXCEPT ![s] = v]
        /\ cut' = IF \E e \in E : TagsOf[e] # {} THEN cut \ {s} ELSE cut \cup {s}
        /\ E \subseteq EventsIn(s)
        /\ Sets(r, rec)
        /\ UNCHANGED <<devMode, listed, eventRow, marketRow, devTokens, behind>>
    BY DEF UpsertSeries, Sets
  <1>2. TagInv'
    BY <1>inv, Aside DEF UpsertSeries, Mishap
  <1>3. s \in Series
    BY <1>ty, <1>1, HeadTailProperties DEF RunRecords
  <1>4. /\ rec \in RunRecords /\ rec.step = "events" /\ rec.events = E
        /\ rec.batch = run[r].batch /\ rec.offset = run[r].offset
        /\ rec.short = run[r].short /\ rec.markets = run[r].markets
        /\ rec.found = run[r].found /\ rec.tokens = run[r].tokens
    BY <1>ty DEF RunRecords
  <1> HIDE DEF rec
  <1>5. Shape(rec)
    BY <1>1, <1>4 DEF Shape
  <1>6. ShapeInv' /\ run'[r] = rec /\ \A q \in Runs : q # r => run'[q] = run[q]
    BY <1>inv, <1>1, <1>4, <1>5, ShapeKept
  <1>7. v \in {"bare", "categorised"}
    OBVIOUS
  <1> HIDE DEF v, s
  <1>8. /\ seriesRow' \in [Series -> {"absent", "bare", "categorised"}]
        /\ \A o \in Series : o # s => seriesRow'[o] = seriesRow[o]
        /\ SeriesOnRow' = SeriesOnRow \cup {s}
    BY <1>inv, <1>1, <1>3, <1>7, SeriesRowWritten
  <1>9. GroundInv'
    <2>1. Gain
      BY <1>1, <1>8 DEF Gain
    <2>2. \A e \in rec.events : SeriesOf[e] \in SeriesOnRow'
      BY <1>1, <1>4, <1>8 DEF EventsIn
    <2>3. /\ \A m \in rec.markets : EventOf[m] \in eventRow'
          /\ rec.found \subseteq marketRow' /\ rec.tokens \subseteq marketRow'
      BY <1>ty, <1>1, <1>4 DEF Grounded
    <2>4. /\ eventRow' \subseteq Events /\ marketRow' \subseteq Markets
          /\ devTokens' \in Seq(marketRow')
          /\ \A m \in marketRow' : EventOf[m] \in eventRow'
          /\ \A e \in eventRow' : SeriesOf[e] \in SeriesOnRow'
      BY <1>inv, <1>1, <1>8 DEF GroundInv
    <2>5. QED
      BY <1>inv, <1>1, <1>8, <2>1, <2>2, <2>3, <2>4, GroundKept
  <1>10. BareInv'
    <2>1. ASSUME NEW o \in Series, seriesRow'[o] = "bare"
          PROVE  o \in cut' \/ \E q \in Runs : WillCategorise(run'[q], o)
      <3>1. CASE o = s /\ \E e \in E : TagsOf[e] # {}
        <4>1. WillCategorise(rec, o)
          BY <1>4, <3>1 DEF WillCategorise, s
        <4>2. QED
          BY <1>6, <4>1
      <3>2. CASE o = s /\ ~\E e \in E : TagsOf[e] # {}
        BY <1>1, <3>2
      <3>3. CASE o # s
        <4>1. o \in cut \/ \E q \in Runs : WillCategorise(run[q], o)
          BY <1>8, <1>inv, <2>1, <3>3 DEF BareInv
        <4>2. o \in cut => o \in cut'
          BY <1>1, <3>3
        <4>3. \A q \in Runs : WillCategorise(run[q], o) => q # r
          BY <1>1 DEF WillCategorise
        <4>4. QED
          BY <1>6, <4>1, <4>2, <4>3
      <3>4. QED
        BY <3>1, <3>2, <3>3
    <2>2. cut' \subseteq Series
      BY <1>ty, <1>1, <1>3
    <2>3. QED
      BY <2>1, <2>2 DEF BareInv
  <1>11. ListInv'
    <2>1. SamePage(rec, run[r])
      BY <1>1, <1>4 DEF SamePage
    <2>2. r \in FullRuns => Covered(rec, behind'[r])
      BY <1>ty, <1>1, <2>1, CoveredKept
    <2>3. QED
      BY <1>ty, <1>inv, <1>1, <2>2, ListKept
  <1>12. QED
    BY <1>inv, <1>1, <1>2, <1>6, <1>9, <1>10, <1>11 DEF CatalogueInv

LEMMA UpsertEventInv ==
    ASSUME CatalogueInv, NEW r \in Runs, NEW e \in Events,
           NEW M \in {{}, MarketsIn(e)}, UpsertEvent(r, e, M)
    PROVE  CatalogueInv'
  <1>ty. /\ run \in [Runs -> RunRecords] /\ run[r] \in RunRecords
         /\ Shape(run[r]) /\ Grounded(run[r]) /\ cut \subseteq Series
         /\ behind \in [FullRuns -> Histories]
         /\ r \in FullRuns => Covered(run[r], behind[r])
         /\ TagsOf[e] \subseteq Tags
         /\ r \in FullRuns => run[r].step # "fallback"
    BY RunTyped, CatalogueAssumption
  <1>inv. ShapeInv /\ GroundInv /\ BareInv /\ ListInv /\ TagInv /\ devMode \in BOOLEAN
    BY DEF CatalogueInv
  <1> DEFINE rec == [run[r] EXCEPT !.events = @ \ {e}, !.tags = TagsOf[e],
                                   !.markets = M, !.categories = @ \/ TagsOf[e] # {}]
  <1>1. /\ run[r].step = "events" /\ e \in run[r].events
        /\ eventRow' = eventRow \cup {e}
        /\ Sets(r, rec)
        /\ UNCHANGED <<devMode, listed, seriesRow, marketRow, devTokens, behind, cut>>
    BY DEF UpsertEvent, NextEvent, Sets
  <1>2. TagInv'
    BY <1>inv, Aside DEF UpsertEvent, Mishap
  <1>3. M \subseteq MarketsIn(e) /\ M \subseteq Markets
    BY DEF MarketsIn
  <1>4. /\ SameSeries(rec, run[r])
        /\ rec.events = run[r].events \ {e} /\ rec.markets = M
        /\ rec.found = run[r].found
        /\ rec.categories = (run[r].categories \/ TagsOf[e] # {})
    <2> DEFINE more == run[r].categories \/ TagsOf[e] # {}
               rest == run[r].events \ {e}
    <2>1. more \in BOOLEAN /\ rest \in SUBSET Events
      BY <1>ty DEF RunRecords
    <2>2. rec = [run[r] EXCEPT !.events = rest, !.tags = TagsOf[e],
                               !.markets = M, !.categories = more]
      BY <1>ty DEF RunRecords
    <2> HIDE DEF more, rest, rec
    <2>3. rec \in RunRecords
      BY <1>ty, <1>3, <2>1, <2>2 DEF RunRecords
    <2>4. /\ rec.step = run[r].step /\ rec.batch = run[r].batch
          /\ rec.offset = run[r].offset /\ rec.short = run[r].short
          /\ rec.tokens = run[r].tokens
          /\ rec.events = rest /\ rec.markets = M
          /\ rec.found = run[r].found /\ rec.categories = more
      BY <1>ty, <2>2 DEF RunRecords
    <2>5. QED
      BY <2>3, <2>4 DEF SameSeries, more, rest
  <1> HIDE DEF rec
  <1>5. /\ Shape(rec) /\ rec.step = "events"
        /\ r \in FullRuns => Covered(rec, behind[r])
    BY <1>ty, <1>1, <1>4, SameSeriesKept
  <1>6. ShapeInv'
    BY <1>inv, <1>1, <1>5, ShapeKept
  <1>7. GroundInv'
    <2>1. SeriesOnRow' = SeriesOnRow /\ Gain
      BY <1>1 DEF Gain, SeriesOnRow
    <2>2. \A o \in rec.events : SeriesOf[o] \in SeriesOnRow'
      BY <1>ty, <1>4, <2>1 DEF Grounded
    <2>3. /\ \A m \in rec.markets : EventOf[m] \in eventRow'
          /\ rec.found \subseteq marketRow' /\ rec.tokens \subseteq marketRow'
      BY <1>ty, <1>1, <1>3, <1>4 DEF Grounded, MarketsIn, SameSeries
    <2>4. /\ eventRow' \subseteq Events /\ marketRow' \subseteq Markets
          /\ devTokens' \in Seq(marketRow')
          /\ seriesRow' \in [Series -> {"absent", "bare", "categorised"}]
          /\ \A m \in marketRow' : EventOf[m] \in eventRow'
      BY <1>inv, <1>1 DEF GroundInv
    <2>5. \A o \in eventRow' : SeriesOf[o] \in SeriesOnRow'
      BY <1>inv, <1>ty, <1>1, <2>1 DEF GroundInv, Grounded
    <2>6. QED
      BY <1>inv, <1>1, <2>1, <2>2, <2>3, <2>4, <2>5, GroundKept
  <1>8. BareInv'
    <2>1. \A s \in Series : WillCategorise(run[r], s) => WillCategorise(rec, s)
      BY <1>1, <1>4 DEF WillCategorise, SameSeries
    <2>2. QED
      BY <1>ty, <1>inv, <1>1, <2>1, BareKept
  <1>9. ListInv'
    BY <1>ty, <1>inv, <1>1, <1>5, ListKept
  <1>10. QED
    BY <1>inv, <1>1, <1>2, <1>6, <1>7, <1>8, <1>9 DEF CatalogueInv

LEMMA UpsertMarketInv ==
    ASSUME CatalogueInv, NEW r \in Runs, NEW m \in Markets, UpsertMarket(r, m)
    PROVE  CatalogueInv'
  <1>ty. /\ run \in [Runs -> RunRecords] /\ run[r] \in RunRecords
         /\ Shape(run[r]) /\ Grounded(run[r]) /\ cut \subseteq Series
         /\ behind \in [FullRuns -> Histories]
         /\ r \in FullRuns => Covered(run[r], behind[r])
    BY RunTyped
  <1>inv. ShapeInv /\ GroundInv /\ BareInv /\ ListInv /\ TagInv /\ devMode \in BOOLEAN
    BY DEF CatalogueInv
  <1> DEFINE got == IF r \in DevRuns THEN run[r].found \cup {m} ELSE run[r].found
             rec == [run[r] EXCEPT !.markets = @ \ {m}, !.found = got]
  <1>1. /\ m \in run[r].markets
        /\ marketRow' = marketRow \cup {m}
        /\ Sets(r, rec)
        /\ UNCHANGED <<devMode, listed, seriesRow, eventRow, devTokens, behind, cut>>
    BY <1>ty DEF UpsertMarket, Sets, RunRecords
  <1>2. TagInv'
    BY <1>inv, Aside DEF UpsertMarket, tagVars
  <1>3. run[r].step = "events"
    BY <1>ty, <1>1 DEF Shape
  <1>4. got \in SUBSET Markets /\ got \subseteq run[r].found \cup {m}
    BY <1>ty DEF RunRecords
  <1> HIDE DEF got
  <1>5. /\ SameSeries(rec, run[r])
        /\ rec.events = run[r].events /\ rec.markets = run[r].markets \ {m}
        /\ rec.found = got /\ rec.categories = run[r].categories
    BY <1>ty, <1>4 DEF RunRecords, SameSeries
  <1> HIDE DEF rec
  <1>6. /\ Shape(rec) /\ rec.step = "events"
        /\ r \in FullRuns => Covered(rec, behind[r])
    BY <1>ty, <1>3, <1>5, SameSeriesKept
  <1>7. ShapeInv'
    BY <1>inv, <1>1, <1>6, ShapeKept
  <1>8. GroundInv'
    <2>1. SeriesOnRow' = SeriesOnRow /\ Gain
      BY <1>1 DEF Gain, SeriesOnRow
    <2>2. /\ \A o \in rec.events : SeriesOf[o] \in SeriesOnRow'
          /\ \A o \in rec.markets : EventOf[o] \in eventRow'
      BY <1>ty, <1>1, <1>5, <2>1 DEF Grounded
    <2>3. rec.found \subseteq marketRow' /\ rec.tokens \subseteq marketRow'
      BY <1>ty, <1>1, <1>4, <1>5 DEF Grounded, SameSeries
    <2>4. /\ eventRow' \subseteq Events /\ marketRow' \subseteq Markets
          /\ seriesRow' \in [Series -> {"absent", "bare", "categorised"}]
          /\ \A e \in eventRow' : SeriesOf[e] \in SeriesOnRow'
      BY <1>inv, <1>1, <2>1 DEF GroundInv
    <2>5. \A o \in marketRow' : EventOf[o] \in eventRow'
      BY <1>inv, <1>ty, <1>1 DEF GroundInv, Grounded
    <2>6. devTokens' \in Seq(marketRow')
      <3>1. devTokens \in Seq(marketRow) /\ marketRow \subseteq marketRow'
        BY <1>inv, <1>1 DEF GroundInv
      <3>2. devTokens \in Seq(marketRow')
        BY <3>1, SeqMonotonic
      <3>3. QED
        BY <1>1, <3>2
    <2>7. QED
      BY <1>inv, <1>1, <2>1, <2>2, <2>3, <2>4, <2>5, <2>6, GroundKept
  <1>9. BareInv'
    <2>1. \A s \in Series : WillCategorise(run[r], s) => WillCategorise(rec, s)
      BY <1>1, <1>5 DEF WillCategorise, SameSeries
    <2>2. QED
      BY <1>ty, <1>inv, <1>1, <2>1, BareKept
  <1>10. ListInv'
    BY <1>ty, <1>inv, <1>1, <1>6, ListKept
  <1>11. QED
    BY <1>inv, <1>1, <1>2, <1>7, <1>8, <1>9, <1>10 DEF CatalogueInv

LEMMA BackFillInv ==
    ASSUME CatalogueInv, NEW r \in Runs, BackFill(r)
    PROVE  CatalogueInv'
  <1>ty. /\ run \in [Runs -> RunRecords] /\ run[r] \in RunRecords
         /\ Shape(run[r]) /\ Grounded(run[r]) /\ cut \subseteq Series
         /\ behind \in [FullRuns -> Histories]
         /\ r \in FullRuns => Covered(run[r], behind[r])
    BY RunTyped
  <1>inv. ShapeInv /\ GroundInv /\ BareInv /\ ListInv /\ TagInv /\ devMode \in BOOLEAN
    BY DEF CatalogueInv
  <1> DEFINE s == Head(run[r].batch)
  <1>1. /\ run[r].step = "events" /\ run[r].events = {}
        /\ Leave(r, run[r].found)
        /\ UNCHANGED <<devMode, listed, eventRow, marketRow, devTokens, behind>>
    BY DEF BackFill
  <1>2. \/ /\ seriesRow' = IF run[r].categories /\ seriesRow[s] = "bare"
                           THEN [seriesRow EXCEPT ![s] = "categorised"] ELSE seriesRow
           /\ cut' = cut
        \/ /\ cut' = cut \cup {s}
           /\ seriesRow' = seriesRow
    BY DEF BackFill
  <1>3. TagInv'
    BY <1>inv, Aside DEF BackFill, Mishap
  <1>4. run[r].batch # <<>> /\ s \in Series /\ run[r].found \subseteq Markets
    BY <1>ty, <1>1, HeadTailProperties DEF RunRecords, Shape
  <1>5. PICK rec : Sets(r, rec) /\ IsLeft(rec, run[r], run[r].found)
    BY <1>1, LeaveSets
  <1>6. /\ Shape(rec) /\ rec.step = "series" /\ rec.offset = run[r].offset
        /\ rec.short = run[r].short /\ rec.events = {} /\ rec.markets = {}
        /\ rec.found = {} /\ rec.tokens = run[r].tokens \cup run[r].found
    <2>1. IsCleared(rec, run[r], run[r].found)
      BY <1>ty, <1>4, <1>5, LeftShape
    <2>2. QED
      BY <2>1 DEF IsCleared
  <1>7. ShapeInv' /\ run'[r] = rec /\ \A q \in Runs : q # r => run'[q] = run[q]
    BY <1>inv, <1>5, <1>6, ShapeKept
  <1>will. \A o \in Series : WillCategorise(run[r], o) => o = s /\ run[r].categories
    BY <1>1 DEF WillCategorise
  <1> HIDE DEF s
  <1>8. /\ seriesRow' \in [Series -> {"absent", "bare", "categorised"}]
        /\ \A o \in Series : o # s => seriesRow'[o] = seriesRow[o]
        /\ SeriesOnRow \subseteq SeriesOnRow'
    <2>1. CASE seriesRow' = seriesRow
      BY <1>inv, <2>1 DEF GroundInv, SeriesOnRow
    <2>2. CASE seriesRow' = [seriesRow EXCEPT ![s] = "categorised"]
      <3>1. "categorised" \in {"bare", "categorised"}
        OBVIOUS
      <3>2. QED
        BY <1>inv, <1>4, <2>2, <3>1, SeriesRowWritten
    <2>3. QED
      BY <1>2, <2>1, <2>2
  <1>9. GroundInv'
    <2>1. Gain
      BY <1>1, <1>8 DEF Gain
    <2>2. /\ \A o \in rec.events : SeriesOf[o] \in SeriesOnRow'
          /\ \A o \in rec.markets : EventOf[o] \in eventRow'
      BY <1>6
    <2>3. rec.found \subseteq marketRow' /\ rec.tokens \subseteq marketRow'
      BY <1>ty, <1>1, <1>6 DEF Grounded
    <2>4. /\ eventRow' \subseteq Events /\ marketRow' \subseteq Markets
          /\ devTokens' \in Seq(marketRow')
          /\ \A m \in marketRow' : EventOf[m] \in eventRow'
          /\ \A e \in eventRow' : SeriesOf[e] \in SeriesOnRow'
      BY <1>inv, <1>1, <1>8 DEF GroundInv
    <2>5. QED
      BY <1>inv, <1>5, <1>8, <2>1, <2>2, <2>3, <2>4, GroundKept
  <1>10. BareInv'
    <2>1. ASSUME NEW o \in Series, seriesRow'[o] = "bare"
          PROVE  o \in cut' \/ \E q \in Runs : WillCategorise(run'[q], o)
      <3>1. CASE o = s /\ run[r].categories
        <4>1. CASE cut' = cut \cup {s}
          BY <3>1, <4>1
        <4>2. CASE seriesRow' = IF run[r].categories /\ seriesRow[s] = "bare"
                                THEN [seriesRow EXCEPT ![s] = "categorised"] ELSE seriesRow
          <5>1. CASE seriesRow[s] = "bare"
            <6>1. seriesRow' = [seriesRow EXCEPT ![s] = "categorised"]
              BY <3>1, <4>2, <5>1
            <6>2. seriesRow'[s] = "categorised"
              BY <1>inv, <1>4, <6>1 DEF GroundInv
            <6>3. QED
              BY <2>1, <3>1, <6>2
          <5>2. CASE seriesRow[s] # "bare"
            BY <2>1, <3>1, <4>2, <5>2
          <5>3. QED
            BY <5>1, <5>2
        <4>3. QED
          BY <1>2, <4>1, <4>2
      <3>2. CASE ~(o = s /\ run[r].categories)
        <4>1. seriesRow[o] = "bare"
          BY <1>2, <1>8, <2>1, <3>2
        <4>2. o \in cut \/ \E q \in Runs : WillCategorise(run[q], o)
          BY <1>inv, <4>1 DEF BareInv
        <4>3. \A q \in Runs : WillCategorise(run[q], o) => q # r
          BY <1>will, <3>2
        <4>4. cut \subseteq cut'
          BY <1>2
        <4>5. QED
          BY <1>7, <4>2, <4>3, <4>4
      <3>3. QED
        BY <3>1, <3>2
    <2>2. cut' \subseteq Series
      BY <1>ty, <1>2, <1>4
    <2>3. QED
      BY <2>1, <2>2 DEF BareInv
  <1>11. ListInv'
    <2>1. SamePage(rec, run[r])
      BY <1>1, <1>6 DEF SamePage
    <2>2. r \in FullRuns => Covered(rec, behind'[r])
      BY <1>ty, <1>1, <2>1, CoveredKept
    <2>3. QED
      BY <1>ty, <1>inv, <1>1, <1>5, <2>2, ListKept
  <1>12. QED
    BY <1>inv, <1>1, <1>3, <1>7, <1>9, <1>10, <1>11 DEF CatalogueInv

\* What is published are tokens of rows.
LEMMA Published ==
    ASSUME CatalogueInv, NEW r \in Runs, NEW rec, Sets(r, rec), TagInv', r \notin FullRuns,
           UNCHANGED <<devMode, listed, tables, behind, cut>>,
           devTokens' \in Seq(marketRow), run[r].step # "events",
           Shape(rec), Grounded(rec)
    PROVE  CatalogueInv'
  <1>ty. run \in [Runs -> RunRecords] /\ behind \in [FullRuns -> Histories]
         /\ cut \subseteq Series
    BY RunTyped
  <1>inv. ShapeInv /\ GroundInv /\ BareInv /\ ListInv /\ devMode \in BOOLEAN
    BY DEF CatalogueInv
  <1>1. UNCHANGED <<seriesRow, eventRow, marketRow>>
    BY DEF tables
  <1>2. ShapeInv'
    BY <1>inv, ShapeKept
  <1>3. GroundInv'
    <2>1. SeriesOnRow' = SeriesOnRow /\ Gain
      BY <1>1 DEF Gain, SeriesOnRow
    <2>2. /\ \A o \in rec.events : SeriesOf[o] \in SeriesOnRow'
          /\ \A o \in rec.markets : EventOf[o] \in eventRow'
          /\ rec.found \subseteq marketRow' /\ rec.tokens \subseteq marketRow'
      BY <1>1, <2>1 DEF Grounded
    <2>3. /\ eventRow' \subseteq Events /\ marketRow' \subseteq Markets
          /\ seriesRow' \in [Series -> {"absent", "bare", "categorised"}]
          /\ devTokens' \in Seq(marketRow')
          /\ \A m \in marketRow' : EventOf[m] \in eventRow'
          /\ \A e \in eventRow' : SeriesOf[e] \in SeriesOnRow'
      BY <1>inv, <1>1, <2>1 DEF GroundInv
    <2>4. QED
      BY <1>inv, <2>1, <2>2, <2>3, GroundKept
  <1>4. BareInv'
    <2>1. \A s \in Series : ~WillCategorise(run[r], s)
      BY DEF WillCategorise
    <2>2. QED
      BY <1>ty, <1>inv, <1>1, <2>1, BareKept
  <1>5. ListInv'
    BY <1>ty, <1>inv, ListKept
  <1>6. QED
    BY <1>inv, <1>2, <1>3, <1>4, <1>5 DEF CatalogueInv

LEMMA PublishInv ==
    ASSUME CatalogueInv, NEW r \in Runs, Publish(r)
    PROVE  CatalogueInv'
  <1>ty. /\ run \in [Runs -> RunRecords] /\ run[r] \in RunRecords
         /\ Shape(run[r]) /\ Grounded(run[r]) /\ r \notin FullRuns
         /\ run[r].step = "series" /\ run[r].batch = <<>>
    BY RunTyped, CatalogueAssumption DEF Publish
  <1>1. /\ UNCHANGED <<devMode, listed, tables, behind, cut>>
        /\ TagInv'
    BY Aside DEF Publish, tagVars, CatalogueInv
  <1>2. devTokens' \in Seq(marketRow)
    <2>1. run[r].tokens \subseteq marketRow /\ run[r].tokens \subseteq Markets
      BY <1>ty DEF Grounded, RunRecords
    <2>2. IsFiniteSet(run[r].tokens)
      BY <2>1, CatalogueAssumption, FS_Subset
    <2>3. SetToSeq(run[r].tokens) \in Seq(run[r].tokens)
      BY <2>2, SetToSeqType
    <2>4. SetToSeq(run[r].tokens) \in Seq(marketRow)
      BY <2>1, <2>3, SeqMonotonic
    <2>5. QED
      BY <2>4 DEF Publish
  <1>3. CASE run[r].tokens = {}
    <2> DEFINE rec == [run[r] EXCEPT !.step = "fallback"]
    <2>1. Sets(r, rec)
      BY <1>3 DEF Publish, Sets
    <2>2. /\ rec \in RunRecords
          /\ rec.step = "fallback" /\ rec.batch = <<>>
          /\ rec.events = run[r].events /\ rec.tags = run[r].tags
          /\ rec.markets = run[r].markets /\ rec.found = run[r].found
          /\ rec.tokens = run[r].tokens
      BY <1>ty DEF RunRecords
    <2> HIDE DEF rec
    <2>3. Shape(rec) /\ Grounded(rec)
      BY <1>ty, <2>2 DEF Shape, Grounded
    <2>4. QED
      BY <1>ty, <1>1, <1>2, <2>1, <2>3, Published
  <1>4. CASE run[r].tokens # {}
    <2>1. Sets(r, Idle)
      BY <1>4 DEF Publish, Sets
    <2>2. QED
      BY <1>ty, <1>1, <1>2, <2>1, IdleShape, Published
  <1>5. QED
    BY <1>3, <1>4

\* The tokens of the table are those of markets whose outcomes were attempted.
LEMMA Loaded ==
    ASSUME OutcomeInv, NEW r \in Runs, Fallback(r)
    PROVE  devTokens' \in Seq(Attempted)
  <1> DEFINE rows == {m \in Markets : outcomeRow[m] = "rows"}
  <1>1. devTokens \in Seq(Attempted) /\ rows \subseteq Attempted /\ rows \subseteq Markets
    BY DEF OutcomeInv, Attempted
  <1>2. devTokens' = devTokens \o SetToSeq(rows) \/ devTokens' = devTokens
    BY DEF Fallback
  <1> HIDE DEF rows
  <1>3. IsFiniteSet(rows)
    BY <1>1, CatalogueAssumption, FS_Subset
  <1>4. SetToSeq(rows) \in Seq(rows)
    BY <1>3, SetToSeqType
  <1>5. SetToSeq(rows) \in Seq(Attempted)
    BY <1>1, <1>4, SeqMonotonic
  <1>6. devTokens \o SetToSeq(rows) \in Seq(Attempted)
    BY <1>1, <1>5, ConcatProperties
  <1>7. QED
    BY <1>1, <1>2, <1>6

LEMMA FallbackInv ==
    ASSUME CatalogueInv, OutcomeInv, NEW r \in Runs, Fallback(r)
    PROVE  CatalogueInv'
  <1>1. run[r].step = "fallback" /\ r \notin FullRuns
    BY RunTyped DEF Fallback
  <1>2. UNCHANGED <<devMode, listed, tables, behind, cut>> /\ Sets(r, Idle)
    BY DEF Fallback, Sets
  <1>3. TagInv'
    BY Aside DEF Fallback, Mishap, CatalogueInv
  <1>4. devTokens' \in Seq(marketRow)
    <2>1. Attempted \subseteq marketRow
      BY DEF OutcomeInv
    <2>2. QED
      BY <2>1, Loaded, SeqMonotonic
  <1>5. QED
    BY <1>1, <1>2, <1>3, <1>4, IdleShape, Published

-----------------------------------------------------------------------------
(* Polymarket's list changes; the tag sync.                                 *)

LEMMA NotTheRuns ==
    ASSUME CatalogueInv, UNCHANGED <<devMode, tables, devTokens, run, cut>>,
           TagInv', ListInv'
    PROVE  CatalogueInv'
  <1>inv. ShapeInv /\ GroundInv /\ BareInv /\ devMode \in BOOLEAN
    BY DEF CatalogueInv
  <1>1. UNCHANGED <<seriesRow, eventRow, marketRow, devTokens, run, cut>>
    BY DEF tables
  <1>2. ShapeInv'
    BY <1>inv, <1>1 DEF ShapeInv
  <1>3. GroundInv'
    BY <1>inv, <1>1 DEF GroundInv, Grounded, SeriesOnRow
  <1>4. BareInv'
    BY <1>inv, <1>1 DEF BareInv
  <1>5. QED
    BY <1>inv, <1>2, <1>3, <1>4 DEF CatalogueInv

LEMMA SeriesEndsInv ==
    ASSUME CatalogueInv, NEW s \in Series, SeriesEnds(s)
    PROVE  CatalogueInv'
  <1>inv. /\ ListInv /\ TagInv /\ run \in [Runs -> RunRecords]
          /\ listed \in Seq(Series) /\ IsInjective(listed)
          /\ behind \in [FullRuns -> Histories]
    BY DEF CatalogueInv, ListInv, ShapeInv
  <1>1. PICK i \in DOMAIN listed : listed[i] = s /\ listed' = RemoveAt(listed, i)
    BY DEF SeriesEnds
  <1>2. i \in 1..Len(listed)
    BY <1>inv, LenProperties
  <1> DEFINE slid(r) == Before(listed', run[r].offset) \ Before(listed, run[r].offset)
  <1>3. behind' = [r \in FullRuns |->
                    [behind[r] EXCEPT !.stayed = @ \ {s}, !.slid = @ \cup slid(r)]]
    BY DEF SeriesEnds
  <1>4. UNCHANGED <<devMode, tables, devTokens, run, cut>>
    BY DEF SeriesEnds
  <1>5. TagInv'
    BY <1>inv, Aside DEF SeriesEnds, Mishap
  <1>6. ASSUME NEW n \in Nat
        PROVE  /\ listed' \in Seq(Series) /\ IsInjective(listed')
               /\ ToSet(listed) \ {s} \subseteq ToSet(listed')
               /\ Before(listed, n) \ {s} \subseteq Before(listed', n)
    BY <1>inv, <1>1, <1>2, ListShrinks
  <1>7. listed' \in Seq(Series) /\ IsInjective(listed')
    <2>1. 0 \in Nat
      OBVIOUS
    <2>2. QED
      BY <1>6, <2>1
  <1>8. ASSUME NEW n \in Nat
        PROVE  Before(listed', n) \subseteq Series
    <2> SUFFICES ASSUME NEW o, o \in Before(listed', n) PROVE o \in Series
      OBVIOUS
    <2>1. PICK j \in 1..Len(listed') : listed'[j] = o
      BY <1>7, InSeq
    <2>2. QED
      BY <1>7, <2>1, ElementOfSeq
  <1>9. ASSUME NEW r \in FullRuns
        PROVE  /\ behind'[r] \in Histories
               /\ Covered(run[r], behind[r])'
    <2> DEFINE n == run[r].offset
               more == slid(r)
               b == [behind[r] EXCEPT !.stayed = @ \ {s}, !.slid = @ \cup more]
    <2>1. n \in Nat /\ behind[r] \in Histories /\ Covered(run[r], behind[r])
      BY <1>inv DEF RunRecords, Runs, ListInv
    <2>2. more = Before(listed', n) \ Before(listed, n) /\ more \subseteq Series
      BY <1>8, <2>1
    <2>3. behind'[r] = b
      BY <1>3
    <2> HIDE DEF n, more
    <2>4. /\ b \in Histories
          /\ b.stayed = behind[r].stayed \ {s}
          /\ b.seen = behind[r].seen /\ b.slid = behind[r].slid \cup more
      BY <2>1, <2>2 DEF Histories
    <2> HIDE DEF b
    <2>5. /\ ToSet(listed) \ {s} \subseteq ToSet(listed')
          /\ Before(listed, n) \ {s} \subseteq Before(listed', n)
      BY <1>6, <2>1
    <2>6. ASSUME run[r].step # "idle"
          PROVE  /\ b.stayed \subseteq ToSet(listed')
                 /\ b.stayed \cap Before(listed', n) \subseteq b.seen \cup b.slid
                 /\ run[r].step \in {"series", "events"} /\ run[r].short
                        => b.stayed \subseteq Before(listed', n)
      <3>1. /\ behind[r].stayed \subseteq ToSet(listed)
            /\ behind[r].stayed \cap Before(listed, n)
                    \subseteq behind[r].seen \cup behind[r].slid
            /\ run[r].step \in {"series", "events"} /\ run[r].short
                    => behind[r].stayed \subseteq Before(listed, n)
        BY <2>1, <2>6 DEF Covered, n
      <3>2. b.stayed \subseteq ToSet(listed')
        BY <2>4, <2>5, <3>1
      <3>3. b.stayed \cap Before(listed', n) \subseteq b.seen \cup b.slid
        BY <2>2, <2>4, <3>1
      <3>4. run[r].step \in {"series", "events"} /\ run[r].short
                => b.stayed \subseteq Before(listed', n)
        BY <2>4, <2>5, <3>1
      <3>5. QED
        BY <3>2, <3>3, <3>4
    <2>7. Covered(run[r], behind[r])'
      BY <1>4, <2>3, <2>6 DEF Covered, n
    <2>8. QED
      BY <2>3, <2>4, <2>7
  <1>10. behind' \in [FullRuns -> Histories]
    BY <1>3, <1>9
  <1>11. ListInv'
    BY <1>7, <1>9, <1>10 DEF ListInv
  <1>12. QED
    BY <1>4, <1>5, <1>11, NotTheRuns

LEMMA SeriesStartsInv ==
    ASSUME CatalogueInv, NEW s \in Series, SeriesStarts(s)
    PROVE  CatalogueInv'
  <1>inv. /\ ListInv /\ TagInv /\ run \in [Runs -> RunRecords]
          /\ listed \in Seq(Series) /\ IsInjective(listed)
          /\ behind \in [FullRuns -> Histories]
    BY DEF CatalogueInv, ListInv, ShapeInv
  <1>1. /\ s \notin ToSet(listed) /\ listed' = Append(listed, s)
        /\ UNCHANGED <<devMode, tables, devTokens, run, behind, cut>>
    BY DEF SeriesStarts
  <1>2. TagInv'
    BY <1>inv, Aside DEF SeriesStarts, Mishap
  <1>3. ASSUME NEW n \in Nat
        PROVE  /\ listed' \in Seq(Series) /\ IsInjective(listed')
               /\ ToSet(listed) \subseteq ToSet(listed')
               /\ Before(listed, n) \subseteq Before(listed', n)
               /\ Before(listed', n) \subseteq Before(listed, n) \cup {s}
    BY <1>inv, <1>1, ListGrows
  <1>4. listed' \in Seq(Series) /\ IsInjective(listed')
    <2>1. 0 \in Nat
      OBVIOUS
    <2>2. QED
      BY <1>3, <2>1
  <1>5. ASSUME NEW r \in FullRuns
        PROVE  Covered(run[r], behind[r])'
    <2> DEFINE n == run[r].offset
    <2>1. n \in Nat /\ Covered(run[r], behind[r])
      BY <1>inv DEF RunRecords, Runs, ListInv
    <2> HIDE DEF n
    <2>2. /\ ToSet(listed) \subseteq ToSet(listed')
          /\ Before(listed, n) \subseteq Before(listed', n)
          /\ Before(listed', n) \subseteq Before(listed, n) \cup {s}
      BY <1>3, <2>1
    <2>3. QED
      BY <1>1, <2>1, <2>2 DEF Covered, n
  <1>6. ListInv'
    BY <1>inv, <1>1, <1>4, <1>5 DEF ListInv
  <1>7. QED
    BY <1>1, <1>2, <1>6, NotTheRuns

LEMMA ListUnchanged ==
    ASSUME CatalogueInv, UNCHANGED <<listed, run, behind>>
    PROVE  ListInv'
  BY DEF CatalogueInv, ListInv, Covered

LEMMA UpsertOutcomesInv ==
    ASSUME CatalogueInv, NEW r \in Runs, NEW m \in Markets, UpsertOutcomes(r, m)
    PROVE  CatalogueInv'
  <1>1. TagInv'
    BY Aside DEF UpsertOutcomes, Mishap, CatalogueInv
  <1>2. UNCHANGED <<devMode, listed, tables, devTokens, run, behind, cut>>
    BY DEF UpsertOutcomes
  <1>3. QED
    BY <1>1, <1>2, ListUnchanged, NotTheRuns

LEMMA TagSyncStepInv ==
    ASSUME CatalogueInv, TagSync
    PROVE  CatalogueInv'
  <1>1. TagInv'
    BY ListTagsInv, TagSyncInv DEF TagSync, CatalogueInv
  <1>2. UNCHANGED <<devMode, listed, tables, devTokens, run, behind, cut>>
    BY DEF TagSync
  <1>3. QED
    BY <1>1, <1>2, ListUnchanged, NotTheRuns

LEMMA StutterInv ==
    ASSUME CatalogueInv, UNCHANGED vars
    PROVE  CatalogueInv'
  <1>1. /\ UNCHANGED <<devMode, listed, tables, devTokens, run, behind, cut>>
        /\ UNCHANGED tagState /\ UNCHANGED mishaps
    BY DEF vars, tagVars
  <1>2. TagInv'
    BY <1>1, Aside DEF CatalogueInv
  <1>3. QED
    BY <1>1, <1>2, ListUnchanged, NotTheRuns

-----------------------------------------------------------------------------
(* The outcomes.                                                            *)

\* What a step of one run must keep to.
LEMMA OutcomeStep ==
    ASSUME CatalogueInv, OutcomeInv, NEW r \in Runs, NEW rec, Sets(r, rec),
           outcomeRow' \in [Markets -> {"none", "lost", "rows"}],
           pending' \in [Runs -> SUBSET Markets],
           Attempted \subseteq Attempted', Attempted' \subseteq marketRow',
           marketRow \subseteq marketRow', marketRow' \subseteq marketRow \cup pending'[r],
           \A q \in Runs : q # r => pending'[q] = pending[q],
           pending'[r] \subseteq marketRow', pending[r] \subseteq pending'[r] \cup Attempted',
           devTokens' \in Seq(Attempted'),
           rec.tokens \subseteq Attempted', rec.found \subseteq Attempted' \cup pending'[r]
    PROVE  OutcomeInv'
  <1>1. run'[r] = rec /\ \A q \in Runs : q # r => run'[q] = run[q]
    BY RunTyped DEF Sets
  <1>2. ASSUME NEW m \in marketRow'
        PROVE  m \in Attempted' \/ \E q \in Runs : m \in pending'[q]
    <2>1. CASE m \in marketRow
      <3>1. m \in Attempted \/ \E q \in Runs : m \in pending[q]
        BY <2>1 DEF OutcomeInv
      <3>2. \A q \in Runs : m \in pending[q] => m \in pending'[q] \/ m \in Attempted'
        OBVIOUS
      <3>3. QED
        BY <3>1, <3>2
    <2>2. CASE m \notin marketRow
      BY <2>2
    <2>3. QED
      BY <2>1, <2>2
  <1>3. ASSUME NEW q \in Runs
        PROVE  /\ pending'[q] \subseteq marketRow'
               /\ run'[q].tokens \subseteq Attempted'
               /\ run'[q].found \subseteq Attempted' \cup pending'[q]
    <2>1. CASE q = r
      BY <1>1, <2>1
    <2>2. CASE q # r
      BY <1>1, <2>2 DEF OutcomeInv
    <2>3. QED
      BY <2>1, <2>2
  <1>4. QED
    BY <1>2, <1>3 DEF OutcomeInv

LEMMA AttemptedKept ==
    ASSUME UNCHANGED outcomes
    PROVE  /\ outcomeRow' = outcomeRow /\ pending' = pending
           /\ Attempted' = Attempted
  BY DEF outcomes, Attempted

\* A step that writes neither a market row nor outcomes.
LEMMA OutcomesAside ==
    ASSUME CatalogueInv, OutcomeInv, NEW r \in Runs, NEW rec, Sets(r, rec),
           UNCHANGED <<marketRow, outcomes>>, devTokens' \in Seq(Attempted),
           rec.tokens \subseteq Attempted, rec.found \subseteq Attempted \cup pending[r]
    PROVE  OutcomeInv'
  <1>1. /\ outcomeRow' = outcomeRow /\ pending' = pending
        /\ Attempted' = Attempted /\ marketRow' = marketRow
    BY AttemptedKept
  <1>2. /\ outcomeRow \in [Markets -> {"none", "lost", "rows"}]
        /\ pending \in [Runs -> SUBSET Markets]
        /\ Attempted \subseteq marketRow /\ pending[r] \subseteq marketRow
    BY DEF OutcomeInv
  <1>3. QED
    BY <1>1, <1>2, OutcomeStep

\* A step by which the run collects no token.
Collects(rec, old) == rec.tokens \subseteq old.tokens /\ rec.found \subseteq old.found

LEMMA CollectsNone ==
    ASSUME CatalogueInv, OutcomeInv, NEW r \in Runs, NEW rec, Sets(r, rec),
           Collects(rec, run[r]), UNCHANGED <<marketRow, outcomes, devTokens>>
    PROVE  OutcomeInv'
  <1>1. /\ devTokens' \in Seq(Attempted)
        /\ rec.tokens \subseteq Attempted /\ rec.found \subseteq Attempted \cup pending[r]
    BY DEF OutcomeInv, Collects
  <1>2. QED
    BY <1>1, OutcomesAside

LEMMA IdleCollects ==
    /\ \A old : Collects(Idle, old)
    /\ Idle.tokens = {} /\ Idle.found = {}
  BY DEF Idle, Collects

\* The statement fails, or is not reached.
LEMMA DropOutcomesInv ==
    ASSUME CatalogueInv, OutcomeInv, NEW r \in Runs, NEW rec, Sets(r, rec),
           Collects(rec, run[r]), DropOutcomes(r), UNCHANGED <<marketRow, devTokens>>
    PROVE  OutcomeInv'
  <1>1. /\ outcomeRow \in [Markets -> {"none", "lost", "rows"}]
        /\ pending \in [Runs -> SUBSET Markets]
        /\ Attempted \subseteq marketRow /\ pending[r] \subseteq marketRow
        /\ devTokens \in Seq(Attempted)
        /\ rec.tokens \subseteq Attempted /\ rec.found \subseteq Attempted \cup pending[r]
    BY DEF OutcomeInv, Collects
  <1>2. /\ outcomeRow' \in [Markets -> {"none", "lost", "rows"}]
        /\ \A m \in Markets : outcomeRow'[m] = IF m \in pending[r] /\ outcomeRow[m] = "none"
                                               THEN "lost" ELSE outcomeRow[m]
    BY <1>1 DEF DropOutcomes
  <1>3. /\ pending' \in [Runs -> SUBSET Markets]
        /\ pending'[r] = {} /\ \A q \in Runs : q # r => pending'[q] = pending[q]
    BY <1>1 DEF DropOutcomes
  <1>4. Attempted' = Attempted \cup pending[r]
    <2>1. pending[r] \subseteq Markets
      BY <1>1
    <2>2. \A m \in Markets : outcomeRow'[m] # "none" <=> outcomeRow[m] # "none" \/ m \in pending[r]
      BY <1>2
    <2>3. QED
      BY <2>1, <2>2 DEF Attempted
  <1>5. devTokens' \in Seq(Attempted')
    BY <1>1, <1>4, SeqMonotonic
  <1>6. marketRow' = marketRow
    OBVIOUS
  <1>7. QED
    BY <1>1, <1>2, <1>3, <1>4, <1>5, <1>6, OutcomeStep

LEMMA PagesCollectNone ==
    ASSUME CatalogueInv, OutcomeInv, NEW r \in Runs,
           \/ StartSync(r) \/ FetchPage(r) \/ FetchCandidates(r) \/ FetchPageFails(r)
           \/ NextPage(r)
    PROVE  OutcomeInv'
  <1>1. run[r] \in RunRecords
    BY RunTyped
  <1>2. UNCHANGED <<marketRow, outcomes, devTokens>>
    BY DEF StartSync, FetchPage, FetchCandidates, FetchPageFails, NextPage, tables
  <1>3. \E rec : Sets(r, rec) /\ Collects(rec, run[r])
    <2>1. CASE StartSync(r)
      <3>1. Sets(r, [run[r] EXCEPT !.step = "page"])
        BY <2>1 DEF StartSync, Sets
      <3>2. QED
        BY <1>1, <3>1 DEF Collects, RunRecords
    <2>2. CASE FetchPage(r)
      <3> DEFINE from == run[r].offset
                 data == SubSeq(listed, from + 1, Lesser(from + PageSize, Len(listed)))
                 rec == [run[r] EXCEPT !.step = "series", !.batch = data,
                             !.short = Len(data) < PageSize, !.offset = from + PageSize]
      <3>1. Sets(r, Idle) \/ Sets(r, rec)
        BY <2>2 DEF FetchPage, Sets
      <3> HIDE DEF data, from
      <3>2. rec.tokens = run[r].tokens /\ rec.found = run[r].found
        BY <1>1 DEF RunRecords
      <3> HIDE DEF rec
      <3>3. Collects(rec, run[r])
        BY <3>2 DEF Collects
      <3>4. QED
        BY <3>1, <3>3, IdleCollects
    <2>3. CASE FetchCandidates(r)
      <3> DEFINE picks == SelectDiverse(listed, Bucket, Volume, MaxTotal, MaxPerBucket)
                 rec == [run[r] EXCEPT !.step = "series", !.short = TRUE, !.batch = picks]
      <3>1. Sets(r, Idle) \/ Sets(r, rec)
        BY <2>3 DEF FetchCandidates, Sets
      <3> HIDE DEF picks
      <3>2. rec.tokens = run[r].tokens /\ rec.found = run[r].found
        BY <1>1 DEF RunRecords
      <3> HIDE DEF rec
      <3>3. Collects(rec, run[r])
        BY <3>2 DEF Collects
      <3>4. QED
        BY <3>1, <3>3, IdleCollects
    <2>4. CASE FetchPageFails(r)
      <3>1. Sets(r, Idle)
        BY <2>4 DEF FetchPageFails, Sets
      <3>2. QED
        BY <3>1, IdleCollects
    <2>5. CASE NextPage(r)
      <3>1. Sets(r, Idle) \/ Sets(r, [run[r] EXCEPT !.step = "page"])
        BY <2>5 DEF NextPage, Sets
      <3>2. QED
        BY <1>1, <3>1, IdleCollects DEF Collects, RunRecords
    <2>6. QED
      BY <2>1, <2>2, <2>3, <2>4, <2>5
  <1>4. QED
    BY <1>2, <1>3, CollectsNone

LEMMA RowsCollectNone ==
    ASSUME CatalogueInv, OutcomeInv, NEW r \in Runs,
           \/ \E E \in SUBSET Events : UpsertSeries(r, E)
           \/ \E e \in Events : SkipEvent(r, e)
           \/ \E e \in Events : \E M \in {{}, MarketsIn(e)} : UpsertEvent(r, e, M)
           \/ \E t \in Tags : UpsertEventTag(r, t) \/ SkipEventTag(r, t)
           \/ \E m \in Markets : SkipMarket(r, m)
    PROVE  OutcomeInv'
  <1>1. run[r] \in RunRecords
    BY RunTyped
  <1>2. UNCHANGED <<marketRow, outcomes, devTokens>>
    BY DEF UpsertSeries, SkipEvent, UpsertEvent, UpsertEventTag, SkipEventTag, SkipMarket,
           tables
  <1>3. \E rec : Sets(r, rec) /\ Collects(rec, run[r])
    <2>1. ASSUME NEW E \in SUBSET Events, UpsertSeries(r, E)
          PROVE  \E rec : Sets(r, rec) /\ Collects(rec, run[r])
      <3> DEFINE rec == [run[r] EXCEPT !.step = "events", !.events = E]
      <3>1. Sets(r, rec)
        BY <2>1 DEF UpsertSeries, Sets
      <3>2. rec.tokens = run[r].tokens /\ rec.found = run[r].found
        BY <1>1 DEF RunRecords
      <3> HIDE DEF rec
      <3>3. QED
        BY <3>1, <3>2 DEF Collects
    <2>2. ASSUME NEW e \in Events, SkipEvent(r, e)
          PROVE  \E rec : Sets(r, rec) /\ Collects(rec, run[r])
      <3> DEFINE rec == [run[r] EXCEPT !.events = @ \ {e}]
      <3>1. Sets(r, rec)
        BY <2>2 DEF SkipEvent, Sets
      <3>2. rec.tokens = run[r].tokens /\ rec.found = run[r].found
        BY <1>1 DEF RunRecords
      <3> HIDE DEF rec
      <3>3. QED
        BY <3>1, <3>2 DEF Collects
    <2>3. ASSUME NEW e \in Events, NEW M \in {{}, MarketsIn(e)}, UpsertEvent(r, e, M)
          PROVE  \E rec : Sets(r, rec) /\ Collects(rec, run[r])
      <3> DEFINE rec == [run[r] EXCEPT !.events = @ \ {e}, !.tags = TagsOf[e],
                                       !.markets = M, !.categories = @ \/ TagsOf[e] # {}]
      <3>1. Sets(r, rec)
        BY <2>3 DEF UpsertEvent, Sets
      <3>2. rec.tokens = run[r].tokens /\ rec.found = run[r].found
        BY <1>1 DEF RunRecords
      <3> HIDE DEF rec
      <3>3. QED
        BY <3>1, <3>2 DEF Collects
    <2>4. ASSUME NEW t \in Tags, UpsertEventTag(r, t) \/ SkipEventTag(r, t)
          PROVE  \E rec : Sets(r, rec) /\ Collects(rec, run[r])
      <3> DEFINE rec == [run[r] EXCEPT !.tags = @ \ {t}]
      <3>1. Sets(r, rec)
        BY <2>4 DEF UpsertEventTag, SkipEventTag, Sets
      <3>2. rec.tokens = run[r].tokens /\ rec.found = run[r].found
        BY <1>1 DEF RunRecords
      <3> HIDE DEF rec
      <3>3. QED
        BY <3>1, <3>2 DEF Collects
    <2>5. ASSUME NEW m \in Markets, SkipMarket(r, m)
          PROVE  \E rec : Sets(r, rec) /\ Collects(rec, run[r])
      <3> DEFINE rec == [run[r] EXCEPT !.markets = @ \ {m}]
      <3>1. Sets(r, rec)
        BY <2>5 DEF SkipMarket, Sets
      <3>2. rec.tokens = run[r].tokens /\ rec.found = run[r].found
        BY <1>1 DEF RunRecords
      <3> HIDE DEF rec
      <3>3. QED
        BY <3>1, <3>2 DEF Collects
    <2>6. QED
      BY <2>1, <2>2, <2>3, <2>4, <2>5
  <1>4. QED
    BY <1>2, <1>3, CollectsNone

LEMMA CutOffOutcomes ==
    ASSUME CatalogueInv, OutcomeInv, NEW r \in Runs, SkipSeries(r) \/ RunDies(r)
    PROVE  OutcomeInv'
  <1>1. DropOutcomes(r) /\ UNCHANGED <<marketRow, devTokens>>
    BY DEF SkipSeries, RunDies, tables
  <1>2. \E rec : Sets(r, rec) /\ Collects(rec, run[r])
    <2>1. CASE SkipSeries(r)
      <3>1. PICK rec : Sets(r, rec) /\ IsLeft(rec, run[r], {})
        BY <2>1, LeaveSets DEF SkipSeries
      <3>2. IsCleared(rec, run[r], {})
        BY <2>1, <3>1, LeftShape, RunTyped DEF SkipSeries
      <3>3. QED
        BY <3>1, <3>2 DEF IsCleared, Collects
    <2>2. CASE RunDies(r)
      <3>1. Sets(r, Idle)
        BY <2>2 DEF RunDies, Sets
      <3>2. QED
        BY <3>1, IdleCollects
    <2>3. QED
      BY <2>1, <2>2
  <1>3. QED
    BY <1>1, <1>2, DropOutcomesInv

LEMMA MarketCollected ==
    ASSUME CatalogueInv, OutcomeInv, NEW r \in Runs, NEW m \in Markets, UpsertMarket(r, m)
    PROVE  OutcomeInv'
  <1>1. /\ outcomeRow \in [Markets -> {"none", "lost", "rows"}]
        /\ pending \in [Runs -> SUBSET Markets]
        /\ Attempted \subseteq marketRow
        /\ devTokens \in Seq(Attempted)
        /\ run[r].tokens \subseteq Attempted
        /\ run[r].found \subseteq Attempted \cup pending[r]
        /\ run[r] \in RunRecords
    BY RunTyped DEF OutcomeInv
  <1>2. /\ pending[r] = {} /\ marketRow' = marketRow \cup {m}
        /\ outcomeRow' = outcomeRow /\ devTokens' = devTokens
        /\ pending' = [pending EXCEPT ![r] = {m}]
    BY DEF UpsertMarket
  <1>3. /\ pending' \in [Runs -> SUBSET Markets]
        /\ pending'[r] = {m} /\ \A q \in Runs : q # r => pending'[q] = pending[q]
    BY <1>1, <1>2
  <1>4. Attempted' = Attempted
    BY <1>2 DEF Attempted
  <1> DEFINE got == IF r \in DevRuns THEN run[r].found \cup {m} ELSE run[r].found
             rec == [run[r] EXCEPT !.markets = @ \ {m}, !.found = got]
  <1>5. Sets(r, rec) /\ got \subseteq run[r].found \cup {m}
    BY <1>1 DEF UpsertMarket, Sets, RunRecords
  <1> HIDE DEF got
  <1>6. rec.tokens = run[r].tokens /\ rec.found = got
    BY <1>1 DEF RunRecords
  <1> HIDE DEF rec
  <1>7. /\ rec.tokens \subseteq Attempted'
        /\ rec.found \subseteq Attempted' \cup pending'[r]
    BY <1>1, <1>2, <1>3, <1>4, <1>5, <1>6
  <1>8. QED
    BY <1>1, <1>2, <1>3, <1>4, <1>5, <1>7, OutcomeStep

LEMMA OutcomesWritten ==
    ASSUME CatalogueInv, OutcomeInv, NEW r \in Runs, NEW m \in Markets, UpsertOutcomes(r, m)
    PROVE  OutcomeInv'
  <1>1. Sets(r, run[r]) /\ Collects(run[r], run[r])
    BY Stays DEF UpsertOutcomes, Collects
  <1>2. UNCHANGED <<marketRow, devTokens>>
    BY DEF UpsertOutcomes, tables
  <1>3. CASE DropOutcomes(r)
    BY <1>1, <1>2, <1>3, DropOutcomesInv
  <1>4. CASE /\ outcomeRow' = [outcomeRow EXCEPT ![m] = "rows"]
             /\ pending' = [pending EXCEPT ![r] = @ \ {m}]
    <2>1. /\ outcomeRow \in [Markets -> {"none", "lost", "rows"}]
          /\ pending \in [Runs -> SUBSET Markets]
          /\ Attempted \subseteq marketRow /\ pending[r] \subseteq marketRow
          /\ devTokens \in Seq(Attempted) /\ m \in pending[r]
          /\ run[r].tokens \subseteq Attempted
          /\ run[r].found \subseteq Attempted \cup pending[r]
      BY DEF OutcomeInv, UpsertOutcomes
    <2>2. /\ outcomeRow' \in [Markets -> {"none", "lost", "rows"}]
          /\ outcomeRow'[m] = "rows"
          /\ \A o \in Markets : o # m => outcomeRow'[o] = outcomeRow[o]
      BY <1>4, <2>1
    <2>3. /\ pending' \in [Runs -> SUBSET Markets]
          /\ pending'[r] = pending[r] \ {m}
          /\ \A q \in Runs : q # r => pending'[q] = pending[q]
      BY <1>4, <2>1
    <2>4. Attempted' = Attempted \cup {m}
      BY <2>2 DEF Attempted
    <2>5. devTokens' \in Seq(Attempted')
      BY <1>2, <2>1, <2>4, SeqMonotonic
    <2>6. marketRow' = marketRow
      BY <1>2
    <2>7. QED
      BY <1>1, <2>1, <2>2, <2>3, <2>4, <2>5, <2>6, OutcomeStep
  <1>5. QED
    BY <1>3, <1>4 DEF UpsertOutcomes

\* The tokens a series gave are kept; what the run kept is published.
LEMMA TokensKept ==
    ASSUME CatalogueInv, OutcomeInv, NEW r \in Runs,
           BackFill(r) \/ Publish(r) \/ Fallback(r)
    PROVE  OutcomeInv'
  <1>1. /\ run[r] \in RunRecords /\ Shape(run[r]) /\ run[r].tokens \subseteq Attempted
        /\ run[r].found \subseteq Attempted \cup pending[r]
        /\ devTokens \in Seq(Attempted)
    BY RunTyped DEF OutcomeInv
  <1>2. UNCHANGED <<marketRow, outcomes>>
    BY DEF BackFill, Publish, Fallback, tables
  <1>3. CASE BackFill(r)
    <2>1. /\ pending[r] = {} /\ devTokens' = devTokens /\ run[r].batch # <<>>
          /\ run[r].found \subseteq Markets
      BY <1>1, <1>3 DEF BackFill, Shape, RunRecords
    <2>2. PICK rec : Sets(r, rec) /\ IsLeft(rec, run[r], run[r].found)
      BY <1>3, LeaveSets DEF BackFill
    <2>3. rec.tokens = run[r].tokens \cup run[r].found /\ rec.found = {}
      <3>1. IsCleared(rec, run[r], run[r].found)
        BY <1>1, <2>1, <2>2, LeftShape
      <3>2. QED
        BY <3>1 DEF IsCleared
    <2>4. QED
      BY <1>1, <1>2, <2>1, <2>2, <2>3, OutcomesAside
  <1>4. CASE Publish(r)
    <2>1. devTokens' \in Seq(Attempted)
      <3>1. IsFiniteSet(run[r].tokens)
        BY <1>1, CatalogueAssumption, FS_Subset DEF RunRecords
      <3>2. SetToSeq(run[r].tokens) \in Seq(run[r].tokens)
        BY <3>1, SetToSeqType
      <3>3. SetToSeq(run[r].tokens) \in Seq(Attempted)
        BY <1>1, <3>2, SeqMonotonic
      <3>4. QED
        BY <1>4, <3>3 DEF Publish
    <2>2. PICK rec : Sets(r, rec) /\ Collects(rec, run[r])
      <3>1. Sets(r, Idle) \/ Sets(r, [run[r] EXCEPT !.step = "fallback"])
        BY <1>4 DEF Publish, Sets
      <3>2. QED
        BY <1>1, <3>1, IdleCollects DEF Collects, RunRecords
    <2>3. QED
      BY <1>1, <1>2, <2>1, <2>2, OutcomesAside DEF Collects
  <1>5. CASE Fallback(r)
    <2>1. Sets(r, Idle)
      BY <1>5 DEF Fallback, Sets
    <2>2. QED
      BY <1>2, <1>5, <2>1, Loaded, IdleCollects, OutcomesAside
  <1>6. QED
    BY <1>3, <1>4, <1>5

LEMMA OutcomesUntouched ==
    ASSUME OutcomeInv, UNCHANGED <<tables, outcomes, devTokens, run>>
    PROVE  OutcomeInv'
  <1>1. UNCHANGED <<marketRow, outcomeRow, pending, devTokens, run>>
    BY DEF tables, outcomes
  <1>2. QED
    BY <1>1 DEF OutcomeInv, Attempted

LEMMA OutcomeInvInit == Init => OutcomeInv
  <1> SUFFICES ASSUME Init PROVE OutcomeInv
    OBVIOUS
  <1>1. /\ outcomeRow = [m \in Markets |-> "none"] /\ pending = [r \in Runs |-> {}]
        /\ marketRow = {} /\ devTokens = <<>> /\ \A r \in Runs : run[r] = Idle
    BY DEF Init
  <1>2. Attempted = {}
    BY <1>1 DEF Attempted
  <1>3. devTokens \in Seq(Attempted)
    BY <1>1, EmptySeq
  <1>4. \A r \in Runs : run[r].tokens = {} /\ run[r].found = {}
    BY <1>1, IdleCollects
  <1>5. QED
    BY <1>1, <1>2, <1>3, <1>4 DEF OutcomeInv

LEMMA OutcomeInvNext ==
    ASSUME CatalogueInv, OutcomeInv, [Next]_vars
    PROVE  OutcomeInv'
  <1>1. ASSUME NEW r \in Runs, CatalogueProceeds(r)
        PROVE  OutcomeInv'
    BY <1>1, PagesCollectNone, RowsCollectNone, CutOffOutcomes, MarketCollected,
       OutcomesWritten, TokensKept DEF CatalogueProceeds
  <1>2. ASSUME NEW r \in Runs, StartSync(r) \/ RunDies(r)
        PROVE  OutcomeInv'
    BY <1>2, PagesCollectNone, CutOffOutcomes
  <1>3. CASE \/ \E s \in Series : SeriesEnds(s) \/ SeriesStarts(s)
             \/ TagSync \/ UNCHANGED vars
    <2>1. UNCHANGED <<tables, outcomes, devTokens, run>>
      BY <1>3 DEF SeriesEnds, SeriesStarts, TagSync, vars
    <2>2. QED
      BY <2>1, OutcomesUntouched
  <1>4. QED
    BY <1>1, <1>2, <1>3 DEF Next

-----------------------------------------------------------------------------
(* All steps.                                                               *)

LEMMA CatalogueInvInit == Init => CatalogueInv
  <1> SUFFICES ASSUME Init PROVE CatalogueInv
    OBVIOUS
  <1>1. TagInv
    BY TagInvInit DEF Init
  <1>2. \A r \in Runs : run[r] = Idle
    BY DEF Init
  <1>3. ShapeInv
    <2>1. Idle \in RunRecords
      BY IdleShape DEF Shape
    <2>2. run \in [Runs -> RunRecords]
      BY <2>1 DEF Init
    <2>3. QED
      BY <1>2, <2>2, IdleShape DEF ShapeInv, Runs
  <1>4. GroundInv
    <2>1. devTokens \in Seq(marketRow)
      BY EmptySeq DEF Init
    <2>2. QED
      BY <1>2, <2>1, IdleShape DEF GroundInv, Init
  <1>5. BareInv
    BY DEF BareInv, Init
  <1>6. ListInv
    <2>1. PICK S \in SUBSET Series : listed \in SetToSeqs(S)
      BY DEF Init
    <2>2. IsFiniteSet(S)
      BY CatalogueAssumption, FS_Subset
    <2>3. Cardinality(S) \in Nat
      BY <2>2, FS_CardinalityType
    <2>4. /\ listed \in [1..Cardinality(S) -> S]
          /\ \A i, j \in 1..Cardinality(S) : i # j => listed[i] # listed[j]
      BY <2>1 DEF SetToSeqs
    <2>5. listed \in Seq(S)
      BY <2>3, <2>4
    <2>6. listed \in Seq(Series)
      BY <2>5, SeqMonotonic
    <2>7. IsInjective(listed)
      BY <2>4 DEF IsInjective
    <2>8. behind \in [FullRuns -> Histories]
      BY DEF Init, Histories
    <2>9. \A r \in FullRuns : Covered(run[r], behind[r])
      BY <1>2, IdleShape DEF Runs
    <2>10. QED
      BY <2>6, <2>7, <2>8, <2>9 DEF ListInv
  <1>7. QED
    BY <1>1, <1>3, <1>4, <1>5, <1>6 DEF CatalogueInv, Init

LEMMA CatalogueInvNext ==
    ASSUME CatalogueInv, OutcomeInv, [Next]_vars
    PROVE  CatalogueInv'
  <1>1. ASSUME NEW r \in Runs, CatalogueProceeds(r)
        PROVE  CatalogueInv'
    <2>1. CASE FetchPage(r) \/ FetchCandidates(r) \/ FetchPageFails(r)
      BY <2>1, FetchPageInv, FetchCandidatesInv, FetchPageFailsInv
    <2>2. ASSUME NEW E \in SUBSET Events, UpsertSeries(r, E)
          PROVE  CatalogueInv'
      BY <2>2, UpsertSeriesInv
    <2>3. CASE SkipSeries(r)
      BY <2>3, SkipSeriesInv
    <2>4. ASSUME NEW e \in Events, SkipEvent(r, e)
          PROVE  CatalogueInv'
      BY <2>4, SkipEventInv
    <2>5. ASSUME NEW e \in Events, NEW M \in {{}, MarketsIn(e)}, UpsertEvent(r, e, M)
          PROVE  CatalogueInv'
      BY <2>5, UpsertEventInv
    <2>6. ASSUME NEW t \in Tags, UpsertEventTag(r, t) \/ SkipEventTag(r, t)
          PROVE  CatalogueInv'
      BY <2>6, EventTagInv
    <2>7. ASSUME NEW m \in Markets,
                 UpsertMarket(r, m) \/ UpsertOutcomes(r, m) \/ SkipMarket(r, m)
          PROVE  CatalogueInv'
      BY <2>7, UpsertMarketInv, UpsertOutcomesInv, SkipMarketInv
    <2>8. CASE BackFill(r) \/ NextPage(r) \/ Publish(r) \/ Fallback(r)
      BY <2>8, BackFillInv, NextPageInv, PublishInv, FallbackInv
    <2>9. QED
      BY <1>1, <2>1, <2>2, <2>3, <2>4, <2>5, <2>6, <2>7, <2>8 DEF CatalogueProceeds
  <1>2. ASSUME NEW r \in Runs, StartSync(r) \/ RunDies(r)
        PROVE  CatalogueInv'
    BY <1>2, StartSyncInv, RunDiesInv
  <1>3. ASSUME NEW s \in Series, SeriesEnds(s) \/ SeriesStarts(s)
        PROVE  CatalogueInv'
    BY <1>3, SeriesEndsInv, SeriesStartsInv
  <1>4. CASE TagSync
    BY <1>4, TagSyncStepInv
  <1>5. CASE UNCHANGED vars
    BY <1>5, StutterInv
  <1>6. QED
    BY <1>1, <1>2, <1>3, <1>4, <1>5 DEF Next

-----------------------------------------------------------------------------
(* The theorems.                                                            *)

LEMMA TagInvNext ==
    ASSUME TagInv, [Next]_vars
    PROVE  TagInv'
  <1>1. ASSUME NEW r \in Runs, StartSync(r) \/ FetchPage(r) \/ FetchCandidates(r)
        PROVE  TagInv'
    BY <1>1, Aside DEF StartSync, FetchPage, FetchCandidates, tagVars
  <1>2. ASSUME NEW r \in Runs, FetchPageFails(r) \/ SkipSeries(r) \/ RunDies(r)
        PROVE  TagInv'
    BY <1>2, Aside DEF FetchPageFails, SkipSeries, RunDies, Mishap
  <1>3. ASSUME NEW r \in Runs, NEW E \in SUBSET Events, UpsertSeries(r, E)
        PROVE  TagInv'
    BY <1>3, Aside DEF UpsertSeries, Mishap
  <1>4. ASSUME NEW r \in Runs, NEW e \in Events, NEW M,
               SkipEvent(r, e) \/ UpsertEvent(r, e, M)
        PROVE  TagInv'
    BY <1>4, Aside DEF SkipEvent, UpsertEvent, Mishap
  <1>5. ASSUME NEW r \in Runs, NEW t \in Tags, UpsertEventTag(r, t)
        PROVE  TagInv'
    BY <1>5, WriteEventTagInv DEF UpsertEventTag
  <1>6. ASSUME NEW r \in Runs, NEW t \in Tags, SkipEventTag(r, t)
        PROVE  TagInv'
    BY <1>6, Aside DEF SkipEventTag, Mishap
  <1>7. ASSUME NEW r \in Runs, NEW m \in Markets, UpsertMarket(r, m)
        PROVE  TagInv'
    BY <1>7, Aside DEF UpsertMarket, tagVars
  <1>8. ASSUME NEW r \in Runs, NEW m \in Markets,
               SkipMarket(r, m) \/ UpsertOutcomes(r, m)
        PROVE  TagInv'
    BY <1>8, Aside DEF SkipMarket, UpsertOutcomes, Mishap
  <1>9. ASSUME NEW r \in Runs, NextPage(r) \/ Publish(r)
        PROVE  TagInv'
    BY <1>9, Aside DEF NextPage, Publish, tagVars
  <1>10. ASSUME NEW r \in Runs, BackFill(r) \/ Fallback(r)
         PROVE  TagInv'
    BY <1>10, Aside DEF BackFill, Fallback, Mishap
  <1>11. ASSUME NEW s \in Series, SeriesEnds(s) \/ SeriesStarts(s)
         PROVE  TagInv'
    BY <1>11, Aside DEF SeriesEnds, SeriesStarts, Mishap
  <1>12. CASE TagSync
    BY <1>12, ListTagsInv, TagSyncInv DEF TagSync
  <1>13. CASE UNCHANGED vars
    BY <1>13, Aside DEF vars, tagVars
  <1>14. QED
    BY <1>1, <1>2, <1>3, <1>4, <1>5, <1>6, <1>7, <1>8, <1>9, <1>10, <1>11, <1>12, <1>13
       DEF Next, CatalogueProceeds

\* However the syncs interleave and fail, a tag row carries the parents and flags
\* Polymarket reports, unless an event overwrote it or an answer was missing.
THEOREM LinksKept == Spec => []LinksAccounted
  <1>1. Init => TagInv
    BY TagInvInit DEF Init
  <1>2. TagInv /\ [Next]_vars => TagInv'
    BY TagInvNext
  <1>3. TagInv => LinksAccounted
    BY DEF TagInv
  <1>4. QED
    BY <1>1, <1>2, <1>3, PTL DEF Spec

\* CatalogueInv and OutcomeInv together are an invariant of any number of syncs of
\* any catalogue.
THEOREM Inductive == Spec => [](CatalogueInv /\ OutcomeInv)
  <1>1. Init => CatalogueInv /\ OutcomeInv
    BY CatalogueInvInit, OutcomeInvInit
  <1>2. CatalogueInv /\ OutcomeInv /\ [Next]_vars => (CatalogueInv /\ OutcomeInv)'
    BY CatalogueInvNext, OutcomeInvNext
  <1>3. QED
    BY <1>1, <1>2, PTL DEF Spec

\* Every variable keeps its type; in particular no sync takes anything but a series
\* for a series, no two places of the list hold the same one, and no more fetches of
\* children are in flight than there are permits.
THEOREM TypesKept == Spec => []TypeOK
  <1>1. CatalogueInv /\ OutcomeInv => TypeOK
    <2> SUFFICES ASSUME CatalogueInv, OutcomeInv PROVE TypeOK
      OBVIOUS
    <2>1. devTokens \in Seq(Markets)
      BY SeqMonotonic DEF CatalogueInv, GroundInv
    <2>2. QED
      BY <2>1 DEF CatalogueInv, TagInv, ShapeInv, GroundInv, BareInv, ListInv, OutcomeInv,
                  TypeOK, RunRecords, Histories
  <1>2. QED
    BY <1>1, Inductive, PTL

\* Whatever statements fail or are cut off, of any syncs: market rows have their
\* event's row, event rows their series' row and outcomes their market's; a market
\* row without outcomes is the last write of a run that goes on with them, or their
\* statement failed or was cut off; and what is published for the WebSocket are
\* tokens of markets whose outcomes were at least attempted.
THEOREM ReferencesKept == Spec => []Referential
  <1>1. CatalogueInv /\ OutcomeInv => Referential
    <2> SUFFICES ASSUME CatalogueInv, OutcomeInv PROVE Referential
      OBVIOUS
    <2>1. devTokens \in Seq(Attempted)
      BY DEF OutcomeInv
    <2>2. ToSet(devTokens) \subseteq Attempted
      <3>1. DOMAIN devTokens = 1..Len(devTokens)
        BY <2>1, LenProperties
      <3>2. \A j \in DOMAIN devTokens : devTokens[j] \in Attempted
        BY <2>1, <3>1, ElementOfSeq
      <3>3. QED
        BY <3>2 DEF ToSet
    <2>3. QED
      BY <2>2 DEF CatalogueInv, GroundInv, OutcomeInv, Referential, SeriesOnRow, Attempted
  <1>2. QED
    BY <1>1, Inductive, PTL

\* A series row stays without a category only while a run is at work on the series,
\* or when the run that wrote it was cut short or got no event with a tag through.
THEOREM BareExplained == Spec => []BareOnlyWhenCut
  <1>1. CatalogueInv => BareOnlyWhenCut
    BY DEF CatalogueInv, BareInv, ShapeInv, Shape, WillCategorise, BareOnlyWhenCut
  <1>2. QED
    BY <1>1, Inductive, PTL

\* What a step of a run makes of run.
LEMMA Departs ==
    ASSUME CatalogueInv, NEW r \in Runs,
           StartSync(r) \/ CatalogueProceeds(r) \/ RunDies(r)
    PROVE  \E rec : Sets(r, rec)
  <1>1. CASE StartSync(r) \/ RunDies(r)
    BY <1>1 DEF StartSync, RunDies, Sets
  <1>2. CASE CatalogueProceeds(r)
    <2>1. CASE FetchPage(r) \/ FetchCandidates(r) \/ FetchPageFails(r)
      BY <2>1 DEF FetchPage, FetchCandidates, FetchPageFails, Sets
    <2>2. CASE \E E \in SUBSET Events : UpsertSeries(r, E)
      BY <2>2 DEF UpsertSeries, Sets
    <2>3. CASE SkipSeries(r) \/ BackFill(r)
      BY <2>3, LeaveSets DEF SkipSeries, BackFill
    <2>4. CASE \E e \in Events :
                    SkipEvent(r, e) \/ \E M \in {{}, MarketsIn(e)} : UpsertEvent(r, e, M)
      BY <2>4 DEF SkipEvent, UpsertEvent, Sets
    <2>5. CASE \E t \in Tags : UpsertEventTag(r, t) \/ SkipEventTag(r, t)
      BY <2>5 DEF UpsertEventTag, SkipEventTag, Sets
    <2>6. CASE \E m \in Markets : UpsertMarket(r, m) \/ SkipMarket(r, m)
      BY <2>6 DEF UpsertMarket, SkipMarket, Sets
    <2>o. CASE \E m \in Markets : UpsertOutcomes(r, m)
      BY <2>o, Stays DEF UpsertOutcomes
    <2>7. CASE NextPage(r) \/ Publish(r) \/ Fallback(r)
      BY <2>7 DEF NextPage, Publish, Fallback, Sets
    <2>8. QED
      BY <1>2, <2>1, <2>2, <2>3, <2>4, <2>5, <2>6, <2>o, <2>7 DEF CatalogueProceeds
  <1>3. QED
    BY <1>1, <1>2

LEMMA EndOfSync ==
    ASSUME CatalogueInv, [Next]_vars, NEW r \in FullRuns,
           run[r] # Idle, run'[r] = Idle, behind'[r].clean
    PROVE  behind'[r].stayed \subseteq behind'[r].seen \cup behind'[r].slid
  <1>ty. /\ r \in Runs /\ r \notin DevRuns
         /\ run \in [Runs -> RunRecords] /\ run[r] \in RunRecords
         /\ Shape(run[r]) /\ run[r].step # "fallback"
         /\ behind \in [FullRuns -> Histories] /\ behind[r] \in Histories
         /\ Covered(run[r], behind[r]) /\ listed \in Seq(Series)
    BY RunTyped, CatalogueAssumption DEF Runs, CatalogueInv, ListInv
  <1>idle. run'[r].step = "idle"
    BY IdleShape
  <1>1. ASSUME NEW q \in Runs, q # r, StartSync(q) \/ CatalogueProceeds(q) \/ RunDies(q)
        PROVE  FALSE
    <2>1. PICK rec : Sets(q, rec)
      BY <1>1, Departs
    <2>2. run'[r] = run[r]
      BY <1>1, <1>ty, <2>1 DEF Sets
    <2>3. QED
      BY <2>2
  <1>2. ~StartSync(r)
    BY DEF StartSync
  <1>3. ~(RunDies(r) \/ FetchPageFails(r) \/ SkipSeries(r))
    BY <1>ty, NotClean DEF RunDies, FetchPageFails, SkipSeries
  <1>4. ASSUME FetchPage(r)
        PROVE  behind'[r].stayed \subseteq behind'[r].seen \cup behind'[r].slid
    <2> DEFINE from == run[r].offset
               data == SubSeq(listed, from + 1, Lesser(from + PageSize, Len(listed)))
    <2>1. run[r].step = "page" /\ from \in Nat
      BY <1>4, <1>ty DEF FetchPage, RunRecords
    <2>2. data = <<>>
      <3>1. CASE data # <<>>
        <4>1. run' = [run EXCEPT ![r] = [run[r] EXCEPT
                            !.step = "series", !.batch = data,
                            !.short = Len(data) < PageSize, !.offset = from + PageSize]]
          BY <1>4, <3>1 DEF FetchPage
        <4>2. run'[r].step = "series"
          BY <4>1, <1>ty DEF RunRecords
        <4>3. QED
          BY <4>2, <1>idle
      <3>2. QED
        BY <3>1
    <2>3. ToSet(listed) \subseteq Before(listed, from)
      BY <1>ty, <2>1, <2>2, PageTaken
    <2> DEFINE b == [behind[r] EXCEPT !.seen = @ \cup ToSet(data)]
    <2>4. behind' = [behind EXCEPT ![r] = b]
      BY <1>4 DEF FetchPage
    <2> HIDE DEF data
    <2>5. /\ b.stayed = behind[r].stayed /\ b.slid = behind[r].slid
          /\ behind[r].seen \subseteq b.seen
      BY <1>ty DEF Histories
    <2> HIDE DEF b
    <2>6. behind'[r] = b
      BY <1>ty, <2>4
    <2>7. behind[r].stayed \subseteq behind[r].seen \cup behind[r].slid
      BY <1>ty, <2>1, <2>3 DEF Covered
    <2>8. QED
      BY <2>5, <2>6, <2>7
  <1>5. ASSUME NextPage(r)
        PROVE  behind'[r].stayed \subseteq behind'[r].seen \cup behind'[r].slid
    <2>1. run[r].step = "series" /\ behind' = behind
      BY <1>5 DEF NextPage
    <2>2. run[r].short
      <3>1. CASE ~run[r].short
        <4>1. run' = [run EXCEPT ![r].step = "page"]
          BY <1>5, <3>1 DEF NextPage
        <4>2. run'[r].step = "page"
          BY <4>1, <1>ty DEF RunRecords
        <4>3. QED
          BY <4>2, <1>idle
      <3>2. QED
        BY <3>1
    <2>3. QED
      BY <1>ty, <2>1, <2>2 DEF Covered
  <1>6. ~\E E \in SUBSET Events : UpsertSeries(r, E)
    BY <1>ty, <1>idle DEF UpsertSeries, RunRecords
  <1>7. ~BackFill(r)
    <2> SUFFICES ASSUME BackFill(r) PROVE FALSE
      OBVIOUS
    <2>1. run[r].step = "events" /\ run[r].batch # <<>> /\ run[r].found \subseteq Markets
      BY <1>ty DEF BackFill, Shape, RunRecords
    <2>2. PICK rec : Sets(r, rec) /\ IsLeft(rec, run[r], run[r].found)
      BY <1>ty, LeaveSets DEF BackFill
    <2>3. IsCleared(rec, run[r], run[r].found)
      BY <1>ty, <2>1, <2>2, LeftShape
    <2>4. run'[r] = rec /\ rec.step = "series"
      BY <1>ty, <2>2, <2>3 DEF Sets, IsCleared
    <2>5. QED
      BY <2>4, <1>idle
  <1>8. ~\E e \in Events :
            SkipEvent(r, e) \/ \E M \in {{}, MarketsIn(e)} : UpsertEvent(r, e, M)
    <2>1. ASSUME NEW e \in Events, SkipEvent(r, e)
          PROVE  FALSE
      BY <2>1, <1>ty, <1>idle DEF SkipEvent, NextEvent, RunRecords
    <2>2. ASSUME NEW e \in Events, NEW M \in {{}, MarketsIn(e)}, UpsertEvent(r, e, M)
          PROVE  FALSE
      <3>1. run[r].step = "events"
        BY <2>2 DEF UpsertEvent, NextEvent
      <3>2. run'[r].step = run[r].step
        BY <2>2, <1>ty DEF UpsertEvent, RunRecords
      <3>3. QED
        BY <3>1, <3>2, <1>idle
    <2>3. QED
      BY <2>1, <2>2
  <1>9. ~\E t \in Tags : UpsertEventTag(r, t) \/ SkipEventTag(r, t)
    BY <1>ty, <1>idle DEF UpsertEventTag, SkipEventTag, RunRecords, Shape
  <1>10. ~\E m \in Markets : UpsertMarket(r, m) \/ UpsertOutcomes(r, m) \/ SkipMarket(r, m)
    <2>1. ASSUME NEW m \in Markets, UpsertMarket(r, m)
          PROVE  FALSE
      <3>1. run[r].step = "events"
        BY <2>1, <1>ty DEF UpsertMarket, Shape
      <3>2. run'[r].step = run[r].step
        BY <2>1, <1>ty DEF UpsertMarket, RunRecords
      <3>3. QED
        BY <3>1, <3>2, <1>idle
    <2>2. ASSUME NEW m \in Markets, SkipMarket(r, m)
          PROVE  FALSE
      BY <2>2, <1>ty, <1>idle DEF SkipMarket, RunRecords, Shape
    <2>3. ASSUME NEW m \in Markets, UpsertOutcomes(r, m)
          PROVE  FALSE
      BY <2>3 DEF UpsertOutcomes
    <2>4. QED
      BY <2>1, <2>2, <2>3
  <1>11. ~(FetchCandidates(r) \/ Publish(r) \/ Fallback(r))
    BY <1>ty DEF FetchCandidates, Publish, Fallback
  <1>12. ASSUME \/ \E s \in Series : SeriesEnds(s) \/ SeriesStarts(s)
                \/ TagSync \/ UNCHANGED vars
         PROVE  FALSE
    <2>1. run' = run
      BY <1>12 DEF SeriesEnds, SeriesStarts, TagSync, vars
    <2>2. QED
      BY <2>1
  <1>13. \E q \in Runs : StartSync(q) \/ CatalogueProceeds(q) \/ RunDies(q)
    BY <1>12 DEF Next
  <1>14. StartSync(r) \/ CatalogueProceeds(r) \/ RunDies(r)
    BY <1>1, <1>13
  <1>15. CatalogueProceeds(r)
    BY <1>2, <1>3, <1>14
  <1>16. FetchPage(r) \/ NextPage(r)
    BY <1>3, <1>6, <1>7, <1>8, <1>9, <1>10, <1>11, <1>15 DEF CatalogueProceeds
  <1>17. QED
    BY <1>4, <1>5, <1>16

\* A full sync that ends without a fault has processed every series that was active
\* all along, except those that slid behind its offset when a series before them
\* left the list.
THEOREM SkippedExplained == Spec => SkippedOnlyBehind
  <1>1. CatalogueInv /\ [Next]_vars =>
            [\A r \in FullRuns :
                run[r] # Idle /\ run'[r] = Idle /\ behind'[r].clean
                    => behind'[r].stayed \subseteq behind'[r].seen \cup behind'[r].slid]_vars
    BY EndOfSync
  <1>2. QED
    BY <1>1, Inductive, PTL DEF Spec, SkippedOnlyBehind

LEMMA SelectsAtPage ==
    ASSUME CatalogueInv, [Next]_vars, NEW r \in DevRuns,
           run[r].step = "page", run'[r].step = "series"
    PROVE  FetchCandidates(r) /\ listed # <<>>
  <1>1. /\ r \in Runs /\ r \notin FullRuns
        /\ run \in [Runs -> RunRecords] /\ run[r] \in RunRecords
        /\ Shape(run[r])
    BY RunTyped, CatalogueAssumption DEF Runs
  <1>2. ASSUME NEW q \in Runs, q # r, StartSync(q) \/ CatalogueProceeds(q) \/ RunDies(q)
        PROVE  FALSE
    <2>1. PICK rec : Sets(q, rec)
      BY <1>2, Departs
    <2>2. run'[r] = run[r]
      BY <1>1, <1>2, <2>1 DEF Sets
    <2>3. QED
      BY <2>2
  <1>3. ASSUME RunDies(r) \/ FetchPageFails(r) PROVE FALSE
    <2>1. run'[r] = Idle
      BY <1>1, <1>3 DEF RunDies, FetchPageFails
    <2>2. QED
      BY <2>1, IdleShape
  <1>4. ~StartSync(r)
    BY <1>1, IdleShape DEF StartSync
  <1>5. /\ ~FetchPage(r) /\ ~SkipSeries(r) /\ ~NextPage(r) /\ ~Publish(r) /\ ~Fallback(r)
        /\ ~BackFill(r)
        /\ ~\E E \in SUBSET Events : UpsertSeries(r, E)
    BY <1>1 DEF FetchPage, SkipSeries, NextPage, Publish, Fallback, BackFill, UpsertSeries
  <1>6. ~\E e \in Events :
            SkipEvent(r, e) \/ \E M \in {{}, MarketsIn(e)} : UpsertEvent(r, e, M)
    BY <1>1 DEF SkipEvent, UpsertEvent, NextEvent
  <1>7. ~\E t \in Tags : UpsertEventTag(r, t) \/ SkipEventTag(r, t)
    BY <1>1 DEF UpsertEventTag, SkipEventTag, Shape
  <1>8. ~\E m \in Markets : UpsertMarket(r, m) \/ UpsertOutcomes(r, m) \/ SkipMarket(r, m)
    BY <1>1 DEF UpsertMarket, UpsertOutcomes, SkipMarket, Shape
  <1>9. ASSUME \/ \E s \in Series : SeriesEnds(s) \/ SeriesStarts(s)
               \/ TagSync \/ UNCHANGED vars
        PROVE  FALSE
    <2>1. run' = run
      BY <1>9 DEF SeriesEnds, SeriesStarts, TagSync, vars
    <2>2. QED
      BY <2>1
  <1>10. \E q \in Runs : StartSync(q) \/ CatalogueProceeds(q) \/ RunDies(q)
    BY <1>9 DEF Next
  <1>11. CatalogueProceeds(r)
    BY <1>2, <1>3, <1>4, <1>10
  <1>12. FetchCandidates(r)
    BY <1>3, <1>5, <1>6, <1>7, <1>8, <1>11 DEF CatalogueProceeds
  <1>13. listed # <<>>
    <2>1. CASE listed = <<>>
      <3>1. run'[r] = Idle
        BY <1>1, <1>12, <2>1 DEF FetchCandidates
      <3>2. QED
        BY <3>1, IdleShape
    <2>2. QED
      BY <2>1
  <1>14. QED
    BY <1>12, <1>13

\* Every selection a DEV_MODE sync works through is diverse, and takes from a page
\* nothing but series of it.
THEOREM DevSyncsDiverse == Spec => DevSyncDiverse
  <1>1. FourCandidates
    <2> DEFINE page == <<1, 2, 3, 4>>
    <2>1. page \in Seq(1..4) /\ IsInjective(page)
      BY DEF IsInjective
    <2> HIDE DEF page
    <2>2. ASSUME NEW bucket \in [1..4 -> 1..2], NEW volume \in [1..4 -> 0..1],
                 NEW total \in 1..4, NEW n \in 1..3
          PROVE  Diverse(SelectDiverse(page, bucket, volume, total, n),
                         page, bucket, volume, total, n)
      <3>1. bucket \in [1..4 -> Nat] /\ volume \in [1..4 -> Nat]
        OBVIOUS
      <3>2. total \in Nat \ {0} /\ n \in Nat
        OBVIOUS
      <3>3. QED
        BY <2>1, <3>1, <3>2, SelectionDiverse
    <2>3. QED
      BY <2>2 DEF FourCandidates, page
  <1>2. ASSUME CatalogueInv, [Next]_vars, NEW r \in DevRuns,
               run[r].step = "page", run'[r].step = "series"
        PROVE  Diverse(run'[r].batch, listed, Bucket, Volume, MaxTotal, MaxPerBucket)
    <2>1. FetchCandidates(r) /\ listed # <<>>
      BY <1>2, SelectsAtPage
    <2>2. r \in Runs /\ run \in [Runs -> RunRecords] /\ run[r] \in RunRecords
      BY <1>2, RunTyped DEF Runs
    <2> DEFINE picks == SelectDiverse(listed, Bucket, Volume, MaxTotal, MaxPerBucket)
    <2>3. run'[r] = [run[r] EXCEPT !.step = "series", !.short = TRUE, !.batch = picks]
      BY <2>1, <2>2 DEF FetchCandidates
    <2>4. run'[r].batch = picks
      BY <2>2, <2>3 DEF RunRecords
    <2>5. listed \in Seq(Series) /\ IsInjective(listed)
      BY <1>2 DEF CatalogueInv, ListInv
    <2>6. Diverse(picks, listed, Bucket, Volume, MaxTotal, MaxPerBucket)
      BY <2>5, CatalogueAssumption, SelectionDiverse
    <2>7. QED
      BY <2>4, <2>6
  <1>3. CatalogueInv /\ [Next]_vars =>
            [\A r \in DevRuns :
                run[r].step = "page" /\ run'[r].step = "series" =>
                    /\ Diverse(run'[r].batch, listed, Bucket, Volume, MaxTotal, MaxPerBucket)
                    /\ FourCandidates]_vars
    BY <1>1, <1>2
  <1>4. QED
    BY <1>3, Inductive, PTL DEF Spec, DevSyncDiverse
=============================================================================
