---------------------------- MODULE MonitorProofs ----------------------------
(***************************************************************************)
(* Proofs about the two threads of the print service that watch its        *)
(* callers, for any apps, jobs, extensions and bounds.                     *)
(*                                                                         *)
(* PrintCallers: its types, and that the count on which the unload is      *)
(* decided covers the apps and the pages.  Discovery: its types, and that  *)
(* the drivers never discover without a monitor that will still decide     *)
(* about them, except after a start that came too late for it.             *)
(*                                                                         *)
(* The count of the callers is a sum over a set of any size.  What a sum   *)
(* is follows by induction over the subsets of the set, in the form of     *)
(* SubsetInduction: a set of good subsets takes the place of a predicate.  *)
(***************************************************************************)
EXTENDS PrintCallers, Discovery, FiniteSetTheorems, WellFoundedInduction, TLAPS

-----------------------------------------------------------------------------
(* Induction over a finite set, and the sums over it                         *)

\* A set of subsets of S that has {} and each subset all of whose smaller neighbours it has is
\* the set of all.
Progressive(Good, S) ==
    \A T \in SUBSET S : (\A x \in T : T \ {x} \in Good) => T \in Good

LEMMA SubsetInduction ==
    ASSUME NEW S, IsFiniteSet(S), NEW Good, Progressive(Good, S)
    PROVE  S \in Good
<1> DEFINE Bad == {T \in SUBSET S : T \notin Good}
           Sizes == {Cardinality(T) : T \in Bad}
           R == OpToRel(<, Nat)
<1> SUFFICES ASSUME Bad # {}
             PROVE  FALSE
  OBVIOUS
<1> USE DEF Progressive
<1>1. \A T \in SUBSET S : IsFiniteSet(T) /\ Cardinality(T) \in Nat
  BY FS_Subset, FS_CardinalityType
<1>2. Sizes \subseteq Nat /\ Sizes # {}
  BY <1>1
<1>3. PICK n \in Sizes : \A m \in Sizes : ~(<<m, n>> \in R)
  <2>1. IsWellFoundedOn(R, Nat)
    BY NatLessThanWellFounded
  <2> HIDE DEF R, Sizes
  <2> QED
    BY <1>2, <2>1, WFMin
<1>4. PICK T \in Bad : n = Cardinality(T)
  BY <1>3
<1>5. ASSUME NEW x \in T
      PROVE  T \ {x} \in Good
  <2>1. T \ {x} \in SUBSET S /\ IsFiniteSet(T) /\ n \in Nat /\ Cardinality(T \ {x}) \in Nat
    BY <1>1, <1>4
  <2>2. Cardinality(T \ {x}) = n - 1
    BY <1>4, <2>1, FS_RemoveElement
  <2>3. <<n - 1, n>> \in R
    BY <2>1, <2>2 DEF OpToRel
  <2>4. n - 1 \notin Sizes
    BY <1>3, <2>3
  <2> QED
    BY <2>1, <2>2, <2>4
<1> QED
  BY <1>4, <1>5

\* the member of T that a fold over T takes first
Any(T) == CHOOSE x \in T : TRUE

LEMMA AnyIsMember == \A T : T # {} => Any(T) \in T
  BY DEF Any

\* the recursive functions that define Total and Taken
Sums(g, f, S) ==
    g = [T \in SUBSET S |-> IF T = {} THEN 0 ELSE f[Any(T)] + g[T \ {Any(T)}]]

Takes(g, f, c, S) ==
    g = [T \in SUBSET S |-> IF T = {} THEN c
                            ELSE IF g[T \ {Any(T)}] >= f[Any(T)] THEN g[T \ {Any(T)}] - f[Any(T)]
                                                                 ELSE g[T \ {Any(T)}]]

LEMMA TotalIsSum ==
    ASSUME NEW f, NEW S
    PROVE  Total(f, S) = (CHOOSE g : Sums(g, f, S))[S]
  BY DEF Total, MapThenSumSet, MapThenFoldSet, Sums, Any

LEMMA TakenIsTake ==
    ASSUME NEW f, NEW S, NEW c
    PROVE  Taken(f, c, S) = (CHOOSE g : Takes(g, f, c, S))[S]
  BY DEF Taken, FoldSet, MapThenFoldSet, Takes, Any

\* Induction over the numbers, for a set of good ones
LEMMA NatSetInduction ==
    ASSUME NEW Good, 0 \in Good, \A n \in Nat : n \in Good => n + 1 \in Good
    PROVE  \A n \in Nat : n \in Good
<1> DEFINE Bad == Nat \ Good
           R == OpToRel(<, Nat)
<1> SUFFICES ASSUME Bad # {}
             PROVE  FALSE
  OBVIOUS
<1>1. \A m, n \in Nat : <<m, n>> \in R <=> m < n
  BY DEF OpToRel
<1>2. PICK n \in Bad : \A m \in Bad : ~(<<m, n>> \in R)
  <2>1. IsWellFoundedOn(R, Nat) /\ Bad \subseteq Nat
    BY NatLessThanWellFounded
  <2> HIDE DEF R, Bad
  <2> QED
    BY <2>1, WFMin
<1> HIDE DEF R
<1>3. n \in Nat /\ n # 0 /\ n \notin Good
  OBVIOUS
<1>4. n - 1 \in Nat /\ n - 1 < n /\ (n - 1) + 1 = n
  BY <1>3
<1>5. n - 1 \notin Bad
  BY <1>1, <1>2, <1>3, <1>4
<1>6. n - 1 \in Good
  BY <1>4, <1>5
<1> QED
  BY <1>3, <1>4, <1>6

\* g folds the subsets of S with h over b
Folds(g, h, b, S) ==
    /\ g \in [SUBSET S -> Nat]
    /\ \A T \in SUBSET S : g[T] = IF T = {} THEN b ELSE h[Any(T)][g[T \ {Any(T)}]]

\* The fold of a finite set is defined, by induction over the sizes of subsets.
LEMMA FoldExists ==
    ASSUME NEW S, IsFiniteSet(S), NEW b \in Nat, NEW h \in [S -> [Nat -> Nat]]
    PROVE  \E g : Folds(g, h, b, S)
<1> DEFINE Level(n) == {T \in SUBSET S : Cardinality(T) <= n}
           Folded(g, n) == \A T \in Level(n) :
              g[T] = IF T = {} THEN b ELSE h[Any(T)][g[T \ {Any(T)}]]
           Good == {n \in Nat : \E g \in [Level(n) -> Nat] : Folded(g, n)}
<1>1. \A T \in SUBSET S : /\ IsFiniteSet(T) /\ Cardinality(T) \in Nat
                          /\ Cardinality(T) <= Cardinality(S)
                          /\ Cardinality(T) = 0 <=> T = {}
  BY FS_Subset, FS_CardinalityType, FS_EmptySet
<1>2. 0 \in Good
  <2>1. Level(0) = {{}}
    BY <1>1
  <2>2. Folded([T \in {{}} |-> b], 0) /\ [T \in {{}} |-> b] \in [Level(0) -> Nat]
    BY <2>1
  <2> QED
    BY <2>2
<1>3. ASSUME NEW n \in Nat, n \in Good
      PROVE  n + 1 \in Good
  <2>1. PICK g \in [Level(n) -> Nat] : Folded(g, n)
    BY <1>3
  <2> DEFINE k == [T \in Level(n + 1) |-> IF T = {} THEN b ELSE h[Any(T)][g[T \ {Any(T)}]]]
  <2>2. ASSUME NEW T \in Level(n + 1), T # {}
        PROVE  /\ Any(T) \in S /\ T \ {Any(T)} \in Level(n)
               /\ g[T \ {Any(T)}] \in Nat
               /\ h[Any(T)][g[T \ {Any(T)}]] \in Nat
    <3>1. Any(T) \in T /\ Any(T) \in S
      BY <2>2, AnyIsMember
    <3>2. Cardinality(T \ {Any(T)}) = Cardinality(T) - 1 /\ Cardinality(T) \in Nat
      BY <1>1, <3>1, FS_RemoveElement
    <3>3. T \ {Any(T)} \in Level(n)
      BY <3>2
    <3> HIDE DEF Level
    <3> QED
      BY <3>1, <3>3
  <2>3. k \in [Level(n + 1) -> Nat]
    <3> HIDE DEF Level
    <3> QED
      BY <2>2
  <2>4. Level(n) \subseteq Level(n + 1)
    BY <1>1
  <2>5. \A T \in Level(n) : k[T] = g[T]
    <3> HIDE DEF Level
    <3> QED
      BY <2>1, <2>4
  <2>6. Folded(k, n + 1)
    <3> HIDE DEF Level
    <3> QED
      BY <2>2, <2>5
  <2> HIDE DEF k, Level, Folded
  <2> QED
    BY <2>3, <2>6
<1> HIDE DEF Good
<1>4. Cardinality(S) \in Good
  BY <1>1, <1>2, <1>3, NatSetInduction
<1> USE DEF Good
<1>5. Level(Cardinality(S)) = SUBSET S
  BY <1>1
<1> HIDE DEF Level
<1> QED
  BY <1>4, <1>5 DEF Folds

\* g is the function that defines the total of each subset of S
IsTotal(g, f, S) ==
    /\ g \in [SUBSET S -> Nat] /\ Sums(g, f, S)
    /\ \A T \in SUBSET S : Total(f, T) = g[T]

LEMMA TotalExists ==
    ASSUME NEW S, IsFiniteSet(S), NEW D, S \subseteq D, NEW f \in [D -> Nat]
    PROVE  \E g : IsTotal(g, f, S)
<1>1. ASSUME NEW R \in SUBSET S
      PROVE  \E g \in [SUBSET R -> Nat] : Sums(g, f, R)
  <2> DEFINE h == [x \in R |-> [n \in Nat |-> f[x] + n]]
  <2>0. IsFiniteSet(R)
    BY FS_Subset
  <2>1. h \in [R -> [Nat -> Nat]] /\ 0 \in Nat
    OBVIOUS
  <2>2. \A x \in R, n \in Nat : h[x][n] = f[x] + n
    OBVIOUS
  <2> HIDE DEF h
  <2>3. PICK g : Folds(g, h, 0, R)
    BY <2>0, <2>1, FoldExists
  <2>4. \A T \in SUBSET R : T # {} => Any(T) \in R /\ g[T \ {Any(T)}] \in Nat
    BY <2>3, AnyIsMember DEF Folds
  <2>5. \A T \in SUBSET R : g[T] = IF T = {} THEN 0 ELSE f[Any(T)] + g[T \ {Any(T)}]
    BY <2>2, <2>3, <2>4 DEF Folds
  <2> QED
    BY <2>3, <2>5 DEF Sums, Folds
<1>2. PICK g \in [SUBSET S -> Nat] : Sums(g, f, S)
  BY <1>1
<1>3. ASSUME NEW R \in SUBSET S, NEW k, Sums(k, f, R)
      PROVE  k[R] = g[R]
  <2> DEFINE Good == {T \in SUBSET R : k[T] = g[T]}
  <2>0. IsFiniteSet(R)
    BY FS_Subset
  <2>1. ASSUME NEW T \in SUBSET R, \A x \in T : T \ {x} \in Good
        PROVE  T \in Good
    <3>1. k[T] = IF T = {} THEN 0 ELSE f[Any(T)] + k[T \ {Any(T)}]
      BY <1>3 DEF Sums
    <3>2. g[T] = IF T = {} THEN 0 ELSE f[Any(T)] + g[T \ {Any(T)}]
      BY <1>2 DEF Sums
    <3> QED
      BY <2>1, <3>1, <3>2, AnyIsMember
  <2> HIDE DEF Good
  <2>2. R \in Good
    BY <2>0, <2>1, SubsetInduction DEF Progressive
  <2> QED
    BY <2>2 DEF Good
<1>4. ASSUME NEW R \in SUBSET S
      PROVE  Total(f, R) = g[R]
  <2>1. Sums(CHOOSE k : Sums(k, f, R), f, R)
    BY <1>1
  <2> QED
    BY <1>3, <2>1, TotalIsSum
<1> QED
  BY <1>2, <1>4 DEF IsTotal

\* The total of a set is computed one element at a time.
Adds(f, S) ==
    /\ \A T \in SUBSET S : Total(f, T) \in Nat
    /\ \A T \in SUBSET S : T # {} =>
          Any(T) \in T /\ Total(f, T) = f[Any(T)] + Total(f, T \ {Any(T)})
    /\ Total(f, {}) = 0

LEMMA TotalAdds ==
    ASSUME NEW S, IsFiniteSet(S), NEW D, S \subseteq D, NEW f \in [D -> Nat]
    PROVE  Adds(f, S)
<1>1. PICK g : IsTotal(g, f, S)
  BY TotalExists
<1>2. \A T \in SUBSET S : g[T] = IF T = {} THEN 0 ELSE f[Any(T)] + g[T \ {Any(T)}]
  BY <1>1 DEF IsTotal, Sums
<1>3. \A T \in SUBSET S : T \ {Any(T)} \in SUBSET S /\ Total(f, T) = g[T] /\ g[T] \in Nat
  BY <1>1 DEF IsTotal
<1>4. ASSUME NEW T \in SUBSET S, T # {}
      PROVE  Any(T) \in T /\ Total(f, T) = f[Any(T)] + Total(f, T \ {Any(T)})
  BY <1>2, <1>3, <1>4, AnyIsMember
<1>5. Total(f, {}) = 0
  BY <1>2, <1>3
<1> QED
  BY <1>3, <1>4, <1>5 DEF Adds

\* Any element can be taken out of a total.
LEMMA TotalRemove ==
    ASSUME NEW S, IsFiniteSet(S), NEW D, S \subseteq D, NEW f \in [D -> Nat], NEW y \in S
    PROVE  Total(f, S) = f[y] + Total(f, S \ {y})
<1>0. Adds(f, S)
  BY TotalAdds
<1> DEFINE Good == {T \in SUBSET S : \A x \in T : Total(f, T) = f[x] + Total(f, T \ {x})}
<1>1. ASSUME NEW T \in SUBSET S, \A x \in T : T \ {x} \in Good
      PROVE  T \in Good
  <2> SUFFICES ASSUME NEW x \in T
               PROVE  Total(f, T) = f[x] + Total(f, T \ {x})
    OBVIOUS
  <2> DEFINE z == Any(T)
  <2>1. z \in T /\ Total(f, T) = f[z] + Total(f, T \ {z})
    BY <1>0 DEF Adds
  <2> HIDE DEF z
  <2>2. CASE x # z
    <3>1. x \in T \ {z} /\ z \in T \ {x} /\ (T \ {z}) \ {x} = (T \ {x}) \ {z}
      BY <2>1, <2>2
    <3>2. /\ Total(f, T \ {z}) = f[x] + Total(f, (T \ {z}) \ {x})
          /\ Total(f, T \ {x}) = f[z] + Total(f, (T \ {x}) \ {z})
      BY <1>1, <2>1, <3>1
    <3>3. f[x] \in Nat /\ f[z] \in Nat /\ Total(f, (T \ {x}) \ {z}) \in Nat
      BY <2>1, <1>0 DEF Adds
    <3> QED
      BY <2>1, <3>1, <3>2, <3>3
  <2> QED
    BY <2>1, <2>2
<1> HIDE DEF Good
<1>2. S \in Good
  BY <1>1, SubsetInduction DEF Progressive
<1> QED
  BY <1>2 DEF Good

\* The total depends on the counts of the members only.
LEMMA TotalSame ==
    ASSUME NEW S, IsFiniteSet(S), NEW D, S \subseteq D, NEW f \in [D -> Nat],
           NEW k \in [D -> Nat], \A x \in S : k[x] = f[x]
    PROVE  Total(k, S) = Total(f, S)
<1>0. Adds(f, S) /\ Adds(k, S)
  BY TotalAdds
<1> DEFINE Good == {T \in SUBSET S : Total(k, T) = Total(f, T)}
<1>1. ASSUME NEW T \in SUBSET S, \A x \in T : T \ {x} \in Good
      PROVE  T \in Good
  <2>1. CASE T # {}
    <3>1. /\ Any(T) \in T
          /\ Total(k, T) = k[Any(T)] + Total(k, T \ {Any(T)})
          /\ Total(f, T) = f[Any(T)] + Total(f, T \ {Any(T)})
      BY <2>1, <1>0 DEF Adds
    <3> QED
      BY <1>1, <3>1
  <2>2. CASE T = {}
    BY <2>2, <1>0 DEF Adds
  <2> QED
    BY <2>1, <2>2
<1> HIDE DEF Good
<1>2. S \in Good
  BY <1>1, SubsetInduction DEF Progressive
<1> QED
  BY <1>2 DEF Good

\* The total of a set is that of a subset and that of the rest.
LEMMA TotalSplit ==
    ASSUME NEW S, IsFiniteSet(S), NEW D, S \subseteq D, NEW f \in [D -> Nat], NEW C \in SUBSET S
    PROVE  Total(f, S) = Total(f, C) + Total(f, S \ C)
<1>0. Adds(f, S) /\ IsFiniteSet(C)
  BY TotalAdds, FS_Subset
<1> DEFINE Good == {T \in SUBSET C : Total(f, S) = Total(f, T) + Total(f, S \ T)}
<1>1. ASSUME NEW T \in SUBSET C, \A x \in T : T \ {x} \in Good
      PROVE  T \in Good
  <2>1. CASE T = {}
    <3>1. S \ T = S
      BY <2>1
    <3> QED
      BY <2>1, <3>1, <1>0 DEF Adds
  <2>2. CASE T # {}
    <3>1. PICK x \in T : TRUE
      BY <2>2
    <3> DEFINE R == S \ (T \ {x})
    <3>2. Total(f, S) = Total(f, T \ {x}) + Total(f, R)
      BY <1>1, <3>1
    <3>3. /\ IsFiniteSet(T) /\ T \subseteq D
          /\ IsFiniteSet(R) /\ R \subseteq D /\ x \in R /\ R \ {x} = S \ T
      BY <3>1, FS_Subset
    <3> HIDE DEF R
    <3>4. Total(f, T) = f[x] + Total(f, T \ {x})
      BY <3>1, <3>3, TotalRemove
    <3>5. Total(f, R) = f[x] + Total(f, S \ T)
      BY <3>3, TotalRemove
    <3>6. f[x] \in Nat /\ Total(f, T \ {x}) \in Nat /\ Total(f, S \ T) \in Nat
      BY <3>1, <1>0 DEF Adds
    <3> QED
      BY <3>2, <3>4, <3>5, <3>6
  <2> QED
    BY <2>1, <2>2
<1> HIDE DEF Good
<1>2. C \in Good
  BY <1>0, <1>1, SubsetInduction DEF Progressive
<1> QED
  BY <1>2 DEF Good

\* m as a whole or nothing is taken from n
Less(n, m) == IF n >= m THEN n - m ELSE n

\* g is what is left of c after each subset of S
IsTaken(g, f, c, S) ==
    /\ g \in [SUBSET S -> Nat] /\ g[{}] = c
    /\ \A T \in SUBSET S : T # {} => g[T] = Less(g[T \ {Any(T)}], f[Any(T)])

LEMMA TakenExists ==
    ASSUME NEW S, IsFiniteSet(S), NEW D, S \subseteq D, NEW f \in [D -> Nat], NEW c \in Nat
    PROVE  \E g : IsTaken(g, f, c, S) /\ Taken(f, c, S) = g[S]
<1>1. \E g \in [SUBSET S -> Nat] : Takes(g, f, c, S)
  <2> DEFINE h == [x \in S |-> [n \in Nat |-> Less(n, f[x])]]
  <2>1. h \in [S -> [Nat -> Nat]]
    BY DEF Less
  <2>2. \A x \in S, n \in Nat : h[x][n] = Less(n, f[x])
    OBVIOUS
  <2> HIDE DEF h
  <2>3. PICK g : Folds(g, h, c, S)
    BY <2>1, FoldExists
  <2>4. \A T \in SUBSET S : T # {} => Any(T) \in S /\ g[T \ {Any(T)}] \in Nat
    BY <2>3, AnyIsMember DEF Folds
  <2>5. \A T \in SUBSET S : g[T] = IF T = {} THEN c ELSE Less(g[T \ {Any(T)}], f[Any(T)])
    BY <2>2, <2>3, <2>4 DEF Folds
  <2> QED
    BY <2>3, <2>5 DEF Takes, Folds, Less
<1>2. PICK g \in [SUBSET S -> Nat] : Takes(g, f, c, S)
  BY <1>1
<1>3. IsTaken(g, f, c, S)
  BY <1>2 DEF Takes, IsTaken, Less
<1>4. ASSUME NEW k, Takes(k, f, c, S)
      PROVE  k[S] = g[S]
  <2> DEFINE Good == {T \in SUBSET S : k[T] = g[T]}
  <2>1. ASSUME NEW T \in SUBSET S, \A x \in T : T \ {x} \in Good
        PROVE  T \in Good
    <3>1. k[T] = IF T = {} THEN c ELSE Less(k[T \ {Any(T)}], f[Any(T)])
      BY <1>4 DEF Takes, Less
    <3>2. g[T] = IF T = {} THEN c ELSE Less(g[T \ {Any(T)}], f[Any(T)])
      BY <1>2 DEF Takes, Less
    <3> QED
      BY <2>1, <3>1, <3>2, AnyIsMember
  <2> HIDE DEF Good
  <2>2. S \in Good
    BY <2>1, SubsetInduction DEF Progressive
  <2> QED
    BY <2>2 DEF Good
<1>5. Takes(CHOOSE k : Takes(k, f, c, S), f, c, S)
  BY <1>2
<1>6. Taken(f, c, S) = g[S]
  BY <1>4, <1>5, TakenIsTake
<1> QED
  BY <1>3, <1>6

\* What is taken one by one, each as a whole or not at all, is the total at most.
LEMMA TakenIsBounded ==
    ASSUME NEW S, IsFiniteSet(S), NEW D, S \subseteq D, NEW f \in [D -> Nat], NEW c \in Nat
    PROVE  Taken(f, c, S) \in Nat /\ Taken(f, c, S) + Total(f, S) >= c
<1>1. PICK g : IsTaken(g, f, c, S) /\ Taken(f, c, S) = g[S]
  BY TakenExists
<1>2. Adds(f, S)
  BY TotalAdds
<1> DEFINE Good == {T \in SUBSET S : g[T] + Total(f, T) >= c}
<1>3. ASSUME NEW T \in SUBSET S, \A x \in T : T \ {x} \in Good
      PROVE  T \in Good
  <2>1. CASE T = {}
    BY <1>1, <1>2, <2>1 DEF IsTaken, Adds
  <2>2. CASE T # {}
    <3> DEFINE x == Any(T)
    <3>1. x \in T /\ Total(f, T) = f[x] + Total(f, T \ {x})
      BY <1>2, <2>2 DEF Adds
    <3>2. g[T] = Less(g[T \ {x}], f[x])
      BY <1>1, <2>2 DEF IsTaken
    <3>3. /\ g[T \ {x}] + Total(f, T \ {x}) >= c
          /\ g[T \ {x}] \in Nat /\ Total(f, T \ {x}) \in Nat /\ f[x] \in Nat
      BY <1>1, <1>2, <1>3, <3>1 DEF IsTaken, Adds
    <3> HIDE DEF x
    <3> QED
      BY <3>1, <3>2, <3>3 DEF Less
  <2> QED
    BY <2>1, <2>2
<1> HIDE DEF Good
<1>4. S \in Good
  BY <1>3, SubsetInduction DEF Progressive
<1> QED
  BY <1>1, <1>4 DEF Good, IsTaken

-----------------------------------------------------------------------------
(* The callers of the print service                                         *)

Counting == <<"own", NoJob>>

\* what can be left of a call
Remaining ==
    {<<>>, <<ManualStart>>, StartService, RegisterPrinterCallback,
     UnregisterPrinterCallback, <<Counting>>}
    \cup {CallSpooler(j) : j \in Jobs} \cup {<<<<"count", j>>>> : j \in Jobs}
    \cup {NotifyPrintService(j) : j \in Jobs}

Counted == {j \in Jobs : printJobMap[j] = "counted"}

\* apps that the service has counted and that have not yet been counted for themselves
Pending == {a \in callerMap : call[a] = <<Counting>>}

FiniteMaps == IsFiniteSet(callerMap) /\ IsFiniteSet(Counted)
OwnIsListed == \A a \in Apps : a \notin callerMap => own[a] = 0
CallsFit == call \in [Apps -> Remaining]
Covers == counter + debt >= Total(own, callerMap) + Cardinality(Counted) + Cardinality(Pending)

CountsInv == TypeOK /\ CallsFit /\ FiniteMaps /\ OwnIsListed /\ Covers

LEMMA RemainingType == Remaining \subseteq Seq(Steps \X (Jobs \cup {NoJob}))
<1> DEFINE E == Steps \X (Jobs \cup {NoJob})
<1>1. /\ ManualStart \in E /\ <<"count", NoJob>> \in E /\ Counting \in E
      /\ <<"remove", NoJob>> \in E
      /\ \A j \in Jobs : <<"count", j>> \in E /\ <<"close", j>> \in E
  BY DEF Steps, ManualStart, Counting
<1>2. \A x, y, z \in E : <<>> \in Seq(E) /\ <<x>> \in Seq(E) /\ <<x, y>> \in Seq(E)
                         /\ <<x, y, z>> \in Seq(E)
  <2> HIDE DEF E
  <2> QED
    OBVIOUS
<1> HIDE DEF E
<1>3. /\ {<<>>, <<ManualStart>>, StartService, RegisterPrinterCallback,
          UnregisterPrinterCallback, <<Counting>>} \subseteq Seq(E)
  BY <1>1, <1>2 DEF StartService, RegisterPrinterCallback, UnregisterPrinterCallback, Counting
<1>4. ASSUME NEW j \in Jobs
      PROVE  /\ CallSpooler(j) \in Seq(E) /\ <<<<"count", j>>>> \in Seq(E)
             /\ NotifyPrintService(j) \in Seq(E)
  BY <1>1, <1>2 DEF CallSpooler, NotifyPrintService
<1>5. Remaining \subseteq Seq(E)
  BY <1>3, <1>4 DEF Remaining
<1> QED
  BY <1>5 DEF E

\* A call goes on with what can be left of one, and the count of an app itself
\* follows that of the service and is the last step.
LEMMA TailRemains ==
    ASSUME NEW c \in Remaining, c # <<>>
    PROVE  /\ Tail(c) \in Remaining
           /\ Head(c) = <<"count", NoJob>> <=> Tail(c) = <<Counting>>
           /\ Head(c) = Counting <=> c = <<Counting>>
<1> USE JobAssumption
<1>1. CASE c = <<ManualStart>>
  <2>1. Head(c) = <<"map", NoJob>> /\ Tail(c) = <<>>
    BY <1>1 DEF ManualStart
  <2> QED
    BY <1>1, <2>1 DEF Remaining, Counting, ManualStart
<1>2. CASE c = StartService
  <2>1. Head(c) = <<"map", NoJob>> /\ Tail(c) = RegisterPrinterCallback
    BY <1>2 DEF ManualStart, StartService, RegisterPrinterCallback
  <2>2. Len(c) = 3 /\ Len(<<Counting>>) = 1 /\ Len(RegisterPrinterCallback) = 2
    BY <1>2 DEF StartService, RegisterPrinterCallback
  <2>3. c # <<Counting>> /\ Tail(c) # <<Counting>>
    BY <2>1, <2>2
  <2>4. Head(c) # <<"count", NoJob>> /\ Head(c) # Counting
    BY <2>1 DEF Counting
  <2>5. Tail(c) \in Remaining
    BY <2>1 DEF Remaining
  <2> QED
    BY <2>3, <2>4, <2>5
<1>3. CASE c = RegisterPrinterCallback
  <2>1. Head(c) = <<"count", NoJob>> /\ Tail(c) = <<Counting>> /\ Len(c) = 2
    BY <1>3 DEF RegisterPrinterCallback, Counting
  <2>2. Len(<<Counting>>) = 1
    OBVIOUS
  <2> QED
    BY <2>1, <2>2 DEF Remaining, Counting
<1>4. CASE c = UnregisterPrinterCallback
  <2>1. Head(c) = <<"remove", NoJob>> /\ Tail(c) = <<>>
    BY <1>4 DEF UnregisterPrinterCallback
  <2> QED
    BY <1>4, <2>1 DEF Remaining, Counting, UnregisterPrinterCallback
<1>5. CASE c = <<Counting>>
  <2>1. Head(c) = Counting /\ Tail(c) = <<>>
    BY <1>5
  <2> QED
    BY <1>5, <2>1 DEF Remaining, Counting
<1>6. ASSUME NEW j \in Jobs, c = CallSpooler(j)
      PROVE  /\ Tail(c) \in Remaining
             /\ Head(c) = <<"count", NoJob>> <=> Tail(c) = <<Counting>>
             /\ Head(c) = Counting <=> c = <<Counting>>
  <2>1. Head(c) = <<"map", NoJob>> /\ Tail(c) = <<<<"count", j>>>> /\ Len(c) = 2
    BY <1>6 DEF CallSpooler, ManualStart
  <2>2. Len(<<Counting>>) = 1 /\ <<<<"count", j>>>> # <<Counting>>
    BY DEF Counting
  <2> QED
    BY <2>1, <2>2 DEF Remaining, Counting
<1>7. ASSUME NEW j \in Jobs, c = <<<<"count", j>>>>
      PROVE  /\ Tail(c) \in Remaining
             /\ Head(c) = <<"count", NoJob>> <=> Tail(c) = <<Counting>>
             /\ Head(c) = Counting <=> c = <<Counting>>
  <2>1. Head(c) = <<"count", j>> /\ Tail(c) = <<>>
    BY <1>7
  <2> QED
    BY <1>7, <2>1 DEF Remaining, Counting
<1>8. ASSUME NEW j \in Jobs, c = NotifyPrintService(j)
      PROVE  /\ Tail(c) \in Remaining
             /\ Head(c) = <<"count", NoJob>> <=> Tail(c) = <<Counting>>
             /\ Head(c) = Counting <=> c = <<Counting>>
  <2>1. Head(c) = <<"close", j>> /\ Tail(c) = <<>>
    BY <1>8 DEF NotifyPrintService
  <2> QED
    BY <1>8, <2>1 DEF Remaining, Counting, NotifyPrintService
<1> QED
  BY <1>1, <1>2, <1>3, <1>4, <1>5, <1>6, <1>7, <1>8 DEF Remaining

\* A step of a call leaves a call.
LEMMA DoneFits ==
    ASSUME CallsFit, NEW a \in Apps, call[a] # <<>>, Done(a)
    PROVE  /\ CallsFit'
           /\ \A b \in Apps : call'[b] = IF b = a THEN Tail(call[a]) ELSE call[b]
<1>1. Tail(call[a]) \in Remaining
  BY TailRemains DEF CallsFit
<1> QED
  BY <1>1 DEF CallsFit, Done

\* Only the two counts of a registration change who is pending.
LEMMA PendingStays ==
    ASSUME CallsFit, NEW a \in Apps, call[a] # <<>>, Done(a), callerMap \subseteq Apps,
           Head(call[a]) # <<"count", NoJob>>, Head(call[a]) # Counting,
           callerMap' \subseteq Apps
    PROVE  Pending' = {b \in callerMap' : call[b] = <<Counting>>}
<1>1. call[a] # <<Counting>> /\ Tail(call[a]) # <<Counting>>
  BY TailRemains DEF CallsFit
<1>2. \A b \in Apps : call'[b] = IF b = a THEN Tail(call[a]) ELSE call[b]
  BY DoneFits
<1> QED
  BY <1>1, <1>2 DEF Pending

-----------------------------------------------------------------------------
(* Facts about the state of the counts                                      *)

LEMMA CountTypes ==
    ASSUME TypeOK, FiniteMaps
    PROVE  /\ Total(own, callerMap) \in Nat /\ Cardinality(Counted) \in Nat
           /\ IsFiniteSet(Pending) /\ Cardinality(Pending) \in Nat
           /\ counter \in Nat /\ debt \in Nat
<1>1. Total(own, callerMap) \in Nat
  BY TotalAdds DEF TypeOK, FiniteMaps, Adds
<1>2. IsFiniteSet(Pending)
  BY FS_Subset DEF FiniteMaps, Pending
<1> QED
  BY <1>1, <1>2, FS_CardinalityType DEF TypeOK, FiniteMaps

\* One job becomes counted: it counts once.
LEMMA CountedGrows ==
    ASSUME FiniteMaps, NEW j \in Jobs, Counted' = Counted \cup {j}
    PROVE  IsFiniteSet(Counted') /\ Cardinality(Counted') <= Cardinality(Counted) + 1
  BY FS_AddElement, FS_CardinalityType DEF FiniteMaps

\* Jobs that are counted no more
LEMMA CountedShrinks ==
    ASSUME FiniteMaps, Counted' \subseteq Counted
    PROVE  IsFiniteSet(Counted') /\ Cardinality(Counted') <= Cardinality(Counted)
  BY FS_Subset, FS_CardinalityType DEF FiniteMaps

LEMMA PendingShrinks ==
    ASSUME TypeOK, FiniteMaps, Pending' \subseteq Pending
    PROVE  Cardinality(Pending') <= Cardinality(Pending) /\ Cardinality(Pending') \in Nat
  BY CountTypes, FS_Subset, FS_CardinalityType

-----------------------------------------------------------------------------
(* One step at a time                                                       *)

LEMMA CallStep ==
    ASSUME CountsInv, NEW a \in Apps, NewCall(a)
    PROVE  CountsInv'
<1>1. PICK c \in Remaining : Call(a, c) /\ c # <<Counting>>
  <2>1. ASSUME NEW c \in {<<ManualStart>>, StartService, RegisterPrinterCallback,
                          UnregisterPrinterCallback}
        PROVE  c \in Remaining /\ c # <<Counting>>
    BY DEF Remaining, ManualStart, StartService, RegisterPrinterCallback,
           UnregisterPrinterCallback, Counting
  <2>2. ASSUME NEW j \in Jobs, NEW c \in {CallSpooler(j), NotifyPrintService(j)}
        PROVE  c \in Remaining /\ c # <<Counting>>
    BY DEF Remaining, CallSpooler, NotifyPrintService, ManualStart, Counting
  <2> QED
    BY <2>1, <2>2 DEF NewCall
<1>2. /\ call' = [call EXCEPT ![a] = c] /\ call[a] = <<>>
      /\ UNCHANGED <<alive, queuedJobs, counts, monitorVars>>
  BY <1>1 DEF Call
<1>3. CallsFit'
  BY <1>2 DEF CountsInv, CallsFit
<1>4. TypeOK'
  BY <1>2, <1>3, RemainingType DEF CountsInv, TypeOK, CallsFit, counts, monitorVars
<1>5. Pending' = Pending
  <2>0. <<>> # <<Counting>>
    OBVIOUS
  <2>1. call[a] # <<Counting>> /\ call'[a] # <<Counting>>
    BY <1>1, <1>2, <2>0 DEF CountsInv, CallsFit
  <2>2. \A b \in Apps : b # a => call'[b] = call[b]
    BY <1>2 DEF CountsInv, CallsFit
  <2> QED
    BY <1>2, <2>1, <2>2 DEF CountsInv, TypeOK, Pending, counts
<1> QED
  BY <1>2, <1>3, <1>4, <1>5
  DEF CountsInv, FiniteMaps, OwnIsListed, Covers, Counted, counts

LEMMA DieStep ==
    ASSUME CountsInv, NEW a \in Apps, Die(a)
    PROVE  CountsInv'
<1>1. alive' \subseteq Apps /\ UNCHANGED <<call, queuedJobs, counts, monitorVars>>
  BY DEF Die, Dies, CountsInv, TypeOK
<1>2. TypeOK'
  BY <1>1 DEF CountsInv, TypeOK, counts, monitorVars
<1> QED
  BY <1>1, <1>2
  DEF CountsInv, CallsFit, FiniteMaps, OwnIsListed, Covers, Counted, Pending, counts

LEMMA MapStep ==
    ASSUME CountsInv, NEW a \in Apps, AddCallerAppToMap(a)
    PROVE  CountsInv'
<1> USE DEF CountsInv
<1>1. /\ call[a] # <<>> /\ Head(call[a]) = <<"map", NoJob>> /\ Done(a)
      /\ callerMap' \in {callerMap, callerMap \cup {a}} /\ delayUnload' \in BOOLEAN
      /\ UNCHANGED <<alive, queuedJobs, own, counter, printJobMap, debt, monitor, dead>>
  BY DEF AddCallerAppToMap, Does, TypeOK
<1>2. CallsFit'
  BY <1>1, DoneFits
<1>3. TypeOK'
  BY <1>1, <1>2, RemainingType DEF TypeOK, CallsFit
<1>4. FiniteMaps'
  BY <1>1, FS_AddElement DEF FiniteMaps, Counted
<1>5. OwnIsListed'
  BY <1>1 DEF OwnIsListed
<1>6. Pending' = Pending
  <2>1. Head(call[a]) # <<"count", NoJob>> /\ Head(call[a]) # Counting
    BY <1>1 DEF Counting
  <2>2. Pending' = {b \in callerMap' : call[b] = <<Counting>>}
    BY <1>1, <1>3, <2>1, PendingStays DEF TypeOK
  <2>3. call[a] # <<Counting>>
    BY <1>1, <2>1, TailRemains DEF CallsFit
  <2> QED
    BY <1>1, <2>2, <2>3 DEF Pending
<1>7. Total(own', callerMap') = Total(own, callerMap)
  <2>1. CASE a \in callerMap
    <3>1. callerMap \cup {a} = callerMap
      BY <2>1
    <3> QED
      BY <1>1, <3>1
  <2>2. CASE a \notin callerMap /\ callerMap' = callerMap \cup {a}
    <3>1. callerMap' \ {a} = callerMap /\ a \in callerMap'
      BY <2>2
    <3>2. Total(own, callerMap') = own[a] + Total(own, callerMap)
      BY <1>3, <1>4, <3>1, TotalRemove DEF TypeOK, FiniteMaps
    <3> QED
      BY <1>1, <2>2, <3>2, CountTypes DEF OwnIsListed
  <2> QED
    BY <1>1, <2>1, <2>2
<1>8. Covers'
  BY <1>1, <1>6, <1>7 DEF Covers, Counted
<1> QED
  BY <1>2, <1>3, <1>4, <1>5, <1>8

\* The count of the service for a registration: the app is pending then.
LEMMA CountRegistration ==
    ASSUME CountsInv, NEW a \in Apps, IncrementPrintCounter(a, NoJob)
    PROVE  CountsInv'
<1> USE DEF CountsInv
<1>1. /\ call[a] # <<>> /\ Head(call[a]) = <<"count", NoJob>> /\ Done(a)
      /\ counter' = IF a \in callerMap THEN counter + 1 ELSE counter
      /\ UNCHANGED <<alive, queuedJobs, callerMap, own, printJobMap, debt, monitorVars>>
  BY JobAssumption DEF IncrementPrintCounter, Does
<1>2. CallsFit'
  BY <1>1, DoneFits
<1>3. TypeOK'
  BY <1>1, <1>2, RemainingType DEF TypeOK, CallsFit, monitorVars
<1>4. FiniteMaps' /\ OwnIsListed'
  BY <1>1 DEF FiniteMaps, Counted, OwnIsListed
<1>5. Pending' = IF a \in callerMap THEN Pending \cup {a} ELSE Pending
  <2>1. Tail(call[a]) = <<Counting>>
    BY <1>1, TailRemains DEF CallsFit
  <2>2. \A b \in Apps : call'[b] = IF b = a THEN <<Counting>> ELSE call[b]
    BY <1>1, <2>1, DoneFits
  <2> QED
    BY <1>1, <2>2 DEF Pending, TypeOK
<1>6. Cardinality(Pending') <= IF a \in callerMap THEN Cardinality(Pending) + 1
                                                 ELSE Cardinality(Pending)
  BY <1>5, CountTypes, FS_AddElement
<1>7. Cardinality(Pending') \in Nat
  BY <1>3, <1>4, CountTypes, FS_Subset, FS_CardinalityType DEF FiniteMaps, Pending
<1>8. Covers'
  BY <1>1, <1>6, <1>7, CountTypes DEF Covers, Counted
<1> QED
  BY <1>2, <1>3, <1>4, <1>8

\* The count of the service for a page
LEMMA CountPage ==
    ASSUME CountsInv, NEW a \in Apps, NEW j \in Jobs, IncrementPrintCounter(a, j)
    PROVE  CountsInv'
<1> USE DEF CountsInv
<1>1. /\ call[a] # <<>> /\ Head(call[a]) = <<"count", j>> /\ Done(a)
      /\ printJobMap' = [printJobMap EXCEPT ![j] =
                             IF a \in callerMap THEN "counted" ELSE "uncounted"]
      /\ counter' = IF a \in callerMap THEN counter + 1 ELSE counter
      /\ UNCHANGED <<alive, queuedJobs, callerMap, own, debt, monitorVars>>
  BY JobAssumption DEF IncrementPrintCounter, Does
<1>2. CallsFit'
  BY <1>1, DoneFits
<1>3. TypeOK'
  BY <1>1, <1>2, RemainingType DEF TypeOK, CallsFit, monitorVars
<1>4. Pending' = Pending
  <2>1. Head(call[a]) # <<"count", NoJob>> /\ Head(call[a]) # Counting
    BY <1>1, JobAssumption DEF Counting
  <2>2. Pending' = {b \in callerMap' : call[b] = <<Counting>>}
    BY <1>1, <1>3, <2>1, PendingStays DEF TypeOK
  <2> QED
    BY <1>1, <2>2 DEF Pending
<1>5. Counted' = IF a \in callerMap THEN Counted \cup {j} ELSE Counted \ {j}
  BY <1>1 DEF Counted, TypeOK
<1>6. /\ IsFiniteSet(Counted') /\ Cardinality(Counted') \in Nat
      /\ Cardinality(Counted') <= IF a \in callerMap THEN Cardinality(Counted) + 1
                                                     ELSE Cardinality(Counted)
  <2>1. CASE a \in callerMap
    BY <1>5, <2>1, CountedGrows, FS_CardinalityType
  <2>2. CASE a \notin callerMap
    BY <1>5, <2>2, CountedShrinks, FS_CardinalityType
  <2> QED
    BY <2>1, <2>2
<1>7. FiniteMaps' /\ OwnIsListed'
  BY <1>1, <1>6 DEF FiniteMaps, OwnIsListed
<1>8. Covers'
  BY <1>1, <1>4, <1>6, CountTypes DEF Covers
<1> QED
  BY <1>2, <1>3, <1>7, <1>8

\* The count of the app itself: it is pending no more.
LEMMA OwnStep ==
    ASSUME CountsInv, NEW a \in Apps, IncrementCallerAppCounter(a)
    PROVE  CountsInv'
<1> USE DEF CountsInv
<1>1. /\ call[a] # <<>> /\ Head(call[a]) = Counting /\ Done(a)
      /\ own' = IF a \in callerMap THEN [own EXCEPT ![a] = @ + 1] ELSE own
      /\ UNCHANGED <<alive, queuedJobs, callerMap, counter, printJobMap, debt, monitorVars>>
  BY DEF IncrementCallerAppCounter, Does, Counting
<1>2. CallsFit'
  BY <1>1, DoneFits
<1>3. own' \in [Apps -> Nat]
  BY <1>1 DEF TypeOK
<1>4. TypeOK'
  BY <1>1, <1>2, <1>3, RemainingType DEF TypeOK, CallsFit, monitorVars
<1>5. FiniteMaps' /\ OwnIsListed'
  BY <1>1 DEF FiniteMaps, Counted, OwnIsListed, TypeOK
<1>6. call[a] = <<Counting>> /\ Pending' = Pending \ {a}
  <2>1. call[a] = <<Counting>> /\ Tail(call[a]) # <<Counting>>
    BY <1>1, TailRemains DEF CallsFit, Counting
  <2>2. \A b \in Apps : call'[b] = IF b = a THEN Tail(call[a]) ELSE call[b]
    BY <1>1, DoneFits
  <2> QED
    BY <1>1, <2>1, <2>2 DEF Pending, TypeOK
<1>7. CASE a \in callerMap
  <2>0. a \in Pending
    BY <1>6, <1>7 DEF Pending
  <2>1. Cardinality(Pending') = Cardinality(Pending) - 1
    BY <1>6, <2>0, CountTypes, FS_RemoveElement
  <2>2. /\ Total(own, callerMap) = own[a] + Total(own, callerMap \ {a})
        /\ Total(own', callerMap) = own'[a] + Total(own', callerMap \ {a})
    BY <1>3, <1>7, TotalRemove DEF TypeOK, FiniteMaps
  <2>3. Total(own', callerMap \ {a}) = Total(own, callerMap \ {a})
    <3>1. \A b \in callerMap \ {a} : own'[b] = own[b]
      BY <1>1 DEF TypeOK
    <3>2. IsFiniteSet(callerMap \ {a}) /\ callerMap \ {a} \subseteq Apps
      BY FS_Subset DEF FiniteMaps, TypeOK
    <3> QED
      BY <1>3, <3>1, <3>2, TotalSame DEF TypeOK
  <2>4. own'[a] = own[a] + 1 /\ own[a] \in Nat /\ Total(own, callerMap \ {a}) \in Nat
    BY <1>1, <1>7, TotalAdds DEF TypeOK, FiniteMaps, Adds
  <2>5. Total(own', callerMap) = Total(own, callerMap) + 1
    BY <2>2, <2>3, <2>4
  <2>6. Counted' = Counted
    BY <1>1 DEF Counted
  <2>7. Covers'
    BY <1>1, <2>1, <2>5, <2>6, CountTypes DEF Covers
  <2> QED
    BY <1>2, <1>4, <1>5, <2>7
<1>8. CASE a \notin callerMap
  <2>1. Pending' = Pending
    BY <1>6, <1>8 DEF Pending
  <2> QED
    BY <1>1, <1>2, <1>4, <1>5, <1>8, <2>1 DEF Covers, Counted
<1> QED
  BY <1>7, <1>8

\* A page is closed: it is no longer counted, or the debt grows.
LEMMA CloseStep ==
    ASSUME CountsInv, NEW a \in Apps, NEW j \in Jobs, DecrementPrintCounter(a, j)
    PROVE  CountsInv'
<1> USE DEF CountsInv
<1>1. /\ call[a] # <<>> /\ Head(call[a]) = <<"close", j>> /\ Done(a)
      /\ UNCHANGED <<alive, queuedJobs, callerMap, own, monitorVars>>
  BY DEF DecrementPrintCounter, Does
<1>2. CallsFit'
  BY <1>1, DoneFits
<1>3. /\ counter' \in Nat /\ debt' \in Nat
      /\ printJobMap' \in [Jobs -> {"none", "counted", "uncounted", "closed"}]
  BY CountTypes DEF DecrementPrintCounter, Decremented, TypeOK
<1>4. TypeOK'
  BY <1>1, <1>2, <1>3, RemainingType DEF TypeOK, CallsFit, monitorVars
<1>5. Pending' = Pending
  <2>1. Head(call[a]) # <<"count", NoJob>> /\ Head(call[a]) # Counting
    BY <1>1 DEF Counting
  <2>2. Pending' = {b \in callerMap' : call[b] = <<Counting>>}
    BY <1>1, <1>4, <2>1, PendingStays DEF TypeOK
  <2> QED
    BY <1>1, <2>2 DEF Pending
<1>6. Counted' = Counted \ {j}
  BY DEF DecrementPrintCounter, Counted, TypeOK
<1>7. IsFiniteSet(Counted') /\ Cardinality(Counted') \in Nat
  BY <1>6, CountedShrinks, FS_CardinalityType
<1>8. FiniteMaps' /\ OwnIsListed'
  BY <1>1, <1>7 DEF FiniteMaps, OwnIsListed
<1>9. counter' + debt' + Cardinality(Counted) >= counter + debt + Cardinality(Counted')
  <2>1. CASE j \in Counted
    <3>1. Cardinality(Counted') = Cardinality(Counted) - 1
      BY <1>6, <2>1, FS_RemoveElement DEF FiniteMaps
    <3>2. printJobMap[j] = "counted"
      BY <2>1 DEF Counted
    <3>3. counter' >= counter - 1 /\ debt' = debt
      BY <3>2, CountTypes DEF DecrementPrintCounter, Decremented
    <3> QED
      BY <1>3, <1>7, <3>1, <3>3, CountTypes
  <2>2. CASE j \notin Counted
    <3>1. Counted' = Counted
      BY <1>6, <2>2
    <3>2. printJobMap[j] # "counted"
      BY <2>2 DEF Counted
    <3>3. counter' + debt' >= counter + debt
      BY <3>2, CountTypes DEF DecrementPrintCounter, Decremented
    <3> QED
      BY <1>3, <3>1, <3>3, CountTypes
  <2> QED
    BY <2>1, <2>2
<1>10. Covers'
  <2>1. Total(own', callerMap') = Total(own, callerMap)
    BY <1>1
  <2> QED
    BY <1>3, <1>5, <1>7, <1>9, <2>1, CountTypes DEF Covers
<1> QED
  BY <1>2, <1>4, <1>8, <1>10

\* Apps that leave the map take their counts with them, and what is taken from
\* the count of the service is no more than that.
LEMMA RemovedFits ==
    ASSUME CountsInv, NEW S \in SUBSET Apps, Removed(S), CallsFit',
           counter' \in Nat, counter' + Total(own, S \cap callerMap) >= counter,
           Pending' \subseteq Pending,
           UNCHANGED <<alive, queuedJobs, printJobMap, debt, delayUnload>>,
           monitor' \in {"check", "remove", "delay", "try", "unload", "off"},
           dead' \subseteq Apps
    PROVE  CountsInv'
<1> USE DEF CountsInv
<1>1. /\ callerMap' = callerMap \ S
      /\ own' = [a \in Apps |-> IF a \in S THEN 0 ELSE own[a]]
  BY DEF Removed
<1>2. own' \in [Apps -> Nat]
  BY <1>1 DEF TypeOK
<1>3. TypeOK'
  BY <1>1, <1>2, RemainingType DEF TypeOK, CallsFit
<1>4. FiniteMaps' /\ OwnIsListed'
  BY <1>1, FS_Subset DEF FiniteMaps, OwnIsListed, Counted
<1>5. Total(own', callerMap') = Total(own, callerMap')
  <2>1. \A b \in callerMap' : own'[b] = own[b]
    BY <1>1 DEF TypeOK
  <2> QED
    BY <1>2, <1>3, <1>4, <2>1, TotalSame DEF TypeOK, FiniteMaps
<1>6. Total(own, callerMap) = Total(own, S \cap callerMap) + Total(own, callerMap')
  <2>1. callerMap \ (S \cap callerMap) = callerMap'
    BY <1>1
  <2> QED
    BY <2>1, TotalSplit DEF TypeOK, FiniteMaps
<1>7. Total(own, S \cap callerMap) \in Nat /\ Total(own, callerMap') \in Nat
  BY <1>1, TotalAdds DEF TypeOK, FiniteMaps, Adds
<1>8. Cardinality(Pending') <= Cardinality(Pending) /\ Cardinality(Pending') \in Nat
  BY PendingShrinks
<1>9. Counted' = Counted
  BY DEF Counted
<1>10. Covers'
  BY <1>5, <1>6, <1>7, <1>8, <1>9, CountTypes DEF Covers
<1> QED
  BY <1>3, <1>4, <1>10

LEMMA RemoveStep ==
    ASSUME CountsInv, NEW a \in Apps, RemoveCallerAppFromMap(a)
    PROVE  CountsInv'
<1> USE DEF CountsInv
<1>1. /\ call[a] # <<>> /\ Head(call[a]) = <<"remove", NoJob>> /\ Done(a)
      /\ counter' = IF a \in callerMap THEN Decremented(own[a]) ELSE counter
      /\ Removed({a}) /\ UNCHANGED <<alive, queuedJobs, printJobMap, debt, monitorVars>>
  BY DEF RemoveCallerAppFromMap, Does
<1>2. CallsFit'
  BY <1>1, DoneFits
<1>3. Pending' \subseteq Pending
  <2>1. Head(call[a]) # <<"count", NoJob>> /\ Head(call[a]) # Counting
    BY <1>1 DEF Counting
  <2>2. callerMap' \subseteq callerMap
    BY <1>1 DEF Removed
  <2>3. Pending' = {b \in callerMap' : call[b] = <<Counting>>}
    BY <1>1, <2>1, <2>2, PendingStays DEF TypeOK
  <2> QED
    BY <2>2, <2>3 DEF Pending
<1>4. counter' \in Nat /\ counter' + Total(own, {a} \cap callerMap) >= counter
  <2>1. Total(own, {a}) = own[a] /\ Total(own, {}) = 0
    <3>1. IsFiniteSet({a}) /\ {a} \subseteq Apps /\ {a} \ {a} = {}
      BY FS_AddElement, FS_EmptySet
    <3>2. Total(own, {}) = 0
      <4>1. Adds(own, {a})
        BY <3>1, TotalAdds DEF TypeOK
      <4> QED
        BY <4>1 DEF Adds
    <3>3. Total(own, {a}) = own[a] + Total(own, {})
      BY <3>1, TotalRemove DEF TypeOK
    <3> QED
      BY <3>2, <3>3 DEF TypeOK
  <2>2. own[a] \in Nat /\ counter \in Nat
    BY DEF TypeOK
  <2> DEFINE D == {a} \cap callerMap
  <2> SUFFICES counter' \in Nat /\ counter' + Total(own, D) >= counter
    OBVIOUS
  <2>3. CASE a \in callerMap
    <3>1. D = {a}
      BY <2>3
    <3> HIDE DEF D
    <3> QED
      BY <1>1, <2>1, <2>2, <2>3, <3>1 DEF Decremented
  <2>4. CASE a \notin callerMap
    <3>1. D = {}
      BY <2>4
    <3> HIDE DEF D
    <3> QED
      BY <1>1, <2>1, <2>2, <2>4, <3>1
  <2> QED
    BY <2>3, <2>4
<1>5. /\ monitor' \in {"check", "remove", "delay", "try", "unload", "off"}
      /\ dead' \subseteq Apps
  BY <1>1 DEF monitorVars, TypeOK
<1> QED
  BY <1>1, <1>2, <1>3, <1>4, <1>5, RemovedFits DEF monitorVars

LEMMA RemoveDeadStep ==
    ASSUME CountsInv, RemoveDeadApps
    PROVE  CountsInv'
<1> USE DEF CountsInv
<1>1. /\ monitor' = "delay" /\ dead' = {} /\ Removed(dead)
      /\ counter' = Taken(own, counter, dead \cap callerMap)
      /\ UNCHANGED <<alive, call, queuedJobs, printJobMap, debt, delayUnload>>
  BY DEF RemoveDeadApps, MonitorVarsStay
<1>2. CallsFit'
  BY <1>1 DEF CallsFit
<1>3. Pending' \subseteq Pending
  BY <1>1 DEF Removed, Pending
<1>4. counter' \in Nat /\ counter' + Total(own, dead \cap callerMap) >= counter
  <2>1. IsFiniteSet(dead \cap callerMap) /\ dead \cap callerMap \subseteq Apps
    BY FS_Subset DEF FiniteMaps, TypeOK
  <2> QED
    BY <1>1, <2>1, TakenIsBounded DEF TypeOK
<1> QED
  BY <1>1, <1>2, <1>3, <1>4, RemovedFits DEF TypeOK

LEMMA MonitorStep ==
    ASSUME CountsInv, MonitorCallerApps
    PROVE  CountsInv'
<1>1. ASSUME TypeOK', UNCHANGED <<call, counts>>
      PROVE  CountsInv'
  BY <1>1 DEF CountsInv, CallsFit, FiniteMaps, OwnIsListed, Covers, Counted, Pending, counts
<1> USE DEF MonitorVarsStay, counts
<1>2. CASE CheckAppsLiveness
  BY <1>1, <1>2 DEF CheckAppsLiveness, CountsInv, TypeOK
<1>3. CASE RemoveDeadApps
  BY <1>3, RemoveDeadStep
<1>4. CASE ShouldDelayUnload
  BY <1>1, <1>4 DEF ShouldDelayUnload, CountsInv, TypeOK
<1>5. CASE TryUnload
  BY <1>1, <1>5 DEF TryUnload, CountsInv, TypeOK
<1>6. CASE UnloadSystemAbility
  BY <1>1, <1>6 DEF UnloadSystemAbility, CountsInv, TypeOK
<1> QED
  BY <1>2, <1>3, <1>4, <1>5, <1>6 DEF MonitorCallerApps

LEMMA JobStep ==
    ASSUME CountsInv, NEW j \in Jobs, EnqueueJob(j) \/ FinishJob(j)
    PROVE  CountsInv'
<1> USE DEF CountsInv
<1>1. /\ UNCHANGED <<alive, call, callerMap, own, counter, debt, monitorVars>>
      /\ queuedJobs' \subseteq Jobs
      /\ printJobMap' \in [Jobs -> {"none", "counted", "uncounted", "closed"}]
      /\ Counted' \subseteq Counted
  BY DEF EnqueueJob, FinishJob, counts, TypeOK, Counted
<1>2. TypeOK' /\ CallsFit' /\ OwnIsListed' /\ Pending' = Pending
  BY <1>1 DEF TypeOK, CallsFit, OwnIsListed, Pending, monitorVars
<1>3. IsFiniteSet(Counted') /\ Cardinality(Counted') <= Cardinality(Counted)
  BY <1>1, CountedShrinks
<1>4. FiniteMaps' /\ Cardinality(Counted') \in Nat
  BY <1>1, <1>3, FS_CardinalityType DEF FiniteMaps
<1>5. Covers'
  BY <1>1, <1>2, <1>3, <1>4, CountTypes DEF Covers
<1> QED
  BY <1>2, <1>4, <1>5

LEMMA InitCounts == Init => CountsInv
<1> SUFFICES ASSUME Init
             PROVE  CountsInv
  OBVIOUS
<1>1. callerMap = {} /\ Counted = {} /\ Pending = {}
  BY DEF Init, Counted, Pending
<1>2. CallsFit
  BY DEF Init, CallsFit, Remaining
<1>3. TypeOK
  BY <1>2, RemainingType DEF Init, TypeOK, CallsFit
<1>4. Total(own, {}) = 0 /\ Cardinality({}) = 0 /\ IsFiniteSet({})
  BY <1>3, FS_EmptySet, TotalAdds DEF TypeOK, Adds
<1> QED
  BY <1>1, <1>2, <1>3, <1>4 DEF Init, CountsInv, FiniteMaps, OwnIsListed, Covers

LEMMA NextCounts == CountsInv /\ [Next]_vars => CountsInv'
<1> SUFFICES ASSUME CountsInv, [Next]_vars
             PROVE  CountsInv'
  OBVIOUS
<1>1. ASSUME NEW a \in Apps, NewCall(a) PROVE CountsInv'
  BY <1>1, CallStep
<1>2. ASSUME NEW a \in Apps, Die(a) PROVE CountsInv'
  BY <1>2, DieStep
<1>3. ASSUME NEW a \in Apps, Serve(a) PROVE CountsInv'
  BY <1>3, MapStep, CountRegistration, CountPage, OwnStep, CloseStep, RemoveStep DEF Serve
<1>4. ASSUME NEW j \in Jobs, EnqueueJob(j) \/ FinishJob(j) PROVE CountsInv'
  BY <1>4, JobStep
<1>5. CASE MonitorCallerApps
  BY <1>5, MonitorStep
<1>6. CASE UNCHANGED vars
  <2>1. UNCHANGED vars
    BY <1>6
  <2> QED
    BY <2>1 DEF vars, counts, monitorVars, CountsInv, TypeOK, CallsFit, FiniteMaps,
                OwnIsListed, Covers, Counted, Pending
<1> QED
  BY <1>1, <1>2, <1>3, <1>4, <1>5, <1>6 DEF Next

\* The monitor of the callers keeps its types: the calls, the counts and the
\* states of the pages, in every interleaving of apps, jobs and thread.
THEOREM TypeCorrect == Spec => []TypeOK
<1>1. CountsInv => TypeOK
  BY DEF CountsInv
<1> QED
  BY <1>1, InitCounts, NextCounts, PTL DEF Spec

\* However many apps and jobs there are, and wherever an app dies in a call, the
\* count on which the unload is decided covers the registered apps and the open
\* pages that were counted, less the closed pages that had not been.
THEOREM CountCovers == Spec => []CountCoversTheApps
<1>1. CountsInv => CountCoversTheApps
  <2> SUFFICES ASSUME CountsInv
               PROVE  CountCoversTheApps
    OBVIOUS
  <2> USE DEF CountsInv
  <2>1. counter + debt >= Total(own, callerMap) + Cardinality(Counted)
    BY CountTypes DEF Covers
  <2> QED
    BY <2>1 DEF CountCoversTheApps, Counted
<1> QED
  BY <1>1, InitCounts, NextCounts, PTL DEF Spec

-----------------------------------------------------------------------------
(* The queues of the handler stay sequences of tasks                        *)

LEMMA StopBeforeType ==
    ASSUME NEW q \in Seq(Tasks), NEW n \in Nat, n <= Len(q)
    PROVE  StopBefore(q, n) \in Seq(Tasks)
<1>1. SubSeq(q, 1, Len(q) - n) \in Seq(Tasks)
  OBVIOUS
<1>2. SubSeq(q, Len(q) - n + 1, Len(q)) \in Seq(Tasks)
  OBVIOUS
<1>3. <<"stop">> \in Seq(Tasks)
  BY DEF Tasks
<1>4. SubSeq(q, 1, Len(q) - n) \o <<"stop">> \in Seq(Tasks)
  BY <1>1, <1>3
<1> QED
  BY <1>2, <1>4 DEF StopBefore

LEMMA PostStartType ==
    ASSUME DiscoveryTypeOK, NEW S, PostStart(S)
    PROVE  tasks' \in [Extensions -> Seq(Tasks)]
<1>1. \A e \in Extensions : Append(tasks[e], "start") \in Seq(Tasks)
  BY DEF DiscoveryTypeOK, Tasks
<1> QED
  BY <1>1 DEF PostStart, DiscoveryTypeOK

LEMMA StopExtensionsType ==
    ASSUME DiscoveryTypeOK, StopExtensions
    PROVE  tasks' \in [Extensions -> Seq(Tasks)]
<1>1. PICK n \in [Extensions -> 0..MaxTasks] :
          /\ \A e \in Extensions : Overtaken(tasks[e], n[e])
          /\ tasks' = [e \in Extensions |-> IF ext[e] # "unload"
                                            THEN StopBefore(tasks[e], n[e]) ELSE tasks[e]]
  BY DEF StopExtensions
<1>2. ASSUME NEW e \in Extensions PROVE StopBefore(tasks[e], n[e]) \in Seq(Tasks)
  <2>1. tasks[e] \in Seq(Tasks) /\ n[e] \in Nat
    BY BoundsAssumption DEF DiscoveryTypeOK
  <2>2. n[e] <= Len(tasks[e])
    BY <1>1 DEF Overtaken
  <2> QED
    BY <2>1, <2>2, StopBeforeType
<1>3. \A e \in Extensions : tasks[e] \in Seq(Tasks)
  BY DEF DiscoveryTypeOK
<1>4. \A e \in Extensions : tasks'[e] \in Seq(Tasks)
  BY <1>1, <1>2, <1>3
<1>5. tasks' = [e \in Extensions |-> tasks'[e]]
  BY <1>1
<1> QED
  BY <1>4, <1>5

-----------------------------------------------------------------------------
(* Type correctness                                                         *)

LEMMA InitDiscoveryTypeOK == DiscoveryInit => DiscoveryTypeOK
<1> SUFFICES ASSUME DiscoveryInit PROVE DiscoveryTypeOK
  OBVIOUS
<1>1. tasks \in [Extensions -> Seq(Tasks)]
  <2>1. <<>> \in Seq(Tasks)
    OBVIOUS
  <2> QED
    BY <2>1 DEF DiscoveryInit
<1>2. /\ resets \in [Extensions -> Nat] /\ connections \in [Extensions -> Nat]
      /\ ext \in [Extensions -> ExtensionStates]
      /\ process \in [Extensions -> {"none", "starting", "registered", "refused", "up"}]
      /\ request \in [Apps -> {"none", "start", "stop"}]
  BY DEF DiscoveryInit, ExtensionStates
<1> QED
  BY <1>1, <1>2 DEF DiscoveryInit, DiscoveryTypeOK

LEMMA StartTypeOK ==
    ASSUME DiscoveryTypeOK, NEW a \in Apps, NEW S \in SUBSET Extensions,
           NEW C \in SUBSET Extensions, StartDiscoverPrinter(a, S, C)
    PROVE  DiscoveryTypeOK'
<1>1. tasks' \in [Extensions -> Seq(Tasks)]
  BY PostStartType DEF StartDiscoverPrinter, StartExtensionDiscovery
<1>2. /\ ext' \in [Extensions -> ExtensionStates]
      /\ process' \in [Extensions -> {"none", "starting", "registered", "refused", "up"}]
      /\ connections' \in [Extensions -> Nat]
  BY DEF StartDiscoverPrinter, StartExtensionDiscovery, DiscoveryTypeOK, ExtensionStates
<1>3. /\ request' \in [Apps -> {"none", "start", "stop"}]
      /\ watcher' \in {"off", "check", "erase", "decide", "stop", "extensions", "exit"}
      /\ discoverers' \subseteq Apps /\ drivers' \in BOOLEAN /\ late' \in BOOLEAN
  BY DEF StartDiscoverPrinter, Serves, DiscoveryTypeOK
<1>4. /\ UNCHANGED <<alive, queued, watcherDead, resets, discovering>>
  BY DEF StartDiscoverPrinter, StartExtensionDiscovery
<1> QED
  BY <1>1, <1>2, <1>3, <1>4 DEF DiscoveryTypeOK

LEMMA StopTypeOK ==
    ASSUME DiscoveryTypeOK, NEW a \in Apps, StopDiscoverPrinter(a)
    PROVE  DiscoveryTypeOK'
<1>1. tasks' \in [Extensions -> Seq(Tasks)]
  BY StopExtensionsType DEF StopDiscoverPrinter, DiscoveryTypeOK, extVars
<1>2. UNCHANGED <<ext, process, connections, resets, discovering>>
  BY DEF StopDiscoverPrinter, StopExtensions, extVars
<1>3. /\ request' \in [Apps -> {"none", "start", "stop"}]
      /\ discoverers' \subseteq Apps /\ drivers' \in BOOLEAN
  BY DEF StopDiscoverPrinter, Serves, DiscoveryTypeOK
<1>4. UNCHANGED <<alive, queued, watcher, watcherDead, late>>
  BY DEF StopDiscoverPrinter, watcherVars
<1> QED
  BY <1>1, <1>2, <1>3, <1>4 DEF DiscoveryTypeOK

LEMMA MonitorTypeOK ==
    ASSUME DiscoveryTypeOK, DiscoveryCallerAppsMonitor
    PROVE  DiscoveryTypeOK'
<1> USE DEF DiscoveryTypeOK, appVars, extVars
<1>1. CASE CheckDiscoverers
  BY <1>1 DEF CheckDiscoverers
<1>2. CASE EraseDiscoverers
  BY <1>2 DEF EraseDiscoverers
<1>3. CASE DecideToStop
  BY <1>3 DEF DecideToStop
<1>4. CASE StopDrivers
  BY <1>4 DEF StopDrivers
<1>5. CASE StopTheExtensions
  <2>1. tasks' \in [Extensions -> Seq(Tasks)]
    BY <1>5, StopExtensionsType DEF StopTheExtensions
  <2> QED
    BY <1>5, <2>1 DEF StopTheExtensions, StopExtensions
<1>6. CASE ExitMonitor
  BY <1>6 DEF ExitMonitor
<1> QED
  BY <1>1, <1>2, <1>3, <1>4, <1>5, <1>6 DEF DiscoveryCallerAppsMonitor

LEMMA ExtensionTypeOK ==
    ASSUME DiscoveryTypeOK, NEW e \in Extensions, Extension(e) \/ ServiceHandler(e)
    PROVE  DiscoveryTypeOK'
<1> USE DEF DiscoveryTypeOK, appVars, watcherVars, OthersStay
<1>1. CASE RegisterExtCallback(e)
  BY <1>1 DEF RegisterExtCallback
<1>2. CASE LoadExtSuccess(e)
  <2>1. tasks' \in [Extensions -> Seq(Tasks)]
    BY <1>2, PostStartType DEF LoadExtSuccess
  <2> QED
    BY <1>2, <2>1 DEF LoadExtSuccess, ExtensionStates
<1>3. CASE DieExtension(e)
  <2>1. resets' \in [Extensions -> Nat]
    BY <1>3 DEF DieExtension
  <2> QED
    BY <1>3, <2>1 DEF DieExtension
<1>4. CASE ResetExtensionState(e)
  <2>1. resets' \in [Extensions -> Nat]
    BY <1>4 DEF ResetExtensionState
  <2> QED
    BY <1>4, <2>1 DEF ResetExtensionState, ExtensionStates
<1>5. ASSUME tasks[e] # <<>> PROVE Tail(tasks[e]) \in Seq(Tasks)
  BY <1>5
<1>6. CASE DelayStartDiscovery(e)
  BY <1>5, <1>6 DEF DelayStartDiscovery
<1>7. CASE PostedStop(e)
  BY <1>5, <1>7 DEF PostedStop
<1> QED
  BY <1>1, <1>2, <1>3, <1>4, <1>6, <1>7 DEF Extension, ServiceHandler

LEMMA NextDiscoveryTypeOK == DiscoveryTypeOK /\ [DiscoveryNext]_discoveryVars => DiscoveryTypeOK'
<1> SUFFICES ASSUME DiscoveryTypeOK, [DiscoveryNext]_discoveryVars PROVE DiscoveryTypeOK'
  OBVIOUS
<1>1. ASSUME NEW a \in Apps, NEW what \in {"start", "stop"}, Request(a, what) PROVE DiscoveryTypeOK'
  BY <1>1 DEF Request, DiscoveryTypeOK, watcherVars, extVars
<1>2. ASSUME NEW a \in Apps, AppDies(a) PROVE DiscoveryTypeOK'
  BY <1>2 DEF AppDies, Dies, DiscoveryTypeOK, watcherVars, extVars
<1>3. ASSUME NEW a \in Apps, ServeDiscovery(a) PROVE DiscoveryTypeOK'
  BY <1>3, StartTypeOK, StopTypeOK DEF ServeDiscovery
<1>4. CASE DestroyExtension
  BY <1>4 DEF DestroyExtension, DiscoveryTypeOK, appVars, watcherVars, ExtensionStates
<1>5. CASE QueueJob \/ FinishJobs
  BY <1>5 DEF QueueJob, FinishJobs, DiscoveryTypeOK, appVars, watcherVars, extVars
<1>6. CASE DiscoveryCallerAppsMonitor
  BY <1>6, MonitorTypeOK
<1>7. ASSUME NEW e \in Extensions, Extension(e) \/ ServiceHandler(e) PROVE DiscoveryTypeOK'
  BY <1>7, ExtensionTypeOK
<1>8. CASE UNCHANGED discoveryVars
  BY <1>8 DEF DiscoveryTypeOK, discoveryVars, appVars, watcherVars, extVars
<1> QED
  BY <1>1, <1>2, <1>3, <1>4, <1>5, <1>6, <1>7, <1>8 DEF DiscoveryNext

\* The discovery keeps its types: the monitor thread, the states of the
\* extensions and the posted tasks, in every interleaving.
THEOREM DiscoveryTypeCorrect == DiscoverySpec => []DiscoveryTypeOK
  BY InitDiscoveryTypeOK, NextDiscoveryTypeOK, PTL DEF DiscoverySpec

-----------------------------------------------------------------------------
(* The discovery is watched                                                 *)

LEMMA NextIsWatched ==
    DiscoveryTypeOK /\ DiscoveryIsWatched /\ [DiscoveryNext]_discoveryVars => DiscoveryIsWatched'
<1> SUFFICES ASSUME DiscoveryTypeOK, DiscoveryIsWatched, [DiscoveryNext]_discoveryVars PROVE DiscoveryIsWatched'
  OBVIOUS
<1> USE DEF DiscoveryIsWatched
<1>1. ASSUME NEW a \in Apps, NEW S \in SUBSET Extensions, NEW C \in SUBSET Extensions,
             StartDiscoverPrinter(a, S, C)
      PROVE  DiscoveryIsWatched'
  <2>1. watcher \in {"off", "check", "erase", "decide", "stop", "extensions", "exit"}
    BY DEF DiscoveryTypeOK
  <2> QED
    BY <1>1, <2>1 DEF StartDiscoverPrinter
<1>2. ASSUME NEW a \in Apps, StopDiscoverPrinter(a) PROVE DiscoveryIsWatched'
  BY <1>2 DEF StopDiscoverPrinter, watcherVars
<1>3. CASE DiscoveryCallerAppsMonitor
  BY <1>3 DEF DiscoveryCallerAppsMonitor, CheckDiscoverers, EraseDiscoverers,
              DecideToStop, StopDrivers, StopTheExtensions, ExitMonitor
<1>4. CASE UNCHANGED <<drivers, watcherVars>>
  BY <1>4 DEF watcherVars
<1> QED
  BY <1>1, <1>2, <1>3, <1>4
  DEF DiscoveryNext, Request, AppDies, Dies, ServeDiscovery, DestroyExtension, QueueJob, FinishJobs, Extension,
      RegisterExtCallback, LoadExtSuccess, DieExtension, ResetExtensionState,
      ServiceHandler, DelayStartDiscovery, PostedStop, OthersStay, discoveryVars

\* Whatever apps and extensions do, the drivers discover only while the monitor
\* will still decide about them, or after a start in the window of its end.
THEOREM IsWatched == DiscoverySpec => []DiscoveryIsWatched
<1>1. DiscoveryInit => DiscoveryIsWatched
  BY DEF DiscoveryInit, DiscoveryIsWatched
<1> QED
  BY <1>1, DiscoveryTypeCorrect, NextIsWatched, PTL DEF DiscoverySpec
=============================================================================
