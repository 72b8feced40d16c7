-------------------------- MODULE BrokerBooksProofs --------------------------
(***************************************************************************)
(* Theorems about the books of PaperBroker: that a fill respects the limit *)
(* of its order, that the orders, the positions and the cash are what the  *)
(* list of fills adds up to, and that value is conserved while nothing is  *)
(* short, for any number of symbols, orders and fills.                     *)
(*                                                                         *)
(* None of these is inductive on its own.  BooksInv adds that a fill names *)
(* an order that is FILLED (so nothing changes it afterwards, and no       *)
(* second fill can name it) and speaks of any table, holding, worth, cash  *)
(* and list (Books), so that it can be carried through the turns of a scan *)
(* and the closings of a square-off, whose intermediate books no variable  *)
(* holds.                                                                  *)
(***************************************************************************)
EXTENDS PaperBrokerProofs

-----------------------------------------------------------------------------
(* Sums over a finite set                                                    *)

\* The sum of the values of the function f on the set S.
Sum(f, S) == MapThenSumSet(LAMBDA x : f[x], S)

\* The element that MapThenSumSet takes out of T next.
First(T) == CHOOSE x \in T : TRUE

\* g adds up f over every subset of S, as MapThenSumSet does.
IsSum(g, f, S) ==
    g = [T \in SUBSET S |-> IF T = {} THEN 0 ELSE f[First(T)] + g[T \ {First(T)}]]

\* A set that is not empty has a first element.
LEMMA FirstIn == ASSUME NEW T, T # {} PROVE First(T) \in T
  BY Zenon DEF First

\* By its definition, Sum chooses such a function and takes its value at S.
LEMMA SumChoice ==
    ASSUME NEW f, NEW S
    PROVE  Sum(f, S) = (CHOOSE g : IsSum(g, f, S))[S]
  BY DEF Sum, IsSum, First, MapThenSumSet, MapThenFoldSet

\* Such a function exists: by induction over the size of the subsets.
LEMMA SumExists ==
    ASSUME NEW f, NEW S, IsFiniteSet(S)
    PROVE  \E g : IsSum(g, f, S)
<1>. DEFINE Small(n) == {T \in SUBSET S : Cardinality(T) <= n}
            Upto(g, n) == g = [T \in Small(n) |->
                                 IF T = {} THEN 0 ELSE f[First(T)] + g[T \ {First(T)}]]
            Runs == {n \in Nat : \E g : Upto(g, n)}
<1>1. \A T \in SUBSET S : IsFiniteSet(T) /\ Cardinality(T) \in Nat /\ Cardinality(T) <= Cardinality(S)
  <2>. SUFFICES ASSUME NEW T \in SUBSET S
                PROVE  IsFiniteSet(T) /\ Cardinality(T) \in Nat /\ Cardinality(T) <= Cardinality(S)
    OBVIOUS
  <2>. QED BY FS_Subset, FS_CardinalityType
<1>2. Cardinality(S) \in Nat
  BY FS_CardinalityType
<1>3. \A T \in SUBSET S : T # {} =>
         /\ T \ {First(T)} \in SUBSET S
         /\ Cardinality(T \ {First(T)}) = Cardinality(T) - 1
  <2>. SUFFICES ASSUME NEW T \in SUBSET S, T # {}
                PROVE  Cardinality(T \ {First(T)}) = Cardinality(T) - 1
    OBVIOUS
  <2>. QED BY <1>1, FirstIn, FS_RemoveElement
<1>4. 0 \in Runs
  <2>. DEFINE g == [T \in Small(0) |-> 0]
  <2>1. \A T \in Small(0) : T = {}
    BY <1>1, FS_EmptySet
  <2>2. Upto(g, 0)
    BY <2>1
  <2>. QED BY <2>2
<1>5. ASSUME NEW n \in Nat, n \in Runs PROVE n + 1 \in Runs
  <2>1. PICK g : Upto(g, n) BY <1>5
  <2>. DEFINE h == [T \in Small(n + 1) |->
                      IF T = {} THEN 0 ELSE f[First(T)] + g[T \ {First(T)}]]
  <2>2. \A T \in Small(n + 1) : T # {} => T \ {First(T)} \in Small(n)
    BY <1>1, <1>3
  <2>3. \A T \in Small(n) : T \in Small(n + 1) /\ g[T] = h[T]
    <3>1. \A T \in Small(n) : T \in Small(n + 1)
      BY <1>1
    <3>. HIDE DEF Small
    <3>. QED BY <2>1, <3>1
  <2>4. Upto(h, n + 1)
    <3>. HIDE DEF Small
    <3>1. \A T \in Small(n + 1) : T # {} => g[T \ {First(T)}] = h[T \ {First(T)}]
      BY <2>2, <2>3
    <3>. QED BY <3>1
  <2>. HIDE DEF h, Upto
  <2>. QED BY <2>4
<1>6. Cardinality(S) \in Runs
  <2>. HIDE DEF Runs
  <2>. QED BY <1>2, <1>4, <1>5, SetInduction
<1>7. Small(Cardinality(S)) = SUBSET S
  BY <1>1
<1>. QED BY <1>6, <1>7 DEF IsSum

\* Two such functions agree wherever the functions that they add up do.
LEMMA SumUnique ==
    ASSUME NEW f, NEW S, IsFiniteSet(S), NEW f2, NEW S2, IsFiniteSet(S2),
           NEW g, IsSum(g, f, S), NEW h, IsSum(h, f2, S2),
           NEW T, T \subseteq S, T \subseteq S2, \A x \in T : f[x] = f2[x]
    PROVE  g[T] = h[T]
<1>. DEFINE Same == {n \in Nat : \A U \in SUBSET T : Cardinality(U) <= n => g[U] = h[U]}
<1>1. \A U \in SUBSET T : IsFiniteSet(U) /\ Cardinality(U) \in Nat
  <2>. SUFFICES ASSUME NEW U \in SUBSET T PROVE  IsFiniteSet(U) /\ Cardinality(U) \in Nat
    OBVIOUS
  <2>. QED BY FS_Subset, FS_CardinalityType
<1>2. 0 \in Same
  <2>1. \A U \in SUBSET T : Cardinality(U) <= 0 => U = {}
    BY <1>1, FS_EmptySet
  <2>2. g[{}] = 0 /\ h[{}] = 0
    BY DEF IsSum
  <2>. QED BY <2>1, <2>2
<1>3. ASSUME NEW n \in Nat, n \in Same PROVE n + 1 \in Same
  <2>. SUFFICES ASSUME NEW U \in SUBSET T, Cardinality(U) <= n + 1 PROVE g[U] = h[U]
    OBVIOUS
  <2>1. CASE U = {}
    BY <2>1 DEF IsSum
  <2>2. CASE U # {}
    <3>. DEFINE x == First(U)
    <3>1. x \in U
      BY <2>2, FirstIn
    <3>2. U \ {x} \in SUBSET T /\ Cardinality(U \ {x}) <= n
      BY <1>1, <3>1, FS_RemoveElement
    <3>3. g[U \ {x}] = h[U \ {x}]
      BY <1>3, <3>2
    <3>4. g[U] = f[x] + g[U \ {x}] /\ h[U] = f2[x] + h[U \ {x}]
      BY <2>2 DEF IsSum
    <3>. HIDE DEF x
    <3>. QED BY <3>1, <3>3, <3>4
  <2>. QED BY <2>1, <2>2
<1>4. Cardinality(T) \in Same
  <2>. HIDE DEF Same
  <2>. QED BY <1>1, <1>2, <1>3, SetInduction
<1>. QED BY <1>1, <1>4

\* Sum is the value of any such function.
LEMMA SumIs ==
    ASSUME NEW f, NEW S, IsFiniteSet(S), NEW g, IsSum(g, f, S), NEW T \in SUBSET S
    PROVE  Sum(f, T) = g[T]
<1>1. IsFiniteSet(T)
  BY FS_Subset
<1>. DEFINE h == CHOOSE h : IsSum(h, f, T)
<1>2. IsSum(h, f, T)
  BY <1>1, SumExists, Zenon
<1>3. Sum(f, T) = h[T]
  BY SumChoice
<1>. HIDE DEF h
<1>4. h[T] = g[T]
  BY <1>1, <1>2, SumUnique
<1>. QED BY <1>3, <1>4

\* The sum depends only on the values on the set.
LEMMA SumSame ==
    ASSUME NEW f, NEW g, NEW S, IsFiniteSet(S), \A x \in S : f[x] = g[x]
    PROVE  Sum(f, S) = Sum(g, S)
<1>1. PICK a : IsSum(a, f, S)
  BY SumExists
<1>2. PICK b : IsSum(b, g, S)
  BY SumExists
<1>3. a[S] = b[S]
  BY <1>1, <1>2, SumUnique
<1>. QED BY <1>1, <1>2, <1>3, SumIs

\* Nothing adds up to zero.
LEMMA SumEmpty == ASSUME NEW f PROVE Sum(f, {}) = 0
<1>1. IsFiniteSet({})
  BY FS_EmptySet
<1>2. PICK a : IsSum(a, f, {})
  BY <1>1, SumExists
<1>3. Sum(f, {}) = a[{}]
  BY <1>1, <1>2, SumIs
<1>. QED BY <1>2, <1>3 DEF IsSum

\* The sum with the first element taken apart.
LEMMA SumFirst ==
    ASSUME NEW f, NEW S, IsFiniteSet(S), S # {}
    PROVE  Sum(f, S) = f[First(S)] + Sum(f, S \ {First(S)})
<1>1. PICK a : IsSum(a, f, S)
  BY SumExists
<1>2. a[S] = f[First(S)] + a[S \ {First(S)}]
  BY <1>1 DEF IsSum
<1>3. S \ {First(S)} \in SUBSET S /\ S \in SUBSET S
  OBVIOUS
<1>. QED BY <1>1, <1>2, <1>3, SumIs

\* Integers add up to an integer.
LEMMA SumType ==
    ASSUME NEW f, NEW S, IsFiniteSet(S), \A x \in S : f[x] \in Int
    PROVE  Sum(f, S) \in Int
<1>. DEFINE Good == {n \in Nat : \A T \in SUBSET S : Cardinality(T) <= n => Sum(f, T) \in Int}
<1>1. \A U \in SUBSET S : IsFiniteSet(U) /\ Cardinality(U) \in Nat
  <2>. SUFFICES ASSUME NEW U \in SUBSET S PROVE  IsFiniteSet(U) /\ Cardinality(U) \in Nat
    OBVIOUS
  <2>. QED BY FS_Subset, FS_CardinalityType
<1>2. 0 \in Good
  <2>1. \A U \in SUBSET S : Cardinality(U) <= 0 => U = {}
    BY <1>1, FS_EmptySet
  <2>. QED BY <2>1, SumEmpty
<1>3. ASSUME NEW n \in Nat, n \in Good PROVE n + 1 \in Good
  <2>. SUFFICES ASSUME NEW T \in SUBSET S, Cardinality(T) <= n + 1 PROVE Sum(f, T) \in Int
    OBVIOUS
  <2>1. CASE T = {}
    BY <2>1, SumEmpty
  <2>2. CASE T # {}
    <3>1. First(T) \in T
      BY <2>2, FirstIn
    <3>2. T \ {First(T)} \in SUBSET S /\ Cardinality(T \ {First(T)}) <= n
      BY <1>1, <3>1, FS_RemoveElement
    <3>3. Sum(f, T \ {First(T)}) \in Int
      BY <1>3, <3>2
    <3>4. f[First(T)] \in Int
      BY <3>1
    <3>. QED BY <1>1, <2>2, <3>3, <3>4, SumFirst
  <2>. QED BY <2>1, <2>2
<1>4. Cardinality(S) \in Good
  <2>. HIDE DEF Good
  <2>. QED BY <1>1, <1>2, <1>3, SetInduction
<1>. QED BY <1>1, <1>4

\* The sum with any element taken apart.
LEMMA SumTake ==
    ASSUME NEW f, NEW S, IsFiniteSet(S), \A x \in S : f[x] \in Int, NEW e \in S
    PROVE  Sum(f, S) = f[e] + Sum(f, S \ {e})
<1>. DEFINE Good == {n \in Nat : \A T \in SUBSET S : \A x \in T :
                        Cardinality(T) <= n => Sum(f, T) = f[x] + Sum(f, T \ {x})}
<1>1. \A U \in SUBSET S : IsFiniteSet(U) /\ Cardinality(U) \in Nat
  <2>. SUFFICES ASSUME NEW U \in SUBSET S PROVE  IsFiniteSet(U) /\ Cardinality(U) \in Nat
    OBVIOUS
  <2>. QED BY FS_Subset, FS_CardinalityType
<1>2. 0 \in Good
  <2>1. \A U \in SUBSET S : Cardinality(U) <= 0 => U = {}
    BY <1>1, FS_EmptySet
  <2>. QED BY <2>1
<1>3. ASSUME NEW n \in Nat, n \in Good PROVE n + 1 \in Good
  <2>. SUFFICES ASSUME NEW T \in SUBSET S, NEW x \in T, Cardinality(T) <= n + 1
                PROVE  Sum(f, T) = f[x] + Sum(f, T \ {x})
    OBVIOUS
  <2>. DEFINE y == First(T)
              U == T \ {x, y}
  <2>1. y \in T
    BY FirstIn
  <2>2. Sum(f, T) = f[y] + Sum(f, T \ {y})
    BY <1>1, SumFirst
  <2>. HIDE DEF y
  <2>3. CASE x = y
    BY <2>2, <2>3
  <2>4. CASE x # y
    <3>1. /\ T \ {y} \in SUBSET S /\ Cardinality(T \ {y}) <= n /\ x \in T \ {y}
          /\ T \ {x} \in SUBSET S /\ Cardinality(T \ {x}) <= n /\ y \in T \ {x}
      BY <1>1, <2>1, <2>4, FS_RemoveElement
    <3>2. Sum(f, T \ {y}) = f[x] + Sum(f, (T \ {y}) \ {x})
      BY <1>3, <3>1
    <3>3. Sum(f, T \ {x}) = f[y] + Sum(f, (T \ {x}) \ {y})
      BY <1>3, <3>1
    <3>4. (T \ {x}) \ {y} = U /\ (T \ {y}) \ {x} = U
      OBVIOUS
    <3>5. f[x] \in Int /\ f[y] \in Int /\ Sum(f, U) \in Int
      <4>1. IsFiniteSet(U) /\ \A z \in U : f[z] \in Int
        BY <1>1, <2>1
      <4>. HIDE DEF U
      <4>. QED BY <2>1, <4>1, SumType
    <3>. HIDE DEF U
    <3>. QED BY <2>2, <3>2, <3>3, <3>4, <3>5
  <2>. QED BY <2>3, <2>4
<1>4. Cardinality(S) \in Good
  <2>. HIDE DEF Good
  <2>. QED BY <1>1, <1>2, <1>3, SetInduction
<1>. QED BY <1>1, <1>4

\* The sum over one element more.
LEMMA SumAdd ==
    ASSUME NEW f, NEW S, IsFiniteSet(S), NEW e, e \notin S, \A x \in S \cup {e} : f[x] \in Int
    PROVE  Sum(f, S \cup {e}) = Sum(f, S) + f[e]
<1>1. IsFiniteSet(S \cup {e})
  BY FS_AddElement
<1>2. (S \cup {e}) \ {e} = S
  OBVIOUS
<1>3. Sum(f, S \cup {e}) = f[e] + Sum(f, S)
  BY <1>1, <1>2, SumTake
<1>. QED BY <1>3, SumType

\* Zeros add up to zero.
LEMMA SumZero ==
    ASSUME NEW f, NEW S, IsFiniteSet(S), \A x \in S : f[x] = 0
    PROVE  Sum(f, S) = 0
<1>. DEFINE g == [T \in SUBSET S |-> 0]
<1>1. \A T \in SUBSET S : T # {} => f[First(T)] = 0 /\ T \ {First(T)} \in SUBSET S
  BY FirstIn
<1>2. IsSum(g, f, S)
  BY <1>1 DEF IsSum
<1>3. g[S] = 0
  OBVIOUS
<1>. HIDE DEF g
<1>. QED BY <1>2, <1>3, SumIs

\* The sum when one value changes.
LEMMA SumMoved ==
    ASSUME NEW S, IsFiniteSet(S), NEW f \in [S -> Int], NEW e \in S, NEW v \in Int
    PROVE  Sum([f EXCEPT ![e] = v], S) = Sum(f, S) + (v - f[e])
<1>. DEFINE g == [f EXCEPT ![e] = v]
            rest == S \ {e}
<1>1. g \in [S -> Int] /\ g[e] = v /\ \A x \in rest : g[x] = f[x]
  OBVIOUS
<1>2. IsFiniteSet(rest)
  BY FS_RemoveElement
<1>. HIDE DEF g
<1>3. Sum(f, S) = f[e] + Sum(f, rest) /\ Sum(g, S) = g[e] + Sum(g, rest)
  BY <1>1, SumTake
<1>4. Sum(g, rest) = Sum(f, rest)
  BY <1>1, <1>2, SumSame
<1>5. Sum(f, rest) \in Int
  BY <1>2, SumType
<1>. HIDE DEF rest
<1>6. f[e] \in Int
  OBVIOUS
<1>7. Sum(g, S) = Sum(f, S) + (v - f[e])
  BY <1>1, <1>3, <1>4, <1>5, <1>6
<1>. QED BY <1>7 DEF g

\* The sum of the differences is the difference of the sums.
LEMMA SumMinus ==
    ASSUME NEW f, NEW g, NEW h, NEW S, IsFiniteSet(S),
           \A x \in S : f[x] \in Int /\ g[x] \in Int /\ h[x] = f[x] - g[x]
    PROVE  Sum(h, S) = Sum(f, S) - Sum(g, S)
<1>1. PICK a : IsSum(a, f, S)
  BY SumExists
<1>2. PICK b : IsSum(b, g, S)
  BY SumExists
<1>. DEFINE c == [T \in SUBSET S |-> a[T] - b[T]]
<1>3. ASSUME NEW T \in SUBSET S PROVE a[T] \in Int /\ b[T] \in Int
  <2>1. IsFiniteSet(T) /\ \A x \in T : f[x] \in Int /\ g[x] \in Int
    BY FS_Subset
  <2>2. Sum(f, T) \in Int /\ Sum(g, T) \in Int
    BY <2>1, SumType
  <2>. QED BY <1>1, <1>2, <2>2, SumIs
<1>4. ASSUME NEW T \in SUBSET S
      PROVE  c[T] = IF T = {} THEN 0 ELSE h[First(T)] + c[T \ {First(T)}]
  <2>1. CASE T = {}
    BY <1>1, <1>2, <2>1 DEF IsSum
  <2>2. CASE T # {}
    <3>. DEFINE x == First(T)
                U == T \ {x}
    <3>1. x \in S /\ U \in SUBSET S
      BY <2>2, FirstIn
    <3>2. a[T] = f[x] + a[U] /\ b[T] = g[x] + b[U]
      BY <1>1, <1>2, <2>2 DEF IsSum
    <3>. HIDE DEF x, U
    <3>3. c[T] = a[T] - b[T] /\ c[U] = a[U] - b[U]
      BY <3>1
    <3>4. a[U] \in Int /\ b[U] \in Int /\ f[x] \in Int /\ g[x] \in Int /\ h[x] = f[x] - g[x]
      BY <1>3, <3>1
    <3>. HIDE DEF c
    <3>5. c[T] = h[x] + c[U]
      BY <3>2, <3>3, <3>4
    <3>. QED BY <2>2, <3>5 DEF x, U
  <2>. QED BY <2>1, <2>2
<1>5. IsSum(c, h, S)
  <2>1. c = [T \in SUBSET S |-> c[T]]
    OBVIOUS
  <2>. HIDE DEF c
  <2>. QED BY <1>4, <2>1 DEF IsSum
<1>6. c[S] = a[S] - b[S]
  OBVIOUS
<1>. HIDE DEF c
<1>. QED BY <1>1, <1>2, <1>5, <1>6, SumIs

-----------------------------------------------------------------------------
(* Books                                                                     *)

\* What each fill of the list fl executes, moves and costs, given the orders os,
\* and the numbers of the fills of an order and of a symbol.
Qtys(fl)          == [k \in 1 .. Len(fl) |-> fl[k].qty]
Flows(os, fl)     == [k \in 1 .. Len(fl) |-> Signed(os[fl[k].order].side, fl[k].qty)]
Costs(os, fl)     == [k \in 1 .. Len(fl) |-> fl[k].price * Signed(os[fl[k].order].side, fl[k].qty)]
FillsOf(fl, i)    == {k \in 1 .. Len(fl) : fl[k].order = i}
FillsIn(os, fl, s) == {k \in 1 .. Len(fl) : os[fl[k].order].symbol = s}

\* A price within the limit of an order that has one.
Within(o, price) ==
    o.order_type = "LIMIT" => IF o.side = "BUY" THEN price <= o.price ELSE price >= o.price

\* The books hold values of their types, and a fill names a FILLED order and a
\* price within its limit.
BooksTyped(os, held, cash, fl) ==
    /\ os \in Seq(Order) /\ held \in [Symbols -> Int] /\ cash \in Int /\ fl \in Seq(Fill)
    /\ \A k \in 1 .. Len(fl) :
         /\ fl[k].order \in 1 .. Len(os)
         /\ os[fl[k].order].status = "FILLED"
         /\ Within(os[fl[k].order], fl[k].price)

\* The executed quantities of the orders, the held quantities of the symbols and
\* the cash are what the fills add up to.
Booked(os, held, cash, fl) ==
    /\ BooksTyped(os, held, cash, fl)
    /\ \A i \in 1 .. Len(os) : os[i].filled_qty = Sum(Qtys(fl), FillsOf(fl, i))
    /\ \A s \in Symbols : held[s] = Sum(Flows(os, fl), FillsIn(os, fl, s))
    /\ cash = InitialCapital - Sum(Costs(os, fl), 1 .. Len(fl))

\* The table os2 is os with order i executed; any other order may be turned, ended
\* or appended, but a FILLED one stays as it is and no other executes anything.
Keeps(os, os2, i) ==
    /\ os2 \in Seq(Order) /\ Len(os) <= Len(os2)
    /\ \A j \in 1 .. Len(os) :
         /\ os2[j].side = os[j].side /\ os2[j].symbol = os[j].symbol
         /\ os[j].status = "FILLED" => os2[j] = os[j]
         /\ j # i => os2[j].filled_qty = os[j].filled_qty
    /\ \A j \in 1 .. Len(os2) : j > Len(os) /\ j # i => os2[j].filled_qty = 0

\* The lists of a book in which every fill names an order are well typed.
LEMMA FillTypes ==
    ASSUME NEW fl \in Seq(Fill), NEW os \in Seq(Order),
           \A k \in 1 .. Len(fl) : fl[k].order \in 1 .. Len(os)
    PROVE  /\ Len(fl) \in Nat /\ Len(os) \in Nat
           /\ IsFiniteSet(1 .. Len(fl))
           /\ \A i : IsFiniteSet(FillsOf(fl, i)) /\ FillsOf(fl, i) \subseteq 1 .. Len(fl)
           /\ \A s : IsFiniteSet(FillsIn(os, fl, s)) /\ FillsIn(os, fl, s) \subseteq 1 .. Len(fl)
           /\ \A k \in 1 .. Len(fl) :
                 /\ Qtys(fl)[k] \in Int /\ Flows(os, fl)[k] \in Int /\ Costs(os, fl)[k] \in Int
                 /\ fl[k] \in Fill
<1>1. Len(fl) \in Nat /\ Len(os) \in Nat
  BY LenProperties
<1>2. IsFiniteSet(1 .. Len(fl))
  BY <1>1, FS_Interval
<1>3. \A T \in SUBSET (1 .. Len(fl)) : IsFiniteSet(T)
  <2>. SUFFICES ASSUME NEW T \in SUBSET (1 .. Len(fl)) PROVE IsFiniteSet(T)
    OBVIOUS
  <2>. QED BY <1>2, FS_Subset
<1>4. /\ \A i : FillsOf(fl, i) \in SUBSET (1 .. Len(fl))
      /\ \A s : FillsIn(os, fl, s) \in SUBSET (1 .. Len(fl))
  BY DEF FillsOf, FillsIn
<1>5. ASSUME NEW k \in 1 .. Len(fl)
      PROVE  /\ Qtys(fl)[k] \in Int /\ Flows(os, fl)[k] \in Int /\ Costs(os, fl)[k] \in Int
             /\ fl[k] \in Fill
  <2>1. fl[k] \in Fill
    BY ElementOfSeq
  <2>2. fl[k].qty \in Int /\ fl[k].price \in Int
    BY <2>1 DEF Fill
  <2>. DEFINE flow == Signed(os[fl[k].order].side, fl[k].qty)
  <2>3. flow \in Int
    BY <2>2 DEF Signed
  <2>4. fl[k].price * flow \in Int
    <3>. HIDE DEF flow
    <3>. QED BY <2>2, <2>3
  <2>. QED BY <2>1, <2>2, <2>3, <2>4 DEF Qtys, Flows, Costs
<1>. QED BY <1>1, <1>2, <1>3, <1>4, <1>5

\* Orders that are turned, ended or appended without a fill leave the books right.
LEMMA BookSame ==
    ASSUME NEW os, NEW held, NEW cash, NEW fl, Booked(os, held, cash, fl),
           NEW os2, Keeps(os, os2, 0)
    PROVE  Booked(os2, held, cash, fl)
<1>1. /\ fl \in Seq(Fill) /\ os \in Seq(Order) /\ os2 \in Seq(Order)
      /\ \A k \in 1 .. Len(fl) : fl[k].order \in 1 .. Len(os)
      /\ Len(os) <= Len(os2)
  BY DEF Booked, BooksTyped, Keeps
<1>2. Len(fl) \in Nat /\ Len(os) \in Nat /\ Len(os2) \in Nat
  BY <1>1, LenProperties
<1>3. \A k \in 1 .. Len(fl) : os2[fl[k].order] = os[fl[k].order] /\ fl[k].order \in 1 .. Len(os2)
  BY <1>1, <1>2 DEF Keeps, Booked, BooksTyped
<1>4. BooksTyped(os2, held, cash, fl)
  BY <1>1, <1>3 DEF Booked, BooksTyped
<1>5. /\ Flows(os2, fl) = Flows(os, fl) /\ Costs(os2, fl) = Costs(os, fl)
      /\ \A s : FillsIn(os2, fl, s) = FillsIn(os, fl, s)
  BY <1>3 DEF Flows, Costs, FillsIn
<1>6. ASSUME NEW i \in 1 .. Len(os2) PROVE os2[i].filled_qty = Sum(Qtys(fl), FillsOf(fl, i))
  <2>1. CASE i \in 1 .. Len(os)
    BY <1>2, <2>1 DEF Keeps, Booked
  <2>2. CASE i \notin 1 .. Len(os)
    <3>1. os2[i].filled_qty = 0
      BY <1>2, <2>2 DEF Keeps
    <3>2. FillsOf(fl, i) = {}
      BY <1>1, <2>2 DEF FillsOf
    <3>. QED BY <3>1, <3>2, SumEmpty
  <2>. QED BY <2>1, <2>2
<1>. QED BY <1>4, <1>5, <1>6 DEF Booked

\* g is f with a value for one more element e.
GrownBy(S, e, f, g) ==
    /\ IsFiniteSet(S) /\ e \notin S
    /\ \A k \in S : g[k] = f[k]
    /\ \A k \in S \cup {e} : g[k] \in Int

\* The sums of g are those of f, with g[e] more where e counts.
SumsGrown(S, e, f, g) ==
    \A T \in SUBSET S : Sum(g, T) = Sum(f, T) /\ Sum(g, T \cup {e}) = Sum(f, T) + g[e]

\* So does a function that has grown add up.
LEMMA SumGrows ==
    ASSUME NEW S, NEW e, NEW f, NEW g, GrownBy(S, e, f, g)
    PROVE  SumsGrown(S, e, f, g)
<1>. SUFFICES ASSUME NEW T \in SUBSET S
              PROVE  Sum(g, T) = Sum(f, T) /\ Sum(g, T \cup {e}) = Sum(f, T) + g[e]
  BY DEF SumsGrown
<1>1. IsFiniteSet(T) /\ e \notin T
  BY FS_Subset DEF GrownBy
<1>2. Sum(g, T) = Sum(f, T)
  BY <1>1, SumSame DEF GrownBy
<1>3. \A k \in T \cup {e} : g[k] \in Int
  BY DEF GrownBy
<1>. QED BY <1>1, <1>2, <1>3, SumAdd

\* The list fl2 is fl with one fill more, of order i of the table os2: what it adds
\* to the lists that the books count, and where.
Entered(os, fl, os2, fl2, i, q, price) ==
    LET n    == Len(fl)
        flow == Signed(os2[i].side, q)
        s    == os2[i].symbol
    IN  /\ n \in Nat /\ n + 1 \notin 1 .. n /\ Len(fl2) = n + 1 /\ fl2 \in Seq(Fill)
        /\ fl2[n + 1] = [order |-> i, qty |-> q, price |-> price]
        /\ \A k \in 1 .. n : /\ fl2[k] = fl[k] /\ os2[fl2[k].order] = os[fl[k].order]
                             /\ fl2[k].order \in 1 .. Len(os2)
                             /\ Qtys(fl2)[k] = Qtys(fl)[k]
                             /\ Flows(os2, fl2)[k] = Flows(os, fl)[k]
                             /\ Costs(os2, fl2)[k] = Costs(os, fl)[k]
        /\ Qtys(fl2)[n + 1] = q
        /\ Flows(os2, fl2)[n + 1] = flow
        /\ Costs(os2, fl2)[n + 1] = price * flow
        /\ FillsOf(fl2, i) = FillsOf(fl, i) \cup {n + 1}
        /\ \A j : j # i => FillsOf(fl2, j) = FillsOf(fl, j)
        /\ FillsIn(os2, fl2, s) = FillsIn(os, fl, s) \cup {n + 1}
        /\ \A x : x # s => FillsIn(os2, fl2, x) = FillsIn(os, fl, x)
        /\ 1 .. Len(fl2) = 1 .. Len(fl) \cup {n + 1}

\* Appending a fill enters it in the lists.
LEMMA FillEnters ==
    ASSUME NEW os, NEW held, NEW cash, NEW fl, Booked(os, held, cash, fl),
           NEW os2, NEW i \in 1 .. Len(os2), Keeps(os, os2, i),
           i \in 1 .. Len(os) => os[i].status # "FILLED" /\ os[i].filled_qty = 0,
           NEW q \in Nat, NEW price \in Int
    PROVE  Entered(os, fl, os2, Append(fl, [order |-> i, qty |-> q, price |-> price]), i, q, price)
<1>. DEFINE fill == [order |-> i, qty |-> q, price |-> price]
            fl2 == Append(fl, fill)
            n == Len(fl)
            flow == Signed(os2[i].side, q)
<1>1. /\ fl \in Seq(Fill) /\ os \in Seq(Order) /\ os2 \in Seq(Order)
      /\ \A k \in 1 .. n : fl[k].order \in 1 .. Len(os)
      /\ Len(os) <= Len(os2)
  BY DEF Booked, BooksTyped, Keeps
<1>2. n \in Nat /\ Len(os) \in Nat /\ Len(os2) \in Nat /\ i \in Nat \ {0} /\ n + 1 \notin 1 .. n
  BY <1>1, LenProperties
<1>3. fill \in Fill
  BY <1>2 DEF Fill
<1>4. /\ fl2 \in Seq(Fill) /\ Len(fl2) = n + 1 /\ fl2[n + 1] = fill
      /\ \A k \in 1 .. n : fl2[k] = fl[k]
  BY <1>1, <1>3, AppendProperties
<1>. HIDE DEF fl2, n, flow
<1>5. \A k \in 1 .. n : /\ fl2[k].order = fl[k].order /\ fl2[k].order # i
                        /\ os2[fl2[k].order] = os[fl[k].order]
                        /\ fl2[k].order \in 1 .. Len(os2)
  <2>1. ASSUME NEW k \in 1 .. n
        PROVE  /\ fl2[k].order = fl[k].order /\ os2[fl2[k].order] = os[fl[k].order]
               /\ fl2[k].order \in 1 .. Len(os2)
    <3>1. fl2[k] = fl[k] /\ fl[k].order \in 1 .. Len(os) /\ os[fl[k].order].status = "FILLED"
      BY <1>1, <1>4 DEF Booked, BooksTyped, n
    <3>2. os2[fl[k].order] = os[fl[k].order]
      BY <3>1 DEF Keeps
    <3>. QED BY <1>1, <1>2, <3>1, <3>2
  <2>2. ASSUME NEW k \in 1 .. n, fl[k].order = i PROVE FALSE
    <3>1. os[fl[k].order].status = "FILLED" /\ fl[k].order \in 1 .. Len(os)
      BY <1>1, <2>2 DEF Booked, BooksTyped, n
    <3>. QED BY <2>2, <3>1
  <2>. QED BY <2>1, <2>2
<1>6. /\ \A k \in 1 .. n : /\ Qtys(fl2)[k] = Qtys(fl)[k]
                           /\ Flows(os2, fl2)[k] = Flows(os, fl)[k]
                           /\ Costs(os2, fl2)[k] = Costs(os, fl)[k]
      /\ Qtys(fl2)[n + 1] = q
      /\ Flows(os2, fl2)[n + 1] = flow
      /\ Costs(os2, fl2)[n + 1] = price * flow
  <2>1. 1 .. n + 1 = 1 .. n \cup {n + 1} /\ 1 .. Len(fl2) = 1 .. n + 1 /\ Len(fl) = n
    BY <1>2, <1>4 DEF n
  <2>2. fl2[n + 1].order = i /\ fl2[n + 1].qty = q /\ fl2[n + 1].price = price
    BY <1>4
  <2>. QED BY <1>4, <1>5, <2>1, <2>2 DEF Qtys, Flows, Costs, flow
<1>7. /\ FillsOf(fl2, i) = FillsOf(fl, i) \cup {n + 1}
       /\ \A j : j # i => FillsOf(fl2, j) = FillsOf(fl, j)
       /\ FillsIn(os2, fl2, os2[i].symbol) = FillsIn(os, fl, os2[i].symbol) \cup {n + 1}
       /\ \A s : s # os2[i].symbol => FillsIn(os2, fl2, s) = FillsIn(os, fl, s)
       /\ 1 .. Len(fl2) = 1 .. Len(fl) \cup {n + 1}
  <2>1. 1 .. n + 1 = 1 .. n \cup {n + 1} /\ 1 .. Len(fl2) = 1 .. n + 1 /\ Len(fl) = n
    BY <1>2, <1>4 DEF n
  <2>2. fl2[n + 1].order = i
    BY <1>4
  <2>. QED BY <1>4, <1>5, <2>1, <2>2 DEF FillsOf, FillsIn
<1>8. Entered(os, fl, os2, fl2, i, q, price)
  BY <1>2, <1>4, <1>5, <1>6, <1>7, Zenon DEF Entered, n, flow
<1>. QED BY <1>8 DEF fl2

\* One fill entered in all the books: the order, the symbol and the cash.
LEMMA BookFill ==
    ASSUME NEW os, NEW held, NEW cash, NEW fl, Booked(os, held, cash, fl),
           NEW os2, NEW i \in 1 .. Len(os2), Keeps(os, os2, i),
           i \in 1 .. Len(os) => os[i].status # "FILLED" /\ os[i].filled_qty = 0,
           os2[i].status = "FILLED", NEW q \in Nat, os2[i].filled_qty = q,
           NEW price \in Int, Within(os2[i], price)
    PROVE  Booked(os2,
                  [held EXCEPT ![os2[i].symbol] = @ + Signed(os2[i].side, q)],
                  cash - Signed(os2[i].side, price * q),
                  Append(fl, [order |-> i, qty |-> q, price |-> price]))
<1>. DEFINE fill == [order |-> i, qty |-> q, price |-> price]
            fl2 == Append(fl, fill)
            n == Len(fl)
            flow == Signed(os2[i].side, q)
            held2 == [held EXCEPT ![os2[i].symbol] = @ + flow]
            cash2 == cash - Signed(os2[i].side, price * q)
<1>1. /\ fl \in Seq(Fill) /\ os \in Seq(Order) /\ os2 \in Seq(Order)
      /\ \A k \in 1 .. n : fl[k].order \in 1 .. Len(os)
      /\ Len(os) <= Len(os2)
      /\ held \in [Symbols -> Int] /\ cash \in Int
  BY DEF Booked, BooksTyped, Keeps
<1>2. n \in Nat /\ Len(os) \in Nat /\ Len(os2) \in Nat /\ i \in Nat \ {0} /\ n + 1 \notin 1 .. n
  BY <1>1, LenProperties
<1>3. os2[i] \in Order
  BY <1>1, ElementOfSeq
<1>4. /\ os2[i].symbol \in Symbols /\ flow \in Int
      /\ Signed(os2[i].side, price * q) = price * flow
      /\ price * flow \in Int
  <2>1. os2[i].symbol \in Symbols
    BY <1>3 DEF Order
  <2>2. flow \in Int /\ price * flow \in Int
    BY DEF Signed
  <2>3. Signed(os2[i].side, price * q) = price * flow
    BY DEF Signed
  <2>. QED BY <2>1, <2>2, <2>3
<1>. HIDE DEF fl2
<1>5. Entered(os, fl, os2, fl2, i, q, price)
  BY FillEnters DEF fl2
<1>6. /\ fl2 \in Seq(Fill) /\ Len(fl2) = n + 1 /\ fl2[n + 1] = fill
      /\ \A k \in 1 .. n : /\ fl2[k] = fl[k] /\ os2[fl2[k].order] = os[fl[k].order]
                           /\ fl2[k].order \in 1 .. Len(os2)
  BY <1>5 DEF Entered
<1>7. /\ \A k \in 1 .. n : /\ Qtys(fl2)[k] = Qtys(fl)[k]
                           /\ Flows(os2, fl2)[k] = Flows(os, fl)[k]
                           /\ Costs(os2, fl2)[k] = Costs(os, fl)[k]
      /\ Qtys(fl2)[n + 1] = q
      /\ Flows(os2, fl2)[n + 1] = flow
      /\ Costs(os2, fl2)[n + 1] = price * flow
  BY <1>5, Zenon DEF Entered
<1>8. /\ FillsOf(fl2, i) = FillsOf(fl, i) \cup {n + 1}
      /\ \A j : j # i => FillsOf(fl2, j) = FillsOf(fl, j)
      /\ FillsIn(os2, fl2, os2[i].symbol) = FillsIn(os, fl, os2[i].symbol) \cup {n + 1}
      /\ \A s : s # os2[i].symbol => FillsIn(os2, fl2, s) = FillsIn(os, fl, s)
      /\ 1 .. Len(fl2) = 1 .. Len(fl) \cup {n + 1}
  BY <1>5, Zenon DEF Entered
<1>. HIDE DEF n, flow
<1>9. \A k \in 1 .. n + 1 : k \in 1 .. n \/ k = n + 1
  BY <1>2
<1>10. BooksTyped(os2, held2, cash2, fl2)
  <2>1. held2 \in [Symbols -> Int] /\ cash2 \in Int
    BY <1>1, <1>4
  <2>2. ASSUME NEW k \in 1 .. n + 1
        PROVE  /\ fl2[k].order \in 1 .. Len(os2)
               /\ os2[fl2[k].order].status = "FILLED"
               /\ Within(os2[fl2[k].order], fl2[k].price)
    <3>1. CASE k \in 1 .. n
      BY <1>6, <3>1 DEF Booked, BooksTyped, n
    <3>2. CASE k = n + 1
      BY <1>6, <3>2
    <3>. QED BY <1>9, <3>1, <3>2
  <2>. QED BY <1>1, <1>6, <2>1, <2>2 DEF BooksTyped
<1>11. /\ IsFiniteSet(1 .. n) /\ n + 1 \notin 1 .. n
       /\ \A j : IsFiniteSet(FillsOf(fl, j)) /\ FillsOf(fl, j) \subseteq 1 .. n
       /\ \A s : IsFiniteSet(FillsIn(os, fl, s)) /\ FillsIn(os, fl, s) \subseteq 1 .. n
       /\ \A k \in 1 .. n : /\ Qtys(fl)[k] \in Int /\ Flows(os, fl)[k] \in Int
                           /\ Costs(os, fl)[k] \in Int
  BY <1>1, <1>2, FillTypes DEF n
<1>12. /\ SumsGrown(1 .. n, n + 1, Qtys(fl), Qtys(fl2))
       /\ SumsGrown(1 .. n, n + 1, Flows(os, fl), Flows(os2, fl2))
       /\ SumsGrown(1 .. n, n + 1, Costs(os, fl), Costs(os2, fl2))
  <2>1. /\ GrownBy(1 .. n, n + 1, Qtys(fl), Qtys(fl2))
        /\ GrownBy(1 .. n, n + 1, Flows(os, fl), Flows(os2, fl2))
        /\ GrownBy(1 .. n, n + 1, Costs(os, fl), Costs(os2, fl2))
    BY <1>4, <1>7, <1>11 DEF GrownBy
  <2>. QED BY <2>1, SumGrows
<1>13. ASSUME NEW j \in 1 .. Len(os2) PROVE os2[j].filled_qty = Sum(Qtys(fl2), FillsOf(fl2, j))
  <2>1. /\ Sum(Qtys(fl2), FillsOf(fl, j)) = Sum(Qtys(fl), FillsOf(fl, j))
        /\ Sum(Qtys(fl2), FillsOf(fl, j) \cup {n + 1}) = Sum(Qtys(fl), FillsOf(fl, j)) + q
    BY <1>4, <1>7, <1>11, <1>12 DEF SumsGrown
  <2>2. Sum(Qtys(fl), FillsOf(fl, j)) = IF j \in 1 .. Len(os) THEN os[j].filled_qty ELSE 0
    <3>1. CASE j \in 1 .. Len(os)
      BY <3>1 DEF Booked
    <3>2. CASE j \notin 1 .. Len(os)
      <4>1. FillsOf(fl, j) = {}
        BY <1>1, <3>2 DEF FillsOf, n
      <4>. QED BY <3>2, <4>1, SumEmpty
    <3>. QED BY <3>1, <3>2
  <2>3. CASE j = i
    <3>1. FillsOf(fl2, j) = FillsOf(fl, j) \cup {n + 1} /\ os2[j].filled_qty = q
      BY <1>8, <2>3
    <3>2. Sum(Qtys(fl), FillsOf(fl, j)) = 0
      BY <1>2, <2>2, <2>3
    <3>. QED BY <2>1, <3>1, <3>2
  <2>4. CASE j # i
    BY <1>2, <1>8, <2>1, <2>2, <2>4 DEF Keeps
  <2>. QED BY <2>3, <2>4
<1>14. ASSUME NEW s \in Symbols PROVE held2[s] = Sum(Flows(os2, fl2), FillsIn(os2, fl2, s))
  <2>1. held[s] = Sum(Flows(os, fl), FillsIn(os, fl, s))
    BY DEF Booked
  <2>2. /\ Sum(Flows(os2, fl2), FillsIn(os, fl, s)) = held[s]
        /\ Sum(Flows(os2, fl2), FillsIn(os, fl, s) \cup {n + 1}) = held[s] + flow
    BY <1>4, <1>7, <1>11, <1>12, <2>1 DEF SumsGrown
  <2>. QED BY <1>1, <1>8, <2>2
<1>15. cash2 = InitialCapital - Sum(Costs(os2, fl2), 1 .. Len(fl2))
  <2>1. cash = InitialCapital - Sum(Costs(os, fl), 1 .. n)
    BY DEF Booked, n
  <2>2. Sum(Costs(os2, fl2), 1 .. n \cup {n + 1}) = Sum(Costs(os, fl), 1 .. n) + price * flow
    BY <1>4, <1>7, <1>11, <1>12 DEF SumsGrown
  <2>3. Sum(Costs(os, fl), 1 .. n) \in Int
    BY <1>11, SumType
  <2>4. 1 .. Len(fl2) = 1 .. n \cup {n + 1} /\ cash2 = cash - price * flow
    BY <1>4, <1>8 DEF n
  <2>5. InitialCapital \in Int /\ price * flow \in Int
    BY <1>4, AmountsAssumption
  <2>. DEFINE cost == price * flow
  <2>. HIDE DEF cost, cash2
  <2>6. cash2 = InitialCapital - (Sum(Costs(os, fl), 1 .. n) + cost)
    BY <2>1, <2>3, <2>4, <2>5 DEF cost
  <2>. QED BY <2>2, <2>4, <2>6 DEF cost
<1>. HIDE DEF held2, cash2
<1>16. Booked(os2, held2, cash2, fl2)
  BY <1>10, <1>13, <1>14, <1>15 DEF Booked
<1>. QED BY <1>16 DEF held2, cash2, fl2, flow

-----------------------------------------------------------------------------
(* What the positions are worth                                              *)

\* Integer division rounds down, by less than the divisor.
LEMMA DivBounds ==
    ASSUME NEW a \in Int, NEW b \in Nat \ {0}
    PROVE  a \div b \in Int /\ b * (a \div b) <= a /\ a <= b * (a \div b) + (b - 1)
  OBVIOUS

\* What a position is worth at cost, less the P&L it has realized.
Worth(pos) == pos.avg_price * pos.qty - pos.realized_pnl

\* A fill of flow at price leaves a position that was long, and stays long, worth
\* what it was plus what it cost, but for the rounding of the average by a purchase.
WorthFollows(h, flow, price, w, w2) ==
    h >= 0 /\ h + flow >= 0 =>
        /\ w2 <= w + price * flow
        /\ w + price * flow <= w2 + (IF flow > 0 THEN h + flow - 1 ELSE 0)

\* The worth of a position is an integer.
LEMMA WorthType == ASSUME NEW pos \in Position PROVE Worth(pos) \in Int
  BY DEF Worth, Position

\* A purchase loses less than a paisa a share held after it.
LEMMA IncreaseWorth ==
    ASSUME NEW pos \in Position, NEW q \in Nat \ {0}, NEW price \in Int, pos.qty >= 0
    PROVE  WorthFollows(pos.qty, q, price, Worth(pos), Worth(Increase(pos, "BUY", q, price)))
<1>. DEFINE h == pos.qty
            total == pos.avg_price * h + price * q
            avg == total \div (h + q)
<1>1. /\ h \in Nat /\ pos.avg_price \in Int /\ pos.realized_pnl \in Int /\ h + q \in Nat \ {0}
      /\ total \in Int
  BY DEF Position
<1>2. Increase(pos, "BUY", q, price) = [pos EXCEPT !.qty = h + q, !.avg_price = avg]
  <2>1. Signed("BUY", q) = q /\ Abs(h) = h /\ Abs(h + q) = h + q
    BY <1>1 DEF Signed, Abs
  <2>. HIDE DEF h
  <2>2. Increase(pos, "BUY", q, price)
          = [pos EXCEPT !.qty = h + q, !.avg_price = (pos.avg_price * h + price * q) \div (h + q)]
    BY <2>1, Zenon DEF Increase, h
  <2>. QED BY <2>2
<1>3. avg \in Int /\ (h + q) * avg <= total /\ total <= (h + q) * avg + (h + q - 1)
  <2>. HIDE DEF total, h
  <2>. DEFINE b == h + q
  <2>. HIDE DEF b
  <2>1. total \in Int /\ b \in Nat \ {0}
    BY <1>1 DEF b
  <2>2. /\ total \div b \in Int /\ b * (total \div b) <= total
        /\ total <= b * (total \div b) + (b - 1)
    BY <2>1, DivBounds
  <2>3. b - 1 = h + q - 1 /\ b = h + q
    BY <1>1 DEF b
  <2>. QED BY <2>2, <2>3
<1>. HIDE DEF total, avg
<1>4. Worth(Increase(pos, "BUY", q, price)) = avg * (h + q) - pos.realized_pnl
  BY <1>1, <1>2 DEF Worth, Position
<1>5. Worth(pos) + price * q = total - pos.realized_pnl
  BY <1>1 DEF Worth, total
<1>6. (h + q) * avg = avg * (h + q) /\ avg * (h + q) \in Int
  BY <1>1, <1>3
<1>. DEFINE v == avg * (h + q)
            w == Worth(pos)
            c == price * q
<1>7. w \in Int /\ c \in Int /\ v \in Int
  BY <1>1, <1>6 DEF Worth
<1>. HIDE DEF v, w, c
<1>8. Worth(Increase(pos, "BUY", q, price)) = v - pos.realized_pnl /\ w + c = total - pos.realized_pnl
      /\ v <= total /\ total <= v + (h + q - 1)
  BY <1>3, <1>4, <1>5, <1>6 DEF v, w, c
<1>9. /\ v - pos.realized_pnl <= w + c
      /\ w + c <= (v - pos.realized_pnl) + (h + q - 1)
  BY <1>1, <1>7, <1>8
<1>. QED BY <1>8, <1>9 DEF WorthFollows, w, c

\* A sale of no more than is held loses nothing.
LEMMA ReduceWorth ==
    ASSUME NEW pos \in Position, NEW q \in Nat \ {0}, NEW price \in Int, pos.qty >= q
    PROVE  WorthFollows(pos.qty, 0 - q, price, Worth(pos), Worth(Reduce(pos, "SELL", q, price)))
<1>. DEFINE h == pos.qty
            avg == pos.avg_price
            new == Reduce(pos, "SELL", q, price)
<1>1. h \in Nat /\ avg \in Int /\ pos.realized_pnl \in Int /\ pos.unrealized_pnl \in Int
  BY DEF Position
<1>2. Min({Abs(h), q}) = q
  <2>1. Abs(h) = h
    BY <1>1 DEF Abs
  <2>2. \A x \in {Abs(h), q} : q <= x
    BY <1>1, <2>1
  <2>3. q \in {Abs(h), q}
    OBVIOUS
  <2>4. \A y \in {Abs(h), q} : (\A x \in {Abs(h), q} : y <= x) => y = q
    BY <1>1, <2>1
  <2>. QED BY <2>2, <2>3, <2>4 DEF Min
<1>3. /\ new.qty = h - q
      /\ new.avg_price = IF h - q = 0 THEN 0 ELSE avg
      /\ new.realized_pnl = pos.realized_pnl + (price - avg) * q
  <2>1. Signed("SELL", q) = -q /\ h + (-q) = h - q /\ ~(h - q < 0) /\ Abs((h - q) - (-q)) = h /\ ~(q > h)
    BY <1>1 DEF Signed, Abs
  <2>. QED BY <1>1, <1>2, <2>1 DEF Reduce
<1>. DEFINE a == avg * h
            b == avg * q
            c == price * q
<1>4. a \in Int /\ b \in Int /\ c \in Int /\ avg * (h - q) = a - b /\ (price - avg) * q = c - b
  BY <1>1
<1>5. new.avg_price * new.qty = avg * (h - q)
  <2>1. CASE h - q = 0
    <3>1. new.qty = 0 /\ new.avg_price = 0
      BY <1>3, <2>1
    <3>2. avg * (h - q) = 0
      BY <1>1, <2>1
    <3>. QED BY <3>1, <3>2
  <2>2. CASE h - q # 0
    BY <1>3, <2>2
  <2>. QED BY <2>1, <2>2
<1>6. price * (0 - q) = 0 - c
  BY <1>1
<1>. DEFINE cost == price * (0 - q)
<1>. HIDE DEF cost
<1>. HIDE DEF a, b, c, new, avg
<1>7. Worth(new) = (a - b) - (pos.realized_pnl + (c - b)) /\ Worth(pos) = a - pos.realized_pnl
  <2>1. Worth(pos) = a - pos.realized_pnl
    BY DEF Worth, a, avg
  <2>2. Worth(new) = (a - b) - (pos.realized_pnl + (c - b))
    BY <1>3, <1>4, <1>5 DEF Worth
  <2>. QED BY <2>1, <2>2
<1>8. cost = 0 - c
  BY <1>6 DEF cost
<1>9. Worth(pos) \in Int /\ cost \in Int /\ ~(0 - q > 0) /\ Worth(new) = Worth(pos) + cost
  BY <1>1, <1>4, <1>7, <1>8
<1>. QED BY <1>9 DEF WorthFollows, new, cost

\* Whatever _apply_fill does to a position, its worth follows the fill.
LEMMA ApplyFillWorth ==
    ASSUME NEW acct \in AccountType, NEW id, NEW o \in Order, Remaining(o) \in Nat \ {0},
           NEW price \in Int
    PROVE  WorthFollows(acct.pos.qty, Signed(o.side, Remaining(o)), price, Worth(acct.pos),
                        Worth(ApplyFill(acct, id, o, price).pos))
<1>. DEFINE q == Remaining(o)
            pos == acct.pos
            h == pos.qty
            new == ApplyFill(acct, id, o, price).pos
<1>1. pos \in Position /\ h \in Int /\ o.side \in Sides
  BY DEF AccountType, Position, Order
<1>2. new = IF Opening(pos, o.side) THEN Increase(pos, o.side, q, price)
                                    ELSE Reduce(pos, o.side, q, price)
  BY DEF ApplyFill
<1>. HIDE DEF q, new, pos
<1>3. CASE ~(h >= 0 /\ h + Signed(o.side, q) >= 0)
  BY <1>3 DEF WorthFollows, q, new, pos
<1>4. CASE h >= 0 /\ o.side = "BUY"
  <2>1. Opening(pos, o.side) /\ Signed(o.side, q) = q
    BY <1>1, <1>4 DEF Opening, Signed
  <2>. QED BY <1>1, <1>2, <1>4, <2>1, IncreaseWorth DEF q, new, pos
<1>5. CASE h + Signed(o.side, q) >= 0 /\ o.side = "SELL"
  <2>1. Signed(o.side, q) = 0 - q /\ h >= q /\ q \in Nat \ {0}
    BY <1>1, <1>5 DEF Signed, q
  <2>2. ~Opening(pos, o.side)
    BY <1>1, <1>5, <2>1 DEF Opening
  <2>3. WorthFollows(h, 0 - q, price, Worth(pos), Worth(Reduce(pos, "SELL", q, price)))
    BY <1>1, <2>1, ReduceWorth
  <2>. QED BY <1>2, <1>5, <2>1, <2>2, <2>3 DEF q, new, pos
<1>. QED BY <1>1, <1>3, <1>4, <1>5 DEF Sides

\* A price that arrives does not change what a position is worth at cost.
LEMMA MarkWorth ==
    ASSUME NEW pos \in Position, NEW p \in Int
    PROVE  Worth(MarkToMarket(pos, p)) = Worth(pos)
  BY DEF Worth, MarkToMarket, Position

\* What the fills up to number n add to symbol s, as NetAfter says; that nothing has
\* ever been short; the purchases, and what the rounding of each can have lost.
Net(os, fl, s, n) == Sum(Flows(os, fl), FillsIn(os, fl, s) \cap (1 .. n))
NeverWentShort(os, fl) == \A s \in Symbols : \A n \in 1 .. Len(fl) : Net(os, fl, s, n) >= 0
Buys(os, fl)      == {k \in 1 .. Len(fl) : os[fl[k].order].side = "BUY"}
Lost(os, fl)      == [k \in 1 .. Len(fl) |-> Net(os, fl, os[fl[k].order].symbol, k) - 1]

\* Value is conserved, up to rounding, while nothing has been short: worth is that of
\* all the positions.
Balanced(os, worth, cash, fl) ==
    /\ worth \in Int
    /\ NeverWentShort(os, fl) =>
          /\ 0 <= InitialCapital - worth - cash
          /\ InitialCapital - worth - cash <= Sum(Lost(os, fl), Buys(os, fl))

\* Orders that are turned, ended or appended without a fill keep the balance.
LEMMA BalanceSame ==
    ASSUME NEW os, NEW held, NEW cash, NEW fl, Booked(os, held, cash, fl),
           NEW worth, Balanced(os, worth, cash, fl),
           NEW os2, Keeps(os, os2, 0)
    PROVE  Balanced(os2, worth, cash, fl)
<1>1. \A k \in 1 .. Len(fl) : os2[fl[k].order] = os[fl[k].order]
  BY DEF Keeps, Booked, BooksTyped
<1>2. /\ Flows(os2, fl) = Flows(os, fl) /\ Buys(os2, fl) = Buys(os, fl)
      /\ \A s : FillsIn(os2, fl, s) = FillsIn(os, fl, s)
  BY <1>1 DEF Flows, Buys, FillsIn
<1>3. \A s, n : Net(os2, fl, s, n) = Net(os, fl, s, n)
  BY <1>2 DEF Net
<1>4. NeverWentShort(os2, fl) <=> NeverWentShort(os, fl)
  BY <1>3 DEF NeverWentShort
<1>5. Lost(os2, fl) = Lost(os, fl)
  BY <1>1, <1>3 DEF Lost
<1>. QED BY <1>2, <1>4, <1>5 DEF Balanced

\* The nets and the losses are integers.
LEMMA NetType ==
    ASSUME NEW fl \in Seq(Fill), NEW os \in Seq(Order),
           \A k \in 1 .. Len(fl) : fl[k].order \in 1 .. Len(os)
    PROVE  /\ \A s, n : Net(os, fl, s, n) \in Int
           /\ \A k \in 1 .. Len(fl) : Lost(os, fl)[k] \in Int
           /\ Buys(os, fl) \in SUBSET (1 .. Len(fl))
<1>1. ASSUME NEW s, NEW n PROVE Net(os, fl, s, n) \in Int
  <2>. DEFINE S == FillsIn(os, fl, s) \cap (1 .. n)
  <2>1. /\ IsFiniteSet(FillsIn(os, fl, s)) /\ FillsIn(os, fl, s) \subseteq 1 .. Len(fl)
        /\ \A k \in 1 .. Len(fl) : Flows(os, fl)[k] \in Int
    BY FillTypes
  <2>2. IsFiniteSet(S)
    BY <2>1, FS_Subset
  <2>3. \A k \in S : Flows(os, fl)[k] \in Int
    BY <2>1
  <2>. HIDE DEF S
  <2>4. Sum(Flows(os, fl), S) \in Int
    BY <2>2, <2>3, SumType
  <2>. QED BY <2>4 DEF Net, S
<1>. QED BY <1>1 DEF Lost, Buys

\* One fill keeps the balance if the worth of the position follows it.
LEMMA BalanceFill ==
    ASSUME NEW os, NEW held, NEW cash, NEW fl, Booked(os, held, cash, fl),
           NEW worth, Balanced(os, worth, cash, fl),
           NEW os2, NEW i \in 1 .. Len(os2), Keeps(os, os2, i),
           i \in 1 .. Len(os) => os[i].status # "FILLED" /\ os[i].filled_qty = 0,
           NEW q \in Nat \ {0}, NEW price \in Int, NEW w \in Int, NEW w2 \in Int,
           WorthFollows(held[os2[i].symbol], Signed(os2[i].side, q), price, w, w2)
    PROVE  Balanced(os2, worth + (w2 - w),
                    cash - Signed(os2[i].side, price * q),
                    Append(fl, [order |-> i, qty |-> q, price |-> price]))
<1>. DEFINE fl2 == Append(fl, [order |-> i, qty |-> q, price |-> price])
            n == Len(fl)
            s == os2[i].symbol
            flow == Signed(os2[i].side, q)
            cost == price * flow
            buys == Buys(os, fl)
            lost == Sum(Lost(os, fl), buys)
            gap == InitialCapital - worth - cash
            gap2 == InitialCapital - (worth + (w2 - w)) - (cash - Signed(os2[i].side, price * q))
<1>1. /\ fl \in Seq(Fill) /\ os \in Seq(Order) /\ os2 \in Seq(Order)
      /\ \A k \in 1 .. n : fl[k].order \in 1 .. Len(os)
      /\ held \in [Symbols -> Int] /\ cash \in Int /\ worth \in Int
      /\ \A x \in Symbols : held[x] = Sum(Flows(os, fl), FillsIn(os, fl, x))
  BY DEF Booked, BooksTyped, Keeps, Balanced
<1>2. s \in Symbols /\ os2[i].side \in Sides
  <2>1. os2[i] \in Order
    BY <1>1, ElementOfSeq
  <2>. QED BY <2>1 DEF Order
<1>3. /\ flow \in Int /\ cost \in Int /\ Signed(os2[i].side, price * q) = cost
      /\ os2[i].side = "BUY" <=> flow > 0
  BY <1>2 DEF Signed, Sides
<1>. HIDE DEF fl2
<1>4. Entered(os, fl, os2, fl2, i, q, price)
  BY FillEnters DEF fl2
<1>5. /\ n \in Nat /\ n + 1 \notin 1 .. n /\ Len(fl2) = n + 1 /\ fl2[n + 1].order = i
      /\ fl2 \in Seq(Fill) /\ Flows(os2, fl2)[n + 1] = flow
      /\ \A k \in 1 .. n : /\ os2[fl2[k].order] = os[fl[k].order]
                           /\ fl2[k].order \in 1 .. Len(os2)
                           /\ Flows(os2, fl2)[k] = Flows(os, fl)[k]
      /\ FillsIn(os2, fl2, s) = FillsIn(os, fl, s) \cup {n + 1}
      /\ \A x : x # s => FillsIn(os2, fl2, x) = FillsIn(os, fl, x)
      /\ 1 .. Len(fl2) = 1 .. n \cup {n + 1}
  BY <1>4 DEF Entered
<1>6. /\ \A x : IsFiniteSet(FillsIn(os, fl, x)) /\ FillsIn(os, fl, x) \subseteq 1 .. n
      /\ IsFiniteSet(1 .. n)
      /\ \A k \in 1 .. n : Flows(os, fl)[k] \in Int
      /\ \A x, k : Net(os, fl, x, k) \in Int
      /\ \A k \in 1 .. n : Lost(os, fl)[k] \in Int
      /\ buys \in SUBSET (1 .. n)
  BY <1>1, FillTypes, NetType
<1>. HIDE DEF n, flow, cost, s
\* Up to the fill, nothing is counted otherwise.
<1>7. ASSUME NEW x \in Symbols, NEW k \in 0 .. n PROVE Net(os2, fl2, x, k) = Net(os, fl, x, k)
  <2>. DEFINE S == FillsIn(os, fl, x) \cap (1 .. k)
  <2>1. n + 1 \notin 1 .. k
    BY <1>5
  <2>2. FillsIn(os2, fl2, x) \cap (1 .. k) = S
    <3>1. FillsIn(os2, fl2, x) \in {FillsIn(os, fl, x), FillsIn(os, fl, x) \cup {n + 1}}
      BY <1>5, Zenon
    <3>. QED BY <2>1, <3>1, Zenon
  <2>3. IsFiniteSet(S) /\ \A j \in S : Flows(os2, fl2)[j] = Flows(os, fl)[j]
    BY <1>5, <1>6, FS_Subset
  <2>. HIDE DEF S
  <2>4. Sum(Flows(os2, fl2), S) = Sum(Flows(os, fl), S)
    BY <2>3, SumSame
  <2>. QED BY <2>2, <2>4 DEF Net, S
\* What is held is what was counted at the last fill.
<1>8. \A x \in Symbols : held[x] = Net(os, fl, x, n)
  <2>1. \A x \in Symbols : FillsIn(os, fl, x) \cap (1 .. n) = FillsIn(os, fl, x)
    BY <1>6
  <2>. QED BY <1>1, <2>1 DEF Net
<1>9. Net(os2, fl2, s, n + 1) = held[s] + flow
  <2>. DEFINE S == FillsIn(os, fl, s)
  <2>1. FillsIn(os2, fl2, s) \cap (1 .. (n + 1)) = S \cup {n + 1}
    BY <1>5, <1>6
  <2>2. IsFiniteSet(S) /\ n + 1 \notin S /\ \A j \in S : Flows(os2, fl2)[j] = Flows(os, fl)[j]
    BY <1>5, <1>6
  <2>3. \A j \in S \cup {n + 1} : Flows(os2, fl2)[j] \in Int
    BY <1>3, <1>5, <1>6
  <2>4. Sum(Flows(os, fl), S) = held[s]
    BY <1>1, <1>2
  <2>. HIDE DEF S
  <2>5. Sum(Flows(os2, fl2), S) = held[s]
    BY <2>2, <2>4, SumSame
  <2>6. Sum(Flows(os2, fl2), S \cup {n + 1}) = held[s] + flow
    BY <1>5, <2>2, <2>3, <2>5, SumAdd
  <2>. QED BY <2>1, <2>6 DEF Net
\* A history that was never short with the fill was never short without it.
<1>10. ASSUME NeverWentShort(os2, fl2)
       PROVE  NeverWentShort(os, fl) /\ held[s] >= 0 /\ held[s] + flow >= 0
  <2>1. \A x \in Symbols : \A k \in 1 .. n : Net(os, fl, x, k) >= 0
    <3>1. \A k \in 1 .. n : k \in 0 .. n /\ k \in 1 .. Len(fl2)
      BY <1>5
    <3>. QED BY <1>7, <1>10, <3>1 DEF NeverWentShort
  <2>2. held[s] >= 0
    <3>1. CASE n = 0
      <4>1. FillsIn(os, fl, s) = {}
        BY <1>6, <3>1
      <4>2. held[s] = 0
        BY <1>1, <1>2, <4>1, SumEmpty
      <4>. QED BY <4>2
    <3>2. CASE n # 0
      <4>1. n \in 1 .. n
        BY <1>5, <3>2
      <4>. QED BY <1>2, <1>8, <2>1, <4>1
    <3>. QED BY <3>1, <3>2
  <2>3. n + 1 \in 1 .. Len(fl2)
    BY <1>5
  <2>4. Net(os2, fl2, s, n + 1) >= 0
    BY <1>2, <1>10, <2>3 DEF NeverWentShort
  <2>. QED BY <1>9, <2>1, <2>2, <2>4 DEF NeverWentShort, n
\* What rounding can have lost grows by what the fill can lose.
<1>11. /\ \A k \in 1 .. n : Lost(os2, fl2)[k] = Lost(os, fl)[k]
       /\ Lost(os2, fl2)[n + 1] = held[s] + flow - 1
  <2>1. ASSUME NEW k \in 1 .. n PROVE Lost(os2, fl2)[k] = Lost(os, fl)[k]
    <3>1. k \in 0 .. n /\ k \in 1 .. Len(fl2) /\ os2[fl2[k].order] = os[fl[k].order]
      BY <1>5
    <3>2. os[fl[k].order].symbol \in Symbols
      <4>1. fl[k].order \in 1 .. Len(os)
        BY <1>1 DEF n
      <4>2. os[fl[k].order] \in Order
        BY <1>1, <4>1, ElementOfSeq
      <4>. QED BY <4>2 DEF Order
    <3>3. Net(os2, fl2, os[fl[k].order].symbol, k) = Net(os, fl, os[fl[k].order].symbol, k)
      BY <1>7, <3>1, <3>2
    <3>. QED BY <3>1, <3>3 DEF Lost, n
  <2>2. Lost(os2, fl2)[n + 1] = Net(os2, fl2, s, n + 1) - 1
    BY <1>5 DEF Lost, s
  <2>3. Lost(os2, fl2)[n + 1] = held[s] + flow - 1
    <3>. DEFINE net == Net(os2, fl2, s, n + 1)
                loss == Lost(os2, fl2)[n + 1]
                h == held[s]
    <3>. HIDE DEF net, loss, h
    <3>1. loss = net - 1 /\ net = h + flow
      BY <1>9, <2>2 DEF net, loss, h
    <3>2. h \in Int /\ flow \in Int
      BY <1>1, <1>2, <1>3 DEF h
    <3>3. loss = h + flow - 1
      BY <3>1, <3>2
    <3>. QED BY <3>3 DEF loss, h
  <2>. QED BY <2>1, <2>3, Zenon
<1>12. /\ Buys(os2, fl2) = IF flow > 0 THEN buys \cup {n + 1} ELSE buys
  BY <1>3, <1>5 DEF Buys, n
<1>13. SumsGrown(1 .. n, n + 1, Lost(os, fl), Lost(os2, fl2))
  <2>. DEFINE f == Lost(os, fl)
              g == Lost(os2, fl2)
  <2>. HIDE DEF f, g
  <2>1. held[s] \in Int
    BY <1>1, <1>2
  <2>2. \A k \in 1 .. n : g[k] = f[k] /\ f[k] \in Int
    BY <1>6, <1>11 DEF f, g
  <2>3. g[n + 1] \in Int
    BY <1>3, <1>11, <2>1 DEF g
  <2>4. GrownBy(1 .. n, n + 1, f, g)
    BY <1>5, <1>6, <2>2, <2>3 DEF GrownBy
  <2>. QED BY <2>4, SumGrows DEF f, g
<1>14. /\ Sum(Lost(os2, fl2), Buys(os2, fl2))
             = lost + (IF flow > 0 THEN held[s] + flow - 1 ELSE 0)
       /\ lost \in Int
  <2>1. lost \in Int
    <3>1. IsFiniteSet(buys)
      BY <1>6, FS_Subset
    <3>2. \A k \in buys : Lost(os, fl)[k] \in Int
      BY <1>6
    <3>. HIDE DEF buys
    <3>. QED BY <3>1, <3>2, SumType
  <2>2. /\ Sum(Lost(os2, fl2), buys) = lost
        /\ Sum(Lost(os2, fl2), buys \cup {n + 1}) = lost + (held[s] + flow - 1)
    BY <1>6, <1>11, <1>13 DEF SumsGrown
  <2>. HIDE DEF buys, lost
  <2>. QED BY <1>12, <2>1, <2>2
<1>15. gap \in Int /\ gap2 = gap - (w2 - w) + cost /\ gap2 \in Int /\ worth + (w2 - w) \in Int
  BY <1>1, <1>3, AmountsAssumption
<1>16. ASSUME NeverWentShort(os2, fl2)
       PROVE  0 <= gap2 /\ gap2 <= Sum(Lost(os2, fl2), Buys(os2, fl2))
  <2>1. 0 <= gap /\ gap <= lost
    BY <1>10, <1>16 DEF Balanced
  <2>2. w2 <= w + cost /\ w + cost <= w2 + (IF flow > 0 THEN held[s] + flow - 1 ELSE 0)
    BY <1>10, <1>16 DEF WorthFollows, cost, s, flow
  <2>. DEFINE h == held[s]
              most == IF flow > 0 THEN h + flow - 1 ELSE 0
  <2>3. h \in Int /\ flow \in Int
    BY <1>1, <1>2, <1>3
  <2>4. most \in Int
    BY <2>3
  <2>. HIDE DEF gap, gap2, lost, most
  <2>5. w2 <= w + cost /\ w + cost <= w2 + most /\ Sum(Lost(os2, fl2), Buys(os2, fl2)) = lost + most
    BY <1>14, <2>2, Zenon DEF most
  <2>6. gap \in Int /\ gap2 = gap - (w2 - w) + cost /\ cost \in Int /\ lost \in Int
    BY <1>3, <1>14, <1>15
  <2>7. 0 <= gap2 /\ gap2 <= lost + most
    BY <2>1, <2>4, <2>5, <2>6
  <2>. QED BY <2>5, <2>7
<1>. QED BY <1>15, <1>16 DEF Balanced, fl2

\* The books of the fills and of the cash together.
Books(os, held, worth, cash, fl) == Booked(os, held, cash, fl) /\ Balanced(os, worth, cash, fl)

\* A step of the books without a fill.
LEMMA BooksSame ==
    ASSUME NEW os, NEW held, NEW worth, NEW cash, NEW fl, Books(os, held, worth, cash, fl),
           NEW os2, Keeps(os, os2, 0)
    PROVE  Books(os2, held, worth, cash, fl)
  BY BookSame, BalanceSame DEF Books

\* The same with one fill, whose position is worth w before it and w2 after it.
LEMMA BooksFill ==
    ASSUME NEW os, NEW held, NEW worth, NEW cash, NEW fl, Books(os, held, worth, cash, fl),
           NEW os2, NEW i \in 1 .. Len(os2), Keeps(os, os2, i),
           i \in 1 .. Len(os) => os[i].status # "FILLED" /\ os[i].filled_qty = 0,
           os2[i].status = "FILLED", NEW q \in Nat \ {0}, os2[i].filled_qty = q,
           NEW price \in Int, Within(os2[i], price), NEW w \in Int, NEW w2 \in Int,
           WorthFollows(held[os2[i].symbol], Signed(os2[i].side, q), price, w, w2)
    PROVE  Books(os2,
                 [held EXCEPT ![os2[i].symbol] = @ + Signed(os2[i].side, q)],
                 worth + (w2 - w),
                 cash - Signed(os2[i].side, price * q),
                 Append(fl, [order |-> i, qty |-> q, price |-> price]))
  BY BookFill, BalanceFill DEF Books

-----------------------------------------------------------------------------
(* A scan                                                                    *)

\* _apply_fill moves the position by the quantity, the cash by the cost, and appends the fill.
LEMMA ApplyFillBooks ==
    ASSUME NEW acct \in AccountType, NEW id, NEW o, NEW price
    PROVE  LET a == ApplyFill(acct, id, o, price)
               q == Remaining(o)
           IN  /\ a.pos.qty = acct.pos.qty + Signed(o.side, q)
               /\ a.cash = acct.cash - Signed(o.side, price * q)
               /\ a.fills = Append(acct.fills, [order |-> id, qty |-> q, price |-> price])
<1>. DEFINE q == Remaining(o)
<1>. HIDE DEF q
<1>1. acct.pos \in Position
  BY DEF AccountType
<1>2. Increase(acct.pos, o.side, q, price).qty = acct.pos.qty + Signed(o.side, q)
  BY <1>1 DEF Increase, Position
<1>3. Reduce(acct.pos, o.side, q, price).qty = acct.pos.qty + Signed(o.side, q)
  BY DEF Reduce
<1>. QED BY <1>2, <1>3 DEF ApplyFill, q

\* What a scan does to an order, field by field.
LEMMA ScanOrderBooks ==
    ASSUME NEW os, NEW rs, BookSound(os, rs), NEW s \in Symbols, NEW p \in Nat \ {NoPrice},
           NEW i \in 1 .. Len(os)
    PROVE  LET old == os[i]
               new == ScanOrders(os, rs[s], p)[i]
           IN  /\ new \in Order /\ old \in Order /\ new.side = old.side /\ new.symbol = old.symbol
               /\ IF i \in rs[s] /\ Executable(old, p)
                  THEN /\ old.symbol = s /\ old.status = "OPEN" /\ old.filled_qty = 0
                       /\ new.status = "FILLED" /\ new.filled_qty = old.qty
                       /\ Remaining(old) = old.qty
                       /\ FillPrice(old, p) \in Int /\ Within(new, FillPrice(old, p))
                  ELSE /\ new.filled_qty = old.filled_qty
                       /\ old.status = "FILLED" => new = old
<1>. DEFINE old == os[i]
            new == ScanOrders(os, rs[s], p)[i]
<1>1. /\ old \in Order /\ OrderSound(old)
      /\ i \in rs[s] => old.status = "OPEN" /\ old.symbol = s
      /\ DOMAIN os = 1 .. Len(os)
  BY ElementOfSeq, LenProperties DEF BookSound
<1>2. new = IF i \in rs[s] /\ Executable(old, p) THEN Executed(old)
            ELSE IF i \in rs[s] /\ TurnsLimit(old, p) THEN [old EXCEPT !.order_type = "LIMIT"]
            ELSE old
  BY <1>1 DEF ScanOrders
<1>3. OrderSound(new) /\ new.symbol = old.symbol
  BY ScanOrder
<1>. HIDE DEF old, new
<1>4. CASE i \in rs[s] /\ Executable(old, p)
  <2>1. new = [old EXCEPT !.filled_qty = old.qty, !.status = "FILLED"]
    BY <1>1, <1>2, <1>4, ExecutedSound
  <2>2. old.filled_qty = 0 /\ Remaining(old) = old.qty
    BY <1>1, <1>4 DEF OrderSound, Order, Remaining
  <2>3. FillPrice(old, p) \in Int
    BY <1>1, SlippedPriceType DEF FillPrice, Order
  <2>4. /\ new.status = "FILLED" /\ new.filled_qty = old.qty /\ new.side = old.side
        /\ new.order_type = old.order_type /\ new.price = old.price
    BY <1>1, <2>1 DEF Order
  <2>5. Within(new, FillPrice(old, p))
    BY <1>1, <2>4 DEF Within, FillPrice, Order
  <2>. QED BY <1>1, <1>3, <1>4, <2>2, <2>3, <2>4, <2>5 DEF OrderSound, old, new
<1>5. CASE ~(i \in rs[s] /\ Executable(old, p)) /\ i \in rs[s] /\ TurnsLimit(old, p)
  <2>1. new = [old EXCEPT !.order_type = "LIMIT"]
    BY <1>2, <1>5
  <2>2. new.side = old.side /\ new.filled_qty = old.filled_qty
    BY <1>1, <2>1 DEF Order
  <2>3. old.status = "OPEN"
    BY <1>1, <1>5
  <2>. QED BY <1>1, <1>3, <1>5, <2>2, <2>3 DEF OrderSound, old, new
<1>6. CASE ~(i \in rs[s] /\ Executable(old, p)) /\ ~(i \in rs[s] /\ TurnsLimit(old, p))
  BY <1>1, <1>2, <1>3, <1>6 DEF old, new
<1>. QED BY <1>4, <1>5, <1>6

\* A scan books each of its fills.
LEMMA ScanBooks ==
    ASSUME NEW os, NEW rs, BookSound(os, rs), NEW s \in Symbols, NEW p \in Nat \ {NoPrice},
           NEW acct \in AccountType, NEW held, held[s] = acct.pos.qty,
           NEW worth, Books(os, held, worth, acct.cash, acct.fills)
    PROVE  LET a == ScanAccount(acct, os, rs[s], p)
           IN  Books(ScanOrders(os, rs[s], p), [held EXCEPT ![s] = a.pos.qty],
                     worth + (Worth(a.pos) - Worth(acct.pos)), a.cash, a.fills)
<1>. DEFINE n == Len(os)
            os2 == ScanOrders(os, rs[s], p)
            upto(k) == [i \in 1 .. n |-> IF i <= k THEN os2[i] ELSE os[i]]
<1>1. n \in Nat /\ os \in Seq(Order) /\ DOMAIN os = 1 .. n /\ held \in [Symbols -> Int]
      /\ worth \in Int /\ Worth(acct.pos) \in Int
  BY LenProperties, WorthType DEF AccountType, BookSound, Books, Balanced, Booked, BooksTyped
<1>2. \A i \in 1 .. n : os2[i] \in Order /\ os[i] \in Order
  BY ScanOrderBooks
<1>. HIDE DEF os2
<1>3. \A k : /\ upto(k) \in Seq(Order) /\ Len(upto(k)) = n
             /\ \A i \in 1 .. n : upto(k)[i] = IF i <= k THEN os2[i] ELSE os[i]
  <2>. TAKE k
  <2>1. upto(k) \in [1 .. n -> Order]
    BY <1>2
  <2>2. upto(k) \in Seq(Order)
    BY <1>1, <2>1, SeqDef
  <2>. QED BY <1>1, <2>1, <2>2, LenProperties
<1>4. upto(0) = os /\ upto(n) = os2
  BY <1>1 DEF os2, ScanOrders
<1>. HIDE DEF upto
<1>5. PICK run : IsScan(run, acct, os, rs[s], p)
  BY <1>1, ScanRun
<1>6. /\ run = [k \in 0 .. n |-> IF k = 0 THEN acct ELSE ScanStep(run[k - 1], os, rs[s], p, k)]
      /\ ScanAccount(acct, os, rs[s], p) = run[n]
  BY <1>5 DEF IsScan
<1>. DEFINE Holds(k) == /\ run[k] \in AccountType
                        /\ Books(upto(k), [held EXCEPT ![s] = run[k].pos.qty],
                                 worth + (Worth(run[k].pos) - Worth(acct.pos)),
                                 run[k].cash, run[k].fills)
            Good == {k \in Nat : k \in 0 .. n => Holds(k)}
<1>7. 0 \in Good
  <2>1. run[0] = acct
    BY <1>1, <1>6
  <2>2. [held EXCEPT ![s] = acct.pos.qty] = held
    BY <1>1
  <2>3. worth + (Worth(acct.pos) - Worth(acct.pos)) = worth
    BY <1>1
  <2>4. Holds(0)
    BY <1>4, <2>1, <2>2, <2>3
  <2>. QED BY <2>4
<1>8. ASSUME NEW k \in Nat, k \in Good PROVE k + 1 \in Good
  <2>. SUFFICES ASSUME k + 1 \in 0 .. n PROVE Holds(k + 1)
    OBVIOUS
  <2>. DEFINE i == k + 1
              a == run[k]
              b == run[k + 1]
              worth1 == worth + (Worth(a.pos) - Worth(acct.pos))
  <2>1. Holds(k)
    BY <1>1, <1>8
  <2>. HIDE DEF worth1, Holds
  <2>2. b = ScanStep(a, os, rs[s], p, i) /\ i \in 1 .. n /\ i \in Nat \ {0}
    <3>1. i \in 0 .. n /\ i # 0 /\ i - 1 = k /\ i \in 1 .. n /\ i \in Nat \ {0}
      BY <1>1
    <3>. HIDE DEF i
    <3>2. run[i] = ScanStep(run[k], os, rs[s], p, i)
      BY <1>6, <3>1
    <3>. QED BY <3>1, <3>2 DEF i
  <2>3. /\ a \in AccountType
        /\ Books(upto(k), [held EXCEPT ![s] = a.pos.qty], worth1, a.cash, a.fills)
    BY <2>1 DEF worth1, Holds
  <2>. HIDE DEF a, b, worth1
  <2>4. \A j \in 1 .. n : /\ j # i => upto(i)[j] = upto(k)[j]
                          /\ upto(i)[i] = os2[i] /\ upto(k)[i] = os[i]
    BY <1>1, <1>3
  <2>5. CASE i \in rs[s] /\ Executable(os[i], p)
    <3>. DEFINE price == FillPrice(os[i], p)
                q == os[i].qty
    <3>1. /\ os[i] \in Order /\ os[i].symbol = s /\ os[i].status = "OPEN" /\ os[i].filled_qty = 0
          /\ os2[i].status = "FILLED" /\ os2[i].filled_qty = q /\ Remaining(os[i]) = q
          /\ os2[i].side = os[i].side /\ os2[i].symbol = s
          /\ price \in Int /\ Within(os2[i], price)
      BY <2>2, <2>5, ScanOrderBooks DEF os2
    <3>2. q \in Nat
      BY <3>1 DEF Order
    <3>3. Keeps(upto(k), upto(i), i)
      BY <1>1, <1>3, <2>2, <2>4, <3>1 DEF Keeps
    <3>4. b = ApplyFill(a, i, os[i], price)
      BY <2>2, <2>5 DEF ScanStep
    <3>5. /\ b.pos.qty = a.pos.qty + Signed(os[i].side, q)
          /\ b.cash = a.cash - Signed(os[i].side, price * q)
          /\ b.fills = Append(a.fills, [order |-> i, qty |-> q, price |-> price])
      BY <2>3, <3>1, <3>4, ApplyFillBooks
    <3>6. b \in AccountType
      <4>1. OrderSound(os[i])
        BY <2>2 DEF BookSound
      <4>. HIDE DEF price, q, i
      <4>. QED BY <2>2, <2>3, <3>1, <3>4, <4>1, ApplyFillType
    <3>. DEFINE held1 == [held EXCEPT ![s] = a.pos.qty]
    <3>. HIDE DEF price, q, i, held1
    <3>7. Books(upto(i), [held1 EXCEPT ![upto(i)[i].symbol] = @ + Signed(upto(i)[i].side, q)],
                worth1 + (Worth(b.pos) - Worth(a.pos)),
                a.cash - Signed(upto(i)[i].side, price * q),
                Append(a.fills, [order |-> i, qty |-> q, price |-> price]))
      <4>1. /\ Books(upto(k), held1, worth1, a.cash, a.fills)
            /\ i \in 1 .. Len(upto(i))
            /\ i \in 1 .. Len(upto(k)) => upto(k)[i].status # "FILLED" /\ upto(k)[i].filled_qty = 0
            /\ upto(i)[i].status = "FILLED" /\ upto(i)[i].filled_qty = q
            /\ Within(upto(i)[i], price)
        BY <1>3, <2>2, <2>3, <2>4, <3>1 DEF held1
      <4>2. q \in Nat \ {0}
        <5>1. OrderSound(os[i])
          BY <2>2 DEF BookSound, i
        <5>. QED BY <3>1, <3>2, <5>1 DEF OrderSound, q
      <4>3. WorthFollows(a.pos.qty, Signed(os[i].side, q), price, Worth(a.pos), Worth(b.pos))
        BY <2>3, <3>1, <3>4, <4>2, ApplyFillWorth
      <4>4. held1[upto(i)[i].symbol] = a.pos.qty /\ upto(i)[i].side = os[i].side
        BY <1>1, <2>4, <3>1 DEF held1
      <4>5. Worth(a.pos) \in Int /\ Worth(b.pos) \in Int
        BY <2>3, <3>6, WorthType DEF AccountType
      <4>. QED BY <3>1, <3>3, <4>1, <4>2, <4>3, <4>4, <4>5, BooksFill
    <3>8. [held1 EXCEPT ![s] = @ + Signed(os[i].side, q)] = [held EXCEPT ![s] = b.pos.qty]
      BY <1>1, <3>5 DEF held1
    <3>9. upto(i)[i] = os2[i]
      BY <2>2, <2>4
    <3>10. worth1 + (Worth(b.pos) - Worth(a.pos)) = worth + (Worth(b.pos) - Worth(acct.pos))
      <4>1. Worth(a.pos) \in Int /\ Worth(b.pos) \in Int
        BY <2>3, <3>6, WorthType DEF AccountType
      <4>. QED BY <1>1, <4>1 DEF worth1
    <3>11. Books(upto(i), [held EXCEPT ![s] = b.pos.qty],
                 worth + (Worth(b.pos) - Worth(acct.pos)), b.cash, b.fills)
      BY <3>1, <3>5, <3>7, <3>8, <3>9, <3>10
    <3>. QED BY <3>6, <3>11 DEF b, i, Holds
  <2>6. CASE ~(i \in rs[s] /\ Executable(os[i], p))
    <3>1. b = a
      BY <2>2, <2>6 DEF ScanStep
    <3>2. /\ os2[i].side = os[i].side /\ os2[i].symbol = os[i].symbol
          /\ os2[i].filled_qty = os[i].filled_qty
          /\ os[i].status = "FILLED" => os2[i] = os[i]
      BY <2>2, <2>6, ScanOrderBooks DEF os2
    <3>3. Keeps(upto(k), upto(i), 0)
      BY <1>1, <1>3, <2>2, <2>4, <3>2 DEF Keeps
    <3>. HIDE DEF i
    <3>4. Books(upto(i), [held EXCEPT ![s] = a.pos.qty], worth1, a.cash, a.fills)
      BY <2>3, <3>3, BooksSame
    <3>. QED BY <2>3, <3>1, <3>4 DEF b, i, worth1, Holds
  <2>. QED BY <2>5, <2>6
<1>9. Holds(n)
  <2>1. Nat \subseteq Good
    <3>. HIDE DEF Good
    <3>. QED BY <1>7, <1>8, SetInduction
  <2>. HIDE DEF Holds
  <2>. QED BY <1>1, <2>1
<1>. QED BY <1>4, <1>6, <1>9 DEF os2

-----------------------------------------------------------------------------
(* Each action keeps the books                                               *)

\* What the positions hold, as the books count it.
Held(ps) == [s \in Symbols |-> ps[s].qty]

\* What each of them is worth.
Worths(ps) == [s \in Symbols |-> Worth(ps[s])]

\* One position that changes moves the sum of the worths by its own.
LEMMA WorthMoved ==
    ASSUME NEW ps \in [Symbols -> Position], NEW s \in Symbols, NEW pos \in Position
    PROVE  Sum(Worths([ps EXCEPT ![s] = pos]), Symbols)
             = Sum(Worths(ps), Symbols) + (Worth(pos) - Worth(ps[s]))
<1>. DEFINE f == Worths(ps)
            g == Worths([ps EXCEPT ![s] = pos])
<1>1. f \in [Symbols -> Int] /\ Worth(pos) \in Int /\ f[s] = Worth(ps[s])
  BY WorthType DEF Worths
<1>2. g = [f EXCEPT ![s] = Worth(pos)]
  BY DEF Worths
<1>. DEFINE v == Worth(pos)
<1>. HIDE DEF f, g, v
<1>3. IsFiniteSet(Symbols) /\ f \in [Symbols -> Int] /\ v \in Int
  BY <1>1, AmountsAssumption DEF v
<1>4. Sum([f EXCEPT ![s] = v], Symbols) = Sum(f, Symbols) + (v - f[s])
  BY <1>3, SumMoved
<1>. QED BY <1>1, <1>2, <1>4 DEF f, g, v

\* The inductive invariant of the books, beside BookInv.
BooksInv == Books(orders, Held(positions), Sum(Worths(positions), Symbols), capital, fills)

\* The empty books.
LEMMA InitBooks == ASSUME Init PROVE BooksInv
<1>1. /\ orders = << >> /\ fills = << >> /\ capital = InitialCapital
      /\ Held(positions) = [s \in Symbols |-> 0]
  BY DEF Init, Held, FlatPosition
<1>2. orders \in Seq(Order) /\ fills \in Seq(Fill) /\ Len(orders) = 0 /\ Len(fills) = 0
  BY <1>1
<1>3. InitialCapital \in Int
  BY AmountsAssumption
<1>4. BooksTyped(orders, Held(positions), capital, fills)
  BY <1>1, <1>2, <1>3 DEF BooksTyped
<1>5. /\ 1 .. Len(fills) = {} /\ 1 .. Len(orders) = {}
      /\ \A s : FillsIn(orders, fills, s) = {}
  BY <1>2 DEF FillsIn
<1>6. /\ \A s : Sum(Flows(orders, fills), FillsIn(orders, fills, s)) = 0
      /\ Sum(Costs(orders, fills), 1 .. Len(fills)) = 0
  BY <1>5, SumEmpty
<1>7. Booked(orders, Held(positions), capital, fills)
  BY <1>1, <1>3, <1>4, <1>5, <1>6 DEF Booked
<1>8. Sum(Worths(positions), Symbols) = 0
  <2>1. \A s \in Symbols : Worths(positions)[s] = 0
    BY DEF Init, Worths, Worth, FlatPosition
  <2>. QED BY <2>1, SumZero, AmountsAssumption
<1>9. Buys(orders, fills) = {}
  BY <1>5 DEF Buys
<1>10. Sum(Lost(orders, fills), {}) = 0
  BY SumEmpty
<1>11. Balanced(orders, 0, capital, fills)
  <2>1. Sum(Lost(orders, fills), Buys(orders, fills)) = 0
    BY <1>9, <1>10
  <2>2. InitialCapital - 0 - capital = 0
    BY <1>1, <1>3
  <2>. QED BY <2>1, <2>2 DEF Balanced
<1>. QED BY <1>7, <1>8, <1>11 DEF BooksInv, Books

\* A step that leaves the orders and the money alone leaves the books right.
LEMMA SameBooks ==
    ASSUME BooksInv, orders' = orders, UNCHANGED moneyVars
    PROVE  BooksInv'
  BY DEF BooksInv, moneyVars

\* A rejected order enters the table with nothing executed.
LEMMA RejectBooks ==
    ASSUME NEW r \in Request, BookInv, BooksInv, RejectOrder(r) PROVE BooksInv'
<1>. DEFINE o == NewOrder(r, "REJECTED")
<1>1. OrderSound(o) /\ o \in Order /\ o.status = "REJECTED" /\ o.filled_qty = 0
  BY NewOrderSound DEF OrderSound, NewOrder
<1>2. orders' = Append(orders, o) /\ UNCHANGED moneyVars /\ orders \in Seq(Order)
  BY DEF RejectOrder, BookInv, TypeOK, BookTypeOK
<1>. HIDE DEF o
<1>3. Keeps(orders, orders', 0)
  BY <1>1, <1>2, AppendProperties, LenProperties DEF Keeps
<1>4. Books(orders', Held(positions), Sum(Worths(positions), Symbols), capital, fills)
  BY <1>3, BooksSame DEF BooksInv
<1>. QED BY <1>2, <1>4 DEF BooksInv, moneyVars

\* A MARKET order with a price is one order and one fill more.
LEMMA FillMarketBooks ==
    ASSUME NEW r \in Request, BookInv, BooksInv, FillMarketOrder(r) PROVE BooksInv'
<1>. DEFINE o == NewOrder(r, "OPEN")
            i == Len(orders) + 1
            s == r.symbol
            price == SlippedPrice(r.side, ltp[s])
            acct == ApplyFill(Account(s), i, o, price)
            q == o.qty
<1>1. /\ OrderSound(o) /\ o \in Order /\ o.status = "OPEN" /\ s \in Symbols
      /\ o.symbol = s /\ o.side = r.side /\ o.filled_qty = 0 /\ o.order_type = "MARKET"
  BY NewOrderSound DEF OrderSound, NewOrder, FillMarketOrder
<1>2. /\ orders' = Append(orders, Executed(o)) /\ Post(s, acct)
      /\ orders \in Seq(Order) /\ Len(orders) \in Nat /\ price \in Int
      /\ Account(s) \in AccountType /\ positions \in [Symbols -> Position]
  <2>1. ltp[s] \in Int
    BY <1>1 DEF BookInv, TypeOK, BookTypeOK
  <2>2. price \in Int
    BY <2>1, SlippedPriceType
  <2>. HIDE DEF price
  <2>3. /\ orders \in Seq(Order) /\ Len(orders) \in Nat /\ Account(s) \in AccountType
        /\ positions \in [Symbols -> Position]
    BY <1>1, InvFacts DEF BookInv, TypeOK, BookTypeOK, MoneyTypeOK
  <2>. QED BY <2>2, <2>3 DEF FillMarketOrder, price
<1>. HIDE DEF o, price, acct
<1>3. /\ Executed(o) \in Order /\ Executed(o).status = "FILLED" /\ Executed(o).filled_qty = q
      /\ Executed(o).symbol = s /\ Executed(o).side = o.side /\ Executed(o).order_type = "MARKET"
      /\ Remaining(o) = q /\ q \in Nat
  <2>1. Executed(o) = [o EXCEPT !.filled_qty = o.qty, !.status = "FILLED"]
    BY <1>1, ExecutedSound
  <2>2. Executed(o) \in Order
    BY <1>1, ExecutedSound DEF OrderSound
  <2>. QED BY <1>1, <2>1, <2>2 DEF Order, Remaining
<1>4. /\ acct.pos.qty = positions[s].qty + Signed(o.side, q)
      /\ acct.cash = capital - Signed(o.side, price * q)
      /\ acct.fills = Append(fills, [order |-> i, qty |-> q, price |-> price])
  <2>1. /\ acct.pos.qty = Account(s).pos.qty + Signed(o.side, q)
        /\ acct.cash = Account(s).cash - Signed(o.side, price * q)
        /\ acct.fills = Append(Account(s).fills, [order |-> i, qty |-> q, price |-> price])
    BY <1>2, <1>3, ApplyFillBooks DEF acct
  <2>. QED BY <2>1 DEF Account
<1>5. /\ orders' \in Seq(Order) /\ Len(orders') = i /\ orders'[i] = Executed(o)
      /\ \A j \in 1 .. Len(orders) : orders'[j] = orders[j]
  BY <1>2, <1>3, AppendProperties
<1>6. /\ Keeps(orders, orders', i) /\ i \in 1 .. Len(orders') /\ Within(orders'[i], price)
      /\ i \notin 1 .. Len(orders)
  BY <1>2, <1>3, <1>5 DEF Keeps, Within
<1>7. /\ acct.pos \in Position /\ Worth(acct.pos) \in Int /\ Worth(positions[s]) \in Int
      /\ q \in Nat \ {0}
      /\ WorthFollows(positions[s].qty, Signed(o.side, q), price,
                      Worth(positions[s]), Worth(acct.pos))
  <2>1. acct \in AccountType
    BY <1>1, <1>2, ApplyFillType DEF acct
  <2>2. q \in Nat \ {0}
    BY <1>1, <1>3 DEF OrderSound
  <2>3. WorthFollows(Account(s).pos.qty, Signed(o.side, q), price, Worth(Account(s).pos),
                     Worth(acct.pos))
    BY <1>1, <1>2, <1>3, <2>2, ApplyFillWorth DEF acct
  <2>4. Account(s).pos = positions[s] /\ positions[s] \in Position /\ acct.pos \in Position
    BY <1>1, <1>2, <2>1 DEF Account, AccountType
  <2>. QED BY <2>2, <2>3, <2>4, WorthType
<1>8. Books(orders', [Held(positions) EXCEPT ![s] = @ + Signed(o.side, q)],
            Sum(Worths(positions), Symbols) + (Worth(acct.pos) - Worth(positions[s])),
            acct.cash, acct.fills)
  <2>. DEFINE w == Worth(positions[s])
              w2 == Worth(acct.pos)
              worth == Sum(Worths(positions), Symbols)
  <2>1. Books(orders, Held(positions), worth, capital, fills)
    BY DEF BooksInv
  <2>2. /\ orders'[i].status = "FILLED" /\ orders'[i].filled_qty = q
        /\ orders'[i].symbol = s /\ orders'[i].side = o.side
    BY <1>3, <1>5
  <2>3. Held(positions)[s] = positions[s].qty
    BY <1>1 DEF Held
  <2>. HIDE DEF i, q, s, w, w2, worth
  <2>4. w \in Int /\ w2 \in Int /\ q \in Nat \ {0}
        /\ WorthFollows(Held(positions)[s], Signed(o.side, q), price, w, w2)
    BY <1>7, <2>3 DEF w, w2
  <2>5. Books(orders', [Held(positions) EXCEPT ![orders'[i].symbol] = @ + Signed(orders'[i].side, q)],
              worth + (w2 - w), capital - Signed(orders'[i].side, price * q),
              Append(fills, [order |-> i, qty |-> q, price |-> price]))
    BY <1>2, <1>6, <2>1, <2>2, <2>4, BooksFill
  <2>. QED BY <1>4, <2>2, <2>5 DEF w, w2, worth
<1>9. positions' = [positions EXCEPT ![s] = acct.pos] /\ capital' = acct.cash /\ fills' = acct.fills
  BY <1>2 DEF Post
<1>10. Held(positions') = [Held(positions) EXCEPT ![s] = @ + Signed(o.side, q)]
  BY <1>1, <1>2, <1>4, <1>9 DEF Held
<1>11. Sum(Worths(positions'), Symbols)
         = Sum(Worths(positions), Symbols) + (Worth(acct.pos) - Worth(positions[s]))
  BY <1>1, <1>2, <1>7, <1>9, WorthMoved
<1>12. Books(orders', Held(positions'), Sum(Worths(positions'), Symbols), capital', fills')
  BY <1>8, <1>9, <1>10, <1>11, Zenon
<1>. QED BY <1>12 DEF BooksInv

\* A scan of the bucket of s from an account with the quantity and the worth of s.
LEMMA ScanPost ==
    ASSUME NEW os, NEW rs, BookSound(os, rs), NEW s \in Symbols, NEW p \in Nat \ {NoPrice},
           NEW acct \in AccountType, positions \in [Symbols -> Position],
           acct.pos.qty = positions[s].qty, Worth(acct.pos) = Worth(positions[s]),
           acct.cash = capital, acct.fills = fills,
           Books(os, Held(positions), Sum(Worths(positions), Symbols), capital, fills),
           orders' = ScanOrders(os, rs[s], p), Post(s, ScanAccount(acct, os, rs[s], p))
    PROVE  BooksInv'
<1>. DEFINE a == ScanAccount(acct, os, rs[s], p)
            held == Held(positions)
            worth == Sum(Worths(positions), Symbols)
<1>1. held[s] = acct.pos.qty
  BY DEF Held
<1>2. Books(os, held, worth, acct.cash, acct.fills)
  OBVIOUS
<1>3. a.pos \in Position
  <2>1. /\ os \in Seq(Order) /\ \A i \in 1 .. Len(os) : OrderSound(os[i])
        /\ \A i \in 1 .. Len(os) : i \in rs[s] => os[i].status = "OPEN"
    BY DEF BookSound
  <2>2. p \in Int
    OBVIOUS
  <2>3. a \in AccountType
    BY <2>1, <2>2, ScanAccountType, Zenon
  <2>. QED BY <2>3 DEF AccountType
<1>. HIDE DEF held, worth
<1>4. Books(ScanOrders(os, rs[s], p), [held EXCEPT ![s] = a.pos.qty],
            worth + (Worth(a.pos) - Worth(acct.pos)), a.cash, a.fills)
  BY <1>1, <1>2, ScanBooks
<1>. HIDE DEF a
<1>5. positions' = [positions EXCEPT ![s] = a.pos] /\ capital' = a.cash /\ fills' = a.fills
  BY DEF Post, a
<1>6. Held(positions') = [held EXCEPT ![s] = a.pos.qty]
  BY <1>5 DEF Held, held
<1>7. Sum(Worths(positions'), Symbols) = worth + (Worth(a.pos) - Worth(acct.pos))
  BY <1>3, <1>5, WorthMoved DEF worth
<1>. QED BY <1>4, <1>5, <1>6, <1>7 DEF BooksInv

\* An order that rests enters the table unfilled, before the scan of its bucket.
LEMMA RestBooks ==
    ASSUME NEW r \in Request, BookInv, BooksInv, RestOrder(r) PROVE BooksInv'
<1>. DEFINE o == NewOrder(r, "OPEN")
            s == r.symbol
            p == ltp[s]
            os == Append(orders, o)
            rs == [resting EXCEPT ![s] = @ \cup {Len(orders) + 1}]
            bucket == resting[s] \cup {Len(orders) + 1}
<1>1. /\ OrderSound(o) /\ o \in Order /\ o.status = "OPEN" /\ o.symbol = s /\ s \in Symbols
      /\ o.filled_qty = 0
  BY NewOrderSound DEF OrderSound, NewOrder, RestOrder
<1>2. /\ ltp \in [Symbols -> Nat] /\ resting \in [Symbols -> SUBSET (1 .. Len(orders))]
      /\ orders \in Seq(Order) /\ positions \in [Symbols -> Position]
      /\ Account(s) \in AccountType
  BY <1>1, InvFacts DEF BookInv, TypeOK, BookTypeOK, MoneyTypeOK
<1>3. BookSound(os, rs) /\ rs[s] = bucket
  <2>. HIDE DEF o
  <2>. QED BY <1>1, <1>2, InvFacts, AppendOpen
<1>4. Keeps(orders, os, 0)
  <2>. HIDE DEF o
  <2>. QED BY <1>1, <1>2, AppendProperties, LenProperties DEF Keeps
<1>5. Books(os, Held(positions), Sum(Worths(positions), Symbols), capital, fills)
  BY <1>4, BooksSame DEF BooksInv
<1>6. CASE p = NoPrice
  <2>1. orders' = os /\ UNCHANGED moneyVars
    BY <1>6 DEF RestOrder
  <2>. HIDE DEF os
  <2>. QED BY <1>5, <2>1 DEF BooksInv, moneyVars
<1>7. CASE p # NoPrice
  <2>1. orders' = ScanOrders(os, bucket, p) /\ Post(s, ScanAccount(Account(s), os, bucket, p))
    BY <1>7 DEF RestOrder
  <2>2. /\ Account(s).pos = positions[s] /\ Account(s).cash = capital
        /\ Account(s).fills = fills
    BY DEF Account
  <2>3. p \in Nat \ {NoPrice}
    BY <1>1, <1>2, <1>7
  <2>. HIDE DEF os, rs, bucket, s, p
  <2>4. orders' = ScanOrders(os, rs[s], p) /\ Post(s, ScanAccount(Account(s), os, rs[s], p))
    BY <1>3, <2>1
  <2>. QED BY <1>1, <1>2, <1>3, <1>5, <2>2, <2>3, <2>4, ScanPost
<1>. QED BY <1>6, <1>7

\* An interval that starts at 1 is known by its end.
LEMMA IntervalEnd == ASSUME NEW a \in Nat, NEW b \in Nat, 1 .. a = 1 .. b PROVE a = b
<1>1. CASE a < b
  <2>1. b \in 1 .. b /\ b \notin 1 .. a
    BY <1>1
  <2>. QED BY <2>1
<1>2. CASE b < a
  <2>1. a \in 1 .. a /\ a \notin 1 .. b
    BY <1>2
  <2>. QED BY <2>1
<1>. QED BY <1>1, <1>2

\* Only an order with nothing executed can be cancelled.
LEMMA CancelBooks ==
    ASSUME NEW i \in DOMAIN orders, BookInv, BooksInv, CancelOrder(i) PROVE BooksInv'
<1>1. /\ orders' = [orders EXCEPT ![i].status = "CANCELLED"] /\ UNCHANGED moneyVars
      /\ ~Terminal(orders[i])
  BY DEF CancelOrder
<1>2. /\ orders \in Seq(Order) /\ orders[i] \in Order /\ DOMAIN orders = 1 .. Len(orders)
      /\ BookInv' /\ Len(orders) \in Nat
  BY LenProperties, ElementOfSeq, CancelOrderStep DEF BookInv, TypeOK, BookTypeOK
<1>3. orders' \in Seq(Order) /\ DOMAIN orders' = 1 .. Len(orders')
  BY <1>2, LenProperties DEF BookInv, TypeOK, BookTypeOK
<1>4. /\ Len(orders') = Len(orders) /\ \A j \in 1 .. Len(orders) : j # i => orders'[j] = orders[j]
      /\ orders'[i] = [orders[i] EXCEPT !.status = "CANCELLED"]
  <2>1. DOMAIN orders' = DOMAIN orders
    BY <1>1
  <2>2. Len(orders') \in Nat
    BY <1>3, LenProperties
  <2>3. Len(orders') = Len(orders)
    BY <1>2, <1>3, <2>1, <2>2, IntervalEnd
  <2>. QED BY <1>1, <1>2, <2>3
<1>5. /\ orders'[i].side = orders[i].side /\ orders'[i].symbol = orders[i].symbol
      /\ orders'[i].filled_qty = orders[i].filled_qty /\ orders[i].status # "FILLED"
  BY <1>1, <1>2, <1>4 DEF Order, Terminal
<1>6. Keeps(orders, orders', 0)
  <2>1. ASSUME NEW j \in 1 .. Len(orders)
        PROVE  /\ orders'[j].side = orders[j].side /\ orders'[j].symbol = orders[j].symbol
               /\ orders[j].status = "FILLED" => orders'[j] = orders[j]
               /\ orders'[j].filled_qty = orders[j].filled_qty
    <3>1. CASE j = i
      BY <1>5, <3>1
    <3>2. CASE j # i
      BY <1>4, <3>2
    <3>. QED BY <3>1, <3>2
  <2>2. Len(orders') = Len(orders) /\ orders' \in Seq(Order)
    BY <1>3, <1>4
  <2>. QED BY <1>2, <2>1, <2>2 DEF Keeps
<1>7. Books(orders', Held(positions), Sum(Worths(positions), Symbols), capital, fills)
  BY <1>6, BooksSame DEF BooksInv
<1>. QED BY <1>1, <1>7 DEF BooksInv, moneyVars

\* cancel_all_orders ends only orders with nothing executed.
LEMMA CancelAllBooks ==
    ASSUME BookInv, BooksInv, CancelAllOrders PROVE BooksInv'
<1>1. /\ orders' = [i \in DOMAIN orders |->
                      IF Terminal(orders[i]) THEN orders[i]
                      ELSE [orders[i] EXCEPT !.status = "CANCELLED"]]
      /\ UNCHANGED moneyVars
  BY DEF CancelAllOrders
<1>2. /\ orders \in Seq(Order) /\ DOMAIN orders = 1 .. Len(orders)
      /\ \A i \in DOMAIN orders : orders[i] \in Order
      /\ BookInv' /\ Len(orders) \in Nat
  BY LenProperties, ElementOfSeq, CancelAllOrdersStep DEF BookInv, TypeOK, BookTypeOK
<1>3. orders' \in Seq(Order) /\ DOMAIN orders' = 1 .. Len(orders') /\ Len(orders') \in Nat
  BY <1>2, LenProperties DEF BookInv, TypeOK, BookTypeOK
<1>4. DOMAIN orders' = DOMAIN orders
  BY <1>1
<1>5. Len(orders') = Len(orders)
  BY <1>2, <1>3, <1>4, IntervalEnd
<1>6. Keeps(orders, orders', 0)
  BY <1>1, <1>2, <1>3, <1>5 DEF Keeps, Order, Terminal
<1>7. Books(orders', Held(positions), Sum(Worths(positions), Symbols), capital, fills)
  BY <1>6, BooksSame DEF BooksInv
<1>. QED BY <1>1, <1>7 DEF BooksInv, moneyVars

\* Marking a position leaves its quantity; the scan books the fills of a tick.
LEMMA UpdateLtpBooks ==
    ASSUME NEW t \in Ticks, BookInv, BooksInv, UpdateLtp(t[1], t[2]) PROVE BooksInv'
<1>. DEFINE s == t[1]
            p == t[2]
            marked == [Account(s) EXCEPT !.pos = MarkToMarket(@, p)]
<1>1. s \in Symbols /\ p \in Nat \ {NoPrice} /\ p \in Int
  BY TicksAssumption
<1>2. /\ orders' = ScanOrders(orders, resting[s], p)
      /\ Post(s, ScanAccount(marked, orders, resting[s], p))
  <2>1. UpdateLtp(s, p)
    OBVIOUS
  <2>. HIDE DEF s, p
  <2>. QED BY <2>1, Zenon DEF UpdateLtp
<1>3. BookSound(orders, resting) /\ positions \in [Symbols -> Position]
  BY InvFacts DEF BookInv, TypeOK, MoneyTypeOK
<1>4. /\ marked \in AccountType /\ marked.pos.qty = positions[s].qty
      /\ Worth(marked.pos) = Worth(positions[s])
      /\ marked.cash = capital /\ marked.fills = fills
  <2>1. Account(s) \in AccountType
    BY <1>1, InvFacts
  <2>2. ASSUME NEW a \in AccountType
        PROVE  LET m == [a EXCEPT !.pos = MarkToMarket(@, p)]
               IN  /\ m \in AccountType
                   /\ m.pos.qty = a.pos.qty /\ Worth(m.pos) = Worth(a.pos)
                   /\ m.cash = a.cash /\ m.fills = a.fills
    <3>1. MarkToMarket(a.pos, p) \in Position /\ MarkToMarket(a.pos, p).qty = a.pos.qty
      BY <1>1 DEF AccountType, MarkToMarket, Position
    <3>2. Worth(MarkToMarket(a.pos, p)) = Worth(a.pos)
      BY <1>1, MarkWorth DEF AccountType
    <3>. QED BY <3>1, <3>2 DEF AccountType
  <2>3. /\ marked \in AccountType /\ marked.pos.qty = Account(s).pos.qty
        /\ Worth(marked.pos) = Worth(Account(s).pos)
        /\ marked.cash = Account(s).cash /\ marked.fills = Account(s).fills
    BY <2>1, <2>2
  <2>. HIDE DEF marked
  <2>. QED BY <2>3 DEF Account
<1>5. Books(orders, Held(positions), Sum(Worths(positions), Symbols), capital, fills)
  BY DEF BooksInv
<1>. HIDE DEF s, p, marked
<1>. QED BY <1>1, <1>2, <1>3, <1>4, <1>5, ScanPost

-----------------------------------------------------------------------------
(* The square-off                                                            *)

\* A visit goes to each open position once.
LEMMA VisitOnce ==
    ASSUME NEW S, IsFiniteSet(S), NEW visit \in Visits(S)
    PROVE  /\ Cardinality(S) \in Nat /\ Len(visit) = Cardinality(S)
           /\ DOMAIN visit = 1 .. Len(visit)
           /\ \A k \in 1 .. Len(visit) : visit[k] \in S
           /\ \A s \in S : \E k \in 1 .. Len(visit) : visit[k] = s
           /\ \A j, k \in 1 .. Len(visit) : visit[j] = visit[k] => j = k
<1>. DEFINE n == Cardinality(S)
<1>1. n \in Nat
  BY FS_CardinalityType
<1>2. visit \in [1 .. n -> S] /\ \A s \in S : \E k \in DOMAIN visit : visit[k] = s
  BY DEF Visits
<1>. HIDE DEF n
<1>3. visit \in Seq(S)
  BY <1>1, <1>2, SeqDef
<1>4. Len(visit) \in Nat /\ DOMAIN visit = 1 .. Len(visit) /\ DOMAIN visit = 1 .. n
  BY <1>2, <1>3, LenProperties
<1>5. Len(visit) = n
  BY <1>1, <1>4, IntervalEnd
<1>6. IsFiniteSet(1 .. n) /\ Cardinality(1 .. n) = n
  BY <1>1, FS_Interval
<1>7. visit \in Surjection(1 .. n, S)
  BY <1>2, <1>4 DEF Surjection
<1>8. visit \in Injection(1 .. n, S)
  BY <1>6, <1>7, FS_SurjSameCardinalityImpliesInj DEF n
<1>9. \A j, k \in 1 .. n : visit[j] = visit[k] => j = k
  BY <1>2, <1>4, <1>8 DEF Injection, IsInjective
<1>. QED BY <1>1, <1>2, <1>4, <1>5, <1>9 DEF n

\* What the closing order of an open position is once executed, and what it moves.
LEMMA ClosingBooks ==
    ASSUME NEW s \in OpenSymbols, positions \in [Symbols -> Position],
           ltp \in [Symbols -> Nat], NEW id \in Nat \ {0}
    PROVE  LET new == Executed(CloseOrder(s))
               q == Abs(positions[s].qty)
           IN  /\ s \in Symbols /\ q \in Nat /\ ClosePrice(s) \in Int
               /\ new \in Order /\ new.status = "FILLED" /\ new.filled_qty = q /\ new.symbol = s
               /\ Within(new, ClosePrice(s))
               /\ positions[s].qty + Signed(new.side, q) = 0
               /\ Closing(s, id).fills[1] = [order |-> id, qty |-> q, price |-> ClosePrice(s)]
               /\ Closing(s, 0).cash = 0 - Signed(new.side, ClosePrice(s) * q)
               /\ Closing(s, 0).pos.qty = 0
               /\ q \in Nat \ {0} /\ Closing(s, 0).pos \in Position
               /\ WorthFollows(positions[s].qty, Signed(new.side, q), ClosePrice(s),
                               Worth(positions[s]), Worth(Closing(s, 0).pos))
<1>. DEFINE o == CloseOrder(s)
            q == Abs(positions[s].qty)
            price == ClosePrice(s)
<1>1. /\ OrderSound(o) /\ o \in Order /\ o.status = "OPEN" /\ o.symbol = s
      /\ o.order_type = "MARKET" /\ o.qty = q
      /\ o.side = IF positions[s].qty > 0 THEN "SELL" ELSE "BUY"
  BY CloseOrderSound DEF OrderSound
<1>2. s \in Symbols /\ q \in Nat /\ positions[s].qty \in Int /\ positions[s].qty # 0
  BY DEF OpenSymbols, Position, Abs
<1>3. price \in Int
  <2>1. positions[s].avg_price \in Int /\ ltp[s] \in Int
    BY <1>2 DEF Position
  <2>. QED BY <2>1, SlippedPriceType DEF ClosePrice
<1>4. positions[s].qty + Signed(o.side, q) = 0
  BY <1>1, <1>2 DEF Signed, Abs
<1>5. Closing(s, 0).pos.qty = 0
  BY ClosingIsFlat
<1>. HIDE DEF o, q, price
<1>6. Executed(o) = [o EXCEPT !.filled_qty = o.qty, !.status = "FILLED"] /\ Executed(o) \in Order
  BY <1>1, ExecutedSound DEF OrderSound
<1>7. /\ Executed(o).status = "FILLED" /\ Executed(o).filled_qty = q
      /\ Executed(o).symbol = s /\ Executed(o).side = o.side /\ Executed(o).order_type = "MARKET"
  BY <1>1, <1>6 DEF Order
<1>8. Remaining(o) = q
  <2>1. o.filled_qty = 0
    BY <1>1 DEF OrderSound
  <2>. QED BY <1>1, <1>2, <2>1 DEF Remaining
<1>9. \A i : /\ Closing(s, i).fills = << [order |-> i, qty |-> q, price |-> price] >>
             /\ Closing(s, i).cash = 0 - Signed(o.side, price * q)
  BY <1>8 DEF Closing, ApplyFill, o, price
<1>10. Closing(s, id).fills[1] = [order |-> id, qty |-> q, price |-> price]
  BY <1>9
<1>11. Within(Executed(o), price)
  BY <1>7 DEF Within
<1>12. /\ Closing(s, 0).cash = 0 - Signed(Executed(o).side, price * q)
       /\ positions[s].qty + Signed(Executed(o).side, q) = 0
  BY <1>4, <1>7, <1>9
<1>13. q \in Nat \ {0}
  BY <1>1, <1>2 DEF OrderSound
<1>14. /\ Closing(s, 0).pos \in Position
       /\ WorthFollows(positions[s].qty, Signed(Executed(o).side, q), price,
                       Worth(positions[s]), Worth(Closing(s, 0).pos))
  <2>. DEFINE acct == [pos |-> positions[s], cash |-> 0, fills |-> << >>]
  <2>1. acct \in AccountType /\ acct.pos = positions[s]
    BY <1>2 DEF AccountType
  <2>2. Closing(s, 0) = ApplyFill(acct, 0, o, price)
    BY DEF Closing, o, price
  <2>3. Closing(s, 1).pos = Closing(s, 0).pos /\ Closing(s, 1) = ApplyFill(acct, 1, o, price)
    BY DEF Closing, ApplyFill, o, price
  <2>. HIDE DEF acct
  <2>4. ApplyFill(acct, 1, o, price) \in AccountType
    <3>1. 1 \in Nat \ {0}
      OBVIOUS
    <3>. QED BY <1>1, <1>3, <2>1, <3>1, ApplyFillType, Zenon
  <2>5. WorthFollows(acct.pos.qty, Signed(o.side, q), price, Worth(acct.pos),
                     Worth(ApplyFill(acct, 0, o, price).pos))
    BY <1>1, <1>3, <1>8, <1>13, <2>1, ApplyFillWorth
  <2>. QED BY <1>7, <2>1, <2>2, <2>3, <2>4, <2>5 DEF AccountType
<1>. QED BY <1>2, <1>3, <1>5, <1>6, <1>7, <1>10, <1>11, <1>12, <1>13, <1>14 DEF o, q, price

\* A square-off books each of its closings.
LEMMA CloseBooks ==
    ASSUME BookInv, BooksInv, CloseOpenPositions PROVE BooksInv'
<1>1. /\ ltp \in [Symbols -> Nat] /\ positions \in [Symbols -> Position] /\ capital \in Int
      /\ fills \in Seq(Fill) /\ orders \in Seq(Order) /\ Len(orders) \in Nat
      /\ Len(fills) \in Nat
  BY LenProperties DEF BookInv, TypeOK, BookTypeOK, MoneyTypeOK
<1>2. PICK visit \in Visits(OpenSymbols) :
        /\ orders' = orders \o [k \in DOMAIN visit |-> Executed(CloseOrder(visit[k]))]
        /\ fills' = fills \o [k \in DOMAIN visit |->
                                Closing(visit[k], Len(orders) + k).fills[1]]
        /\ capital' = CashAfter(visit)
  BY DEF CloseOpenPositions
<1>3. positions' = [s \in Symbols |-> IF s \in OpenSymbols THEN Closing(s, 0).pos
                                                           ELSE positions[s]]
  BY DEF CloseOpenPositions
<1>. DEFINE n == Len(visit)
            m == Len(orders)
            new(k) == Executed(CloseOrder(visit[k]))
            q(k) == Abs(positions[visit[k]].qty)
            price(k) == ClosePrice(visit[k])
            fill(k) == [order |-> m + k, qty |-> q(k), price |-> price(k)]
<1>4. IsFiniteSet(OpenSymbols)
  BY AmountsAssumption, FS_Subset DEF OpenSymbols
<1>5. /\ n \in Nat /\ DOMAIN visit = 1 .. n
      /\ \A k \in 1 .. n : visit[k] \in OpenSymbols
      /\ \A s \in OpenSymbols : \E k \in 1 .. n : visit[k] = s
      /\ \A j, k \in 1 .. n : visit[j] = visit[k] => j = k
  BY <1>4, VisitOnce
<1>6. ASSUME NEW k \in 1 .. n
      PROVE  /\ visit[k] \in Symbols /\ q(k) \in Nat /\ price(k) \in Int
             /\ new(k) \in Order /\ new(k).status = "FILLED" /\ new(k).filled_qty = q(k)
             /\ new(k).symbol = visit[k] /\ Within(new(k), price(k))
             /\ positions[visit[k]].qty + Signed(new(k).side, q(k)) = 0
             /\ Closing(visit[k], m + k).fills[1] = fill(k)
             /\ Closing(visit[k], 0).cash = 0 - Signed(new(k).side, price(k) * q(k))
             /\ fill(k) \in Fill /\ q(k) \in Nat \ {0} /\ Closing(visit[k], 0).pos \in Position
             /\ WorthFollows(positions[visit[k]].qty, Signed(new(k).side, q(k)), price(k),
                             Worth(positions[visit[k]]), Worth(Closing(visit[k], 0).pos))
  <2>1. visit[k] \in OpenSymbols /\ m + k \in Nat \ {0}
    BY <1>1, <1>5
  <2>. DEFINE s == visit[k]
              id == m + k
  <2>. HIDE DEF s, id
  <2>2. s \in OpenSymbols /\ id \in Nat \ {0}
    BY <2>1 DEF s, id
  <2>3. /\ s \in Symbols /\ Abs(positions[s].qty) \in Nat /\ ClosePrice(s) \in Int
        /\ Executed(CloseOrder(s)) \in Order /\ Executed(CloseOrder(s)).status = "FILLED"
        /\ Executed(CloseOrder(s)).filled_qty = Abs(positions[s].qty)
        /\ Executed(CloseOrder(s)).symbol = s
        /\ Within(Executed(CloseOrder(s)), ClosePrice(s))
        /\ positions[s].qty + Signed(Executed(CloseOrder(s)).side, Abs(positions[s].qty)) = 0
        /\ Closing(s, id).fills[1] = [order |-> id, qty |-> Abs(positions[s].qty),
                                      price |-> ClosePrice(s)]
        /\ Closing(s, 0).cash =
             0 - Signed(Executed(CloseOrder(s)).side, ClosePrice(s) * Abs(positions[s].qty))
        /\ Abs(positions[s].qty) \in Nat \ {0} /\ Closing(s, 0).pos \in Position
        /\ WorthFollows(positions[s].qty,
                        Signed(Executed(CloseOrder(s)).side, Abs(positions[s].qty)),
                        ClosePrice(s), Worth(positions[s]), Worth(Closing(s, 0).pos))
    BY <1>1, <2>2, ClosingBooks
  <2>4. [order |-> id, qty |-> Abs(positions[s].qty), price |-> ClosePrice(s)] \in Fill
    BY <2>2, <2>3 DEF Fill
  <2>. QED BY <2>3, <2>4 DEF s, id
<1>. DEFINE os(k) == [i \in 1 .. m + k |-> IF i <= m THEN orders[i] ELSE new(i - m)]
            fl(k) == [i \in 1 .. Len(fills) + k |-> IF i <= Len(fills) THEN fills[i]
                                                                     ELSE fill(i - Len(fills))]
            held(k) == [s \in Symbols |-> IF \E j \in 1 .. k : visit[j] = s
                                          THEN 0 ELSE positions[s].qty]
            ps(k) == [s \in Symbols |-> IF \E j \in 1 .. k : visit[j] = s
                                        THEN Closing(s, 0).pos ELSE positions[s]]
            worth(k) == Sum(Worths(ps(k)), Symbols)
<1>7. PICK run : IsTally(run, visit, capital)
  BY <1>5, CashRun
<1>8. /\ run[0] = capital /\ CashAfter(visit) = run[n]
      /\ \A k \in 0 .. n : k + 1 \in 0 .. n =>
            run[k + 1] = run[k] + (0 - Signed(new(k + 1).side, price(k + 1) * q(k + 1)))
  <2>1. /\ run = [k \in 0 .. n |-> IF k = 0 THEN capital
                                   ELSE run[k - 1] + Closing(visit[k], 0).cash]
        /\ CashAfter(visit) = run[n]
    BY <1>7 DEF IsTally
  <2>2. ASSUME NEW k \in 0 .. n, k + 1 \in 0 .. n
        PROVE  /\ run[k + 1] = run[k] + Closing(visit[k + 1], 0).cash
               /\ k + 1 \in 1 .. n
    BY <1>5, <2>1, <2>2
  <2>3. run[0] = capital
    BY <1>5, <2>1
  <2>. HIDE DEF n, m, new, price, q, fill, os, fl, held, ps, worth
  <2>4. ASSUME NEW k \in 0 .. n, k + 1 \in 0 .. n
        PROVE  run[k + 1] = run[k] + (0 - Signed(new(k + 1).side, price(k + 1) * q(k + 1)))
    <3>. DEFINE j == k + 1
    <3>. HIDE DEF j
    <3>1. j \in 1 .. n /\ run[j] = run[k] + Closing(visit[j], 0).cash
      BY <2>2, <2>4 DEF j
    <3>2. Closing(visit[j], 0).cash = 0 - Signed(new(j).side, price(j) * q(j))
      BY <1>6, <3>1
    <3>3. run[j] = run[k] + (0 - Signed(new(j).side, price(j) * q(j)))
      BY <3>1, <3>2
    <3>. QED BY <3>3 DEF j
  <2>. QED BY <2>1, <2>3, <2>4
<1>. HIDE DEF n, m, new, q, price, fill, worth
<1>9. n \in Nat /\ m \in Nat /\ Len(fills) \in Nat
  BY <1>1, <1>5 DEF m
<1>10. ASSUME NEW k \in 0 .. n
       PROVE  /\ os(k) \in Seq(Order) /\ Len(os(k)) = m + k
              /\ fl(k) \in Seq(Fill) /\ Len(fl(k)) = Len(fills) + k
  <2>1. \A i \in 1 .. m + k : i <= m => orders[i] \in Order
    BY <1>1, <1>9, ElementOfSeq DEF m
  <2>2. \A i \in 1 .. m + k : ~(i <= m) => new(i - m) \in Order
    BY <1>6, <1>9
  <2>3. \A i \in 1 .. Len(fills) + k : i <= Len(fills) => fills[i] \in Fill
    BY <1>1, <1>9, ElementOfSeq
  <2>4. \A i \in 1 .. Len(fills) + k : ~(i <= Len(fills)) => fill(i - Len(fills)) \in Fill
    BY <1>6, <1>9
  <2>5. os(k) \in [1 .. m + k -> Order]
    BY <2>1, <2>2
  <2>6. fl(k) \in [1 .. Len(fills) + k -> Fill]
    BY <2>3, <2>4
  <2>7. m + k \in Nat /\ Len(fills) + k \in Nat
    BY <1>9
  <2>8. /\ os(k) \in Seq(Order) /\ DOMAIN os(k) = 1 .. m + k
        /\ fl(k) \in Seq(Fill) /\ DOMAIN fl(k) = 1 .. Len(fills) + k
    BY <2>5, <2>6, <2>7, SeqDef
  <2>. HIDE DEF os, fl
  <2>9. /\ Len(os(k)) \in Nat /\ DOMAIN os(k) = 1 .. Len(os(k))
        /\ Len(fl(k)) \in Nat /\ DOMAIN fl(k) = 1 .. Len(fl(k))
    BY <2>8, LenProperties
  <2>. QED BY <2>7, <2>8, <2>9, IntervalEnd
<1>11. ASSUME NEW k \in 0 .. n, k + 1 \in 0 .. n
       PROVE  /\ os(k + 1)[m + (k + 1)] = new(k + 1)
              /\ \A i \in 1 .. m + k : os(k + 1)[i] = os(k)[i]
              /\ fl(k + 1)[Len(fills) + (k + 1)] = fill(k + 1)
              /\ \A i \in 1 .. Len(fills) + k : fl(k + 1)[i] = fl(k)[i]
  <2>1. /\ m + (k + 1) \in 1 .. m + (k + 1) /\ ~(m + (k + 1) <= m) /\ (m + (k + 1)) - m = k + 1
        /\ Len(fills) + (k + 1) \in 1 .. Len(fills) + (k + 1)
        /\ ~(Len(fills) + (k + 1) <= Len(fills)) /\ (Len(fills) + (k + 1)) - Len(fills) = k + 1
    BY <1>9
  <2>2. /\ \A i \in 1 .. m + k : i \in 1 .. m + (k + 1)
        /\ \A i \in 1 .. Len(fills) + k : i \in 1 .. Len(fills) + (k + 1)
    BY <1>9
  <2>. QED BY <2>1, <2>2
<1>. DEFINE Holds(k) == Books(os(k), held(k), worth(k), run[k], fl(k))
            Good == {k \in Nat : k \in 0 .. n => Holds(k)}
<1>12. 0 \in Good
  <2>1. os(0) = orders
    <3>1. \A i \in 1 .. Len(os(0)) : os(0)[i] = orders[i]
      BY <1>9, <1>10
    <3>2. os(0) \in Seq(Order) /\ Len(os(0)) = Len(orders)
      BY <1>9, <1>10 DEF m
    <3>. HIDE DEF os
    <3>. QED BY <1>1, <3>1, <3>2, SeqEqual
  <2>2. fl(0) = fills
    <3>1. \A i \in 1 .. Len(fl(0)) : fl(0)[i] = fills[i]
      BY <1>9, <1>10
    <3>2. fl(0) \in Seq(Fill) /\ Len(fl(0)) = Len(fills)
      BY <1>9, <1>10
    <3>. HIDE DEF fl
    <3>. QED BY <1>1, <3>1, <3>2, SeqEqual
  <2>3. held(0) = Held(positions)
    BY DEF Held
  <2>4. ps(0) = positions
    BY <1>1
  <2>. HIDE DEF os, fl, held, ps
  <2>5. Books(os(0), held(0), worth(0), run[0], fl(0))
    BY <1>8, <2>1, <2>2, <2>3, <2>4 DEF BooksInv, worth
  <2>. QED BY <2>5
<1>13. ASSUME NEW k \in Nat, k \in Good PROVE k + 1 \in Good
  <2>. SUFFICES ASSUME k + 1 \in 0 .. n PROVE Holds(k + 1)
    OBVIOUS
  <2>. DEFINE j == k + 1
              i == m + j
  <2>1. k \in 0 .. n /\ j \in 1 .. n /\ i \in Nat \ {0} /\ Len(fills) + j = (Len(fills) + k) + 1
    BY <1>9
  <2>2. Books(os(k), held(k), worth(k), run[k], fl(k))
    BY <1>9, <1>13
  <2>3. /\ visit[j] \in Symbols /\ q(j) \in Nat /\ price(j) \in Int
        /\ new(j) \in Order /\ new(j).status = "FILLED" /\ new(j).filled_qty = q(j)
        /\ new(j).symbol = visit[j] /\ Within(new(j), price(j))
        /\ positions[visit[j]].qty + Signed(new(j).side, q(j)) = 0
        /\ fill(j) \in Fill /\ q(j) \in Nat \ {0} /\ Closing(visit[j], 0).pos \in Position
        /\ WorthFollows(positions[visit[j]].qty, Signed(new(j).side, q(j)), price(j),
                        Worth(positions[visit[j]]), Worth(Closing(visit[j], 0).pos))
    BY <1>6, <2>1
  <2>4. /\ os(k) \in Seq(Order) /\ Len(os(k)) = m + k
        /\ os(j) \in Seq(Order) /\ Len(os(j)) = i
        /\ fl(k) \in Seq(Fill) /\ Len(fl(k)) = Len(fills) + k
        /\ fl(j) \in Seq(Fill) /\ Len(fl(j)) = Len(fills) + j
    BY <1>10, <2>1
  <2>5. /\ os(j)[i] = new(j) /\ \A l \in 1 .. m + k : os(j)[l] = os(k)[l]
        /\ fl(j)[Len(fills) + j] = fill(j) /\ \A l \in 1 .. Len(fills) + k : fl(j)[l] = fl(k)[l]
    BY <1>11, <2>1
  <2>6. held(j) = [held(k) EXCEPT ![visit[j]] = @ + Signed(new(j).side, q(j))]
    <3>1. held(k)[visit[j]] = positions[visit[j]].qty
      <4>1. ~\E l \in 1 .. k : visit[l] = visit[j]
        BY <1>5, <1>9, <2>1
      <4>. QED BY <2>3, <4>1
    <3>2. held(j)[visit[j]] = 0
      BY <1>9, <2>1, <2>3
    <3>3. \A s \in Symbols \ {visit[j]} : held(j)[s] = held(k)[s]
      <4>1. \A l \in 1 .. j : l \in 1 .. k \/ l = j
        BY <2>1
      <4>2. \A l \in 1 .. k : l \in 1 .. j
        BY <2>1
      <4>. HIDE DEF j
      <4>. QED BY <4>1, <4>2
    <3>4. DOMAIN held(j) = Symbols /\ DOMAIN held(k) = Symbols
      OBVIOUS
    <3>5. held(j) = [s \in Symbols |-> held(j)[s]] /\ held(k) = [s \in Symbols |-> held(k)[s]]
      OBVIOUS
    <3>. HIDE DEF held, j
    <3>. QED BY <2>3, <3>1, <3>2, <3>3, <3>4, <3>5
  <2>7. fl(j) = Append(fl(k), fill(j))
    <3>. DEFINE g == Append(fl(k), fill(j))
    <3>. HIDE DEF fl, j, i, held, ps, Holds
    <3>1. /\ g \in Seq(Fill) /\ Len(g) = (Len(fills) + k) + 1
          /\ \A l \in 1 .. Len(fills) + k : g[l] = fl(k)[l]
          /\ g[(Len(fills) + k) + 1] = fill(j)
      <4>1. fill(j) \in Fill /\ fl(k) \in Seq(Fill) /\ Len(fl(k)) = Len(fills) + k
        BY <2>3, <2>4
      <4>. DEFINE f == fl(k)
                  x == fill(j)
      <4>. HIDE DEF f, x, g
      <4>2. /\ Append(f, x) \in Seq(Fill) /\ Len(Append(f, x)) = Len(f) + 1
            /\ \A l \in 1 .. Len(f) : Append(f, x)[l] = f[l]
            /\ Append(f, x)[Len(f) + 1] = x
        BY <4>1, AppendProperties DEF f, x
      <4>. QED BY <4>1, <4>2 DEF f, x, g
    <3>2. \A l \in 1 .. Len(fl(j)) : fl(j)[l] = g[l]
      <4>. TAKE l \in 1 .. Len(fl(j))
      <4>1. l \in 1 .. Len(fills) + k \/ l = (Len(fills) + k) + 1
        BY <1>9, <2>1, <2>4
      <4>. QED BY <2>1, <2>5, <3>1, <4>1
    <3>. HIDE DEF g
    <3>3. fl(j) = g
      BY <2>1, <2>4, <3>1, <3>2, SeqEqual
    <3>. QED BY <3>3 DEF g
  <2>8. run[j] = run[k] - Signed(new(j).side, price(j) * q(j))
    <3>1. run[j] = run[k] + (0 - Signed(new(j).side, price(j) * q(j)))
      BY <1>8, <2>1
    <3>2. run[k] \in Int
      BY <2>2 DEF Books, Booked, BooksTyped
    <3>3. Signed(new(j).side, price(j) * q(j)) \in Int
      BY <2>3 DEF Signed
    <3>. HIDE DEF j
    <3>. QED BY <3>1, <3>2, <3>3
  <2>9. ps(j) = [ps(k) EXCEPT ![visit[j]] = Closing(visit[j], 0).pos]
    <3>1. visit[j] \in Symbols
      BY <2>3
    <3>2. \A s \in Symbols \ {visit[j]} : ps(j)[s] = ps(k)[s]
      <4>1. \A l \in 1 .. j : l \in 1 .. k \/ l = j
        BY <2>1
      <4>2. \A l \in 1 .. k : l \in 1 .. j
        BY <2>1
      <4>. HIDE DEF j
      <4>. QED BY <4>1, <4>2
    <3>3. ps(j)[visit[j]] = Closing(visit[j], 0).pos
      BY <1>9, <2>1, <2>3
    <3>4. DOMAIN ps(j) = Symbols /\ DOMAIN ps(k) = Symbols
      OBVIOUS
    <3>5. ps(j) = [s \in Symbols |-> ps(j)[s]] /\ ps(k) = [s \in Symbols |-> ps(k)[s]]
      OBVIOUS
    <3>. HIDE DEF ps, j
    <3>. QED BY <3>1, <3>2, <3>3, <3>4, <3>5
  <2>10. held(k)[visit[j]] = positions[visit[j]].qty /\ ps(k)[visit[j]] = positions[visit[j]]
    <3>1. ~\E l \in 1 .. k : visit[l] = visit[j]
      BY <1>5, <1>9, <2>1
    <3>. QED BY <2>3, <3>1
  <2>11. ps(k) \in [Symbols -> Position]
    <3>1. \A l \in 1 .. k : l \in 1 .. n
      BY <1>9, <2>1
    <3>. QED BY <1>1, <1>6, <3>1
  <2>. HIDE DEF os, fl, held, ps
  <2>12. worth(j) = worth(k) + (Worth(Closing(visit[j], 0).pos) - Worth(positions[visit[j]]))
    <3>. DEFINE ps1 == ps(k)
                new1 == Closing(visit[j], 0).pos
                s == visit[j]
    <3>1. /\ ps1 \in [Symbols -> Position] /\ s \in Symbols /\ new1 \in Position
          /\ ps1[s] = positions[s] /\ ps(j) = [ps1 EXCEPT ![s] = new1]
      BY <2>3, <2>9, <2>10, <2>11
    <3>. HIDE DEF ps1, new1, s
    <3>2. Sum(Worths(ps(j)), Symbols) = Sum(Worths(ps1), Symbols) + (Worth(new1) - Worth(ps1[s]))
      BY <3>1, WorthMoved
    <3>. QED BY <3>1, <3>2 DEF ps1, new1, s, worth
  <2>13. Worth(Closing(visit[j], 0).pos) \in Int /\ Worth(positions[visit[j]]) \in Int
    BY <1>1, <2>3, WorthType
  <2>14. Keeps(os(k), os(j), i)
    <3>1. Len(os(k)) <= Len(os(j)) /\ \A x \in 1 .. Len(os(j)) : x > Len(os(k)) => x = i
      BY <1>9, <2>1, <2>4
    <3>2. \A x \in 1 .. Len(os(k)) : os(j)[x] = os(k)[x]
      BY <2>4, <2>5
    <3>3. os(j) \in Seq(Order)
      BY <2>4
    <3>. QED BY <3>1, <3>2, <3>3 DEF Keeps
  <2>. HIDE DEF j
  <2>15. fill(j) = [order |-> i, qty |-> q(j), price |-> price(j)]
    BY DEF fill
  <2>16. i \in 1 .. Len(os(j)) /\ i \notin 1 .. Len(os(k)) /\ os(j)[i] = new(j)
    BY <1>9, <2>1, <2>4, <2>5 DEF j
  <2>. HIDE DEF i
  <2>17. Books(os(j), [held(k) EXCEPT ![os(j)[i].symbol] = @ + Signed(os(j)[i].side, q(j))],
               worth(k) + (Worth(Closing(visit[j], 0).pos) - Worth(positions[visit[j]])),
               run[k] - Signed(os(j)[i].side, price(j) * q(j)),
               Append(fl(k), [order |-> i, qty |-> q(j), price |-> price(j)]))
    <3>. DEFINE w == Worth(positions[visit[j]])
                w2 == Worth(Closing(visit[j], 0).pos)
                flow == Signed(new(j).side, q(j))
    <3>1. /\ WorthFollows(held(k)[visit[j]], flow, price(j), w, w2)
          /\ q(j) \in Nat \ {0} /\ price(j) \in Int /\ Within(new(j), price(j))
          /\ new(j).status = "FILLED" /\ new(j).filled_qty = q(j) /\ new(j).symbol = visit[j]
      BY <2>3, <2>10
    <3>2. w \in Int /\ w2 \in Int
      BY <2>13
    <3>. HIDE DEF w, w2
    <3>3. Books(os(j), [held(k) EXCEPT ![os(j)[i].symbol] = @ + Signed(os(j)[i].side, q(j))],
                worth(k) + (w2 - w),
                run[k] - Signed(os(j)[i].side, price(j) * q(j)),
                Append(fl(k), [order |-> i, qty |-> q(j), price |-> price(j)]))
      BY <2>2, <2>14, <2>16, <3>1, <3>2, BooksFill
    <3>. QED BY <3>3 DEF w, w2
  <2>18. Books(os(j), held(j), worth(j), run[j], fl(j))
    BY <2>3, <2>6, <2>7, <2>8, <2>12, <2>15, <2>16, <2>17
  <2>. QED BY <2>18 DEF j
<1>14. Holds(n)
  <2>1. n \in Good
    <3>. HIDE DEF Good
    <3>. QED BY <1>9, <1>12, <1>13, SetInduction
  <2>. HIDE DEF Holds
  <2>. QED BY <1>9, <2>1
<1>15. os(n) = orders'
  <2>. DEFINE added == [k \in DOMAIN visit |-> new(k)]
  <2>1. added \in Seq(Order) /\ Len(added) = n /\ \A k \in 1 .. n : added[k] = new(k)
    <3>1. added \in [1 .. n -> Order]
      BY <1>5, <1>6
    <3>2. added \in Seq(Order) /\ DOMAIN added = 1 .. n
      BY <1>9, <3>1, SeqDef
    <3>3. Len(added) = n
      BY <1>9, <3>2, LenProperties, IntervalEnd
    <3>. QED BY <1>5, <3>2, <3>3
  <2>2. orders' = orders \o added
    BY <1>2 DEF new
  <2>. HIDE DEF added
  <2>3. /\ orders' \in Seq(Order) /\ Len(orders') = m + n
        /\ \A i \in 1 .. m + n : orders'[i] = IF i <= m THEN orders[i] ELSE added[i - m]
    BY <1>1, <2>1, <2>2, ConcatProperties DEF m
  <2>4. os(n) \in Seq(Order) /\ Len(os(n)) = m + n
    <3>1. n \in 0 .. n
      BY <1>9
    <3>. HIDE DEF os
    <3>. QED BY <1>10, <3>1
  <2>5. ASSUME NEW i \in 1 .. m + n PROVE os(n)[i] = orders'[i]
    BY <1>9, <2>1, <2>3
  <2>. HIDE DEF os
  <2>. QED BY <2>3, <2>4, <2>5, SeqEqual
<1>16. fl(n) = fills'
  <2>. DEFINE added == [k \in DOMAIN visit |-> Closing(visit[k], m + k).fills[1]]
  <2>1. added \in Seq(Fill) /\ Len(added) = n /\ \A k \in 1 .. n : added[k] = fill(k)
    <3>1. added \in [1 .. n -> Fill] /\ \A k \in 1 .. n : added[k] = fill(k)
      <4>1. \A k \in 1 .. n : Closing(visit[k], m + k).fills[1] = fill(k) /\ fill(k) \in Fill
        BY <1>6
      <4>. QED BY <1>5, <4>1
    <3>2. added \in Seq(Fill) /\ DOMAIN added = 1 .. n
      BY <1>9, <3>1, SeqDef
    <3>3. Len(added) = n
      BY <1>9, <3>2, LenProperties, IntervalEnd
    <3>. QED BY <3>1, <3>2, <3>3
  <2>2. fills' = fills \o added
    BY <1>2 DEF m
  <2>. HIDE DEF added
  <2>3. /\ fills' \in Seq(Fill) /\ Len(fills') = Len(fills) + n
        /\ \A i \in 1 .. Len(fills) + n :
              fills'[i] = IF i <= Len(fills) THEN fills[i] ELSE added[i - Len(fills)]
    BY <1>1, <2>1, <2>2, ConcatProperties
  <2>4. fl(n) \in Seq(Fill) /\ Len(fl(n)) = Len(fills) + n
    BY <1>9, <1>10
  <2>5. ASSUME NEW i \in 1 .. Len(fills) + n PROVE fl(n)[i] = fills'[i]
    BY <1>9, <2>1, <2>3
  <2>. HIDE DEF fl
  <2>. QED BY <2>3, <2>4, <2>5, SeqEqual
<1>17. held(n) = Held(positions')
  <2>1. \A s \in Symbols : s \in OpenSymbols <=> \E k \in 1 .. n : visit[k] = s
    BY <1>5
  <2>2. \A s \in OpenSymbols : Closing(s, 0).pos.qty = 0
    BY <1>1, ClosingIsFlat
  <2>3. \A s \in Symbols : positions'[s].qty = IF s \in OpenSymbols THEN 0 ELSE positions[s].qty
    BY <1>3, <2>2
  <2>. QED BY <2>1, <2>3 DEF Held
<1>18. ps(n) = positions'
  <2>1. \A s \in Symbols : s \in OpenSymbols <=> \E k \in 1 .. n : visit[k] = s
    BY <1>5
  <2>. QED BY <1>3, <2>1
<1>. HIDE DEF os, fl, held, ps
<1>19. Books(os(n), held(n), worth(n), run[n], fl(n))
  BY <1>14
<1>. QED BY <1>2, <1>8, <1>15, <1>16, <1>17, <1>18, <1>19 DEF BooksInv, worth

-----------------------------------------------------------------------------
(* The theorems                                                              *)

\* Every step keeps the books right.
LEMMA BooksStep == ASSUME BookInv, BooksInv, [Next]_vars PROVE BooksInv'
<1>1. CASE UNCHANGED vars
  BY <1>1, SameBooks DEF vars, moneyVars
<1>2. CASE TripOnPlace \/ ResetKillSwitch
  BY <1>2, SameBooks DEF TripOnPlace, ResetKillSwitch, bookVars
<1>3. ASSUME NEW r \in Requests, RejectOrder(r) \/ FillMarketOrder(r) \/ RestOrder(r)
      PROVE  BooksInv'
  BY <1>3, RequestsAssumption, RejectBooks, FillMarketBooks, RestBooks
<1>4. ASSUME NEW i \in DOMAIN orders, CancelOrder(i) PROVE BooksInv'
  BY <1>4, CancelBooks
<1>5. CASE CancelAllOrders
  BY <1>5, CancelAllBooks
<1>6. ASSUME NEW t \in Ticks, UpdateLtp(t[1], t[2]) PROVE BooksInv'
  BY <1>6, UpdateLtpBooks
<1>7. CASE RunSquareOff \/ SquareOffAll
  BY <1>7, CloseBooks DEF RunSquareOff, SquareOffAll
<1>8. ASSUME NEW a \in KillAmounts, SetKillAmount(a) PROVE BooksInv'
  BY <1>8, SameBooks DEF SetKillAmount, bookVars
<1>. QED BY <1>1, <1>2, <1>3, <1>4, <1>5, <1>6, <1>7, <1>8 DEF Next

\* The inductive invariant of the books holds in every reachable state.
THEOREM BooksInvariant == Spec => [](BookInv /\ BooksInv)
<1>1. Init => BookInv /\ BooksInv
  BY InitInv, InitBooks
<1>2. (BookInv /\ BooksInv) /\ [Next]_vars => (BookInv /\ BooksInv)'
  BY NextStep, BooksStep
<1>. QED BY <1>1, <1>2, PTL DEF Spec

\* The prices of the fills, by the invariant.
LEMMA LimitsFromBooks == ASSUME BookInv, BooksInv PROVE FillsRespectLimits
<1>1. DOMAIN fills = 1 .. Len(fills)
  BY LenProperties DEF BookInv, TypeOK, MoneyTypeOK
<1>2. \A k \in DOMAIN fills : Within(orders[fills[k].order], fills[k].price)
  BY <1>1 DEF BooksInv, Books, Booked, BooksTyped
<1>. QED BY <1>2 DEF FillsRespectLimits, Within

\* _apply_fill and _try_fill_resting: a LIMIT order, or a stop that became one, is
\* never executed at a worse price than its limit.
THEOREM FillsWithinLimits == Spec => []FillsRespectLimits
<1>1. BookInv /\ BooksInv => FillsRespectLimits
  BY LimitsFromBooks
<1>. QED BY <1>1, BooksInvariant, PTL

\* The sums that BooksReconcile writes are Sums of the lists of the books.
LEMMA SumsOfFills ==
    ASSUME DOMAIN fills = 1 .. Len(fills), NEW S \in SUBSET (DOMAIN fills), IsFiniteSet(S)
    PROVE  /\ MapThenSumSet(LAMBDA k : fills[k].qty, S) = Sum(Qtys(fills), S)
           /\ MapThenSumSet(FillFlow, S) = Sum(Flows(orders, fills), S)
           /\ MapThenSumSet(LAMBDA k : fills[k].price * FillFlow(k), S)
                = Sum(Costs(orders, fills), S)
<1>1. \A T \in SUBSET S : T # {} => First(T) \in 1 .. Len(fills)
  BY FirstIn
<1>2. MapThenSumSet(LAMBDA k : fills[k].qty, S) = Sum(Qtys(fills), S)
  <2>. DEFINE Adds(g) == g = [T \in SUBSET S |->
                                 IF T = {} THEN 0 ELSE fills[First(T)].qty + g[T \ {First(T)}]]
  <2>1. \A g : Adds(g) <=> IsSum(g, Qtys(fills), S)
    BY <1>1 DEF IsSum, Qtys
  <2>2. \E g : Adds(g)
    BY <2>1, SumExists
  <2>3. MapThenSumSet(LAMBDA k : fills[k].qty, S) = (CHOOSE g : Adds(g))[S]
    BY DEF MapThenSumSet, MapThenFoldSet, First
  <2>. HIDE DEF Adds
  <2>4. Adds(CHOOSE g : Adds(g))
    BY <2>2, Zenon
  <2>. DEFINE h == CHOOSE g : Adds(g)
  <2>. HIDE DEF h
  <2>5. IsSum(h, Qtys(fills), S) /\ S \in SUBSET S
    BY <2>1, <2>4 DEF h
  <2>6. Sum(Qtys(fills), S) = h[S]
    BY <2>5, SumIs
  <2>. QED BY <2>3, <2>6 DEF h
<1>3. MapThenSumSet(FillFlow, S) = Sum(Flows(orders, fills), S)
  <2>. DEFINE Adds(g) == g = [T \in SUBSET S |->
                                 IF T = {} THEN 0 ELSE FillFlow(First(T)) + g[T \ {First(T)}]]
  <2>1. \A g : Adds(g) <=> IsSum(g, Flows(orders, fills), S)
    BY <1>1 DEF IsSum, Flows, FillFlow
  <2>2. \E g : Adds(g)
    BY <2>1, SumExists
  <2>3. MapThenSumSet(FillFlow, S) = (CHOOSE g : Adds(g))[S]
    BY DEF MapThenSumSet, MapThenFoldSet, First
  <2>. HIDE DEF Adds
  <2>4. Adds(CHOOSE g : Adds(g))
    BY <2>2, Zenon
  <2>. DEFINE h == CHOOSE g : Adds(g)
  <2>. HIDE DEF h
  <2>5. IsSum(h, Flows(orders, fills), S) /\ S \in SUBSET S
    BY <2>1, <2>4 DEF h
  <2>6. Sum(Flows(orders, fills), S) = h[S]
    BY <2>5, SumIs
  <2>. QED BY <2>3, <2>6 DEF h
<1>4. MapThenSumSet(LAMBDA k : fills[k].price * FillFlow(k), S) = Sum(Costs(orders, fills), S)
  <2>. DEFINE Adds(g) == g = [T \in SUBSET S |->
                                 IF T = {} THEN 0 ELSE fills[First(T)].price * FillFlow(First(T))
                                                       + g[T \ {First(T)}]]
  <2>1. \A g : Adds(g) <=> IsSum(g, Costs(orders, fills), S)
    BY <1>1 DEF IsSum, Costs, FillFlow
  <2>2. \E g : Adds(g)
    BY <2>1, SumExists
  <2>3. MapThenSumSet(LAMBDA k : fills[k].price * FillFlow(k), S) = (CHOOSE g : Adds(g))[S]
    BY DEF MapThenSumSet, MapThenFoldSet, First
  <2>. HIDE DEF Adds
  <2>4. Adds(CHOOSE g : Adds(g))
    BY <2>2, Zenon
  <2>. DEFINE h == CHOOSE g : Adds(g)
  <2>. HIDE DEF h
  <2>5. IsSum(h, Costs(orders, fills), S) /\ S \in SUBSET S
    BY <2>1, <2>4 DEF h
  <2>6. Sum(Costs(orders, fills), S) = h[S]
    BY <2>5, SumIs
  <2>. QED BY <2>3, <2>6 DEF h
<1>. QED BY <1>2, <1>3, <1>4

\* The three sums, by the invariant.
LEMMA SumsFromBooks == ASSUME BookInv, BooksInv PROVE BooksReconcile
<1>1. /\ DOMAIN fills = 1 .. Len(fills) /\ DOMAIN orders = 1 .. Len(orders)
      /\ orders \in Seq(Order) /\ fills \in Seq(Fill)
      /\ \A k \in 1 .. Len(fills) : fills[k].order \in 1 .. Len(orders)
  BY LenProperties DEF BooksInv, Books, Booked, BooksTyped
<1>2. /\ IsFiniteSet(DOMAIN fills)
      /\ \A i : IsFiniteSet(FillsOf(fills, i)) /\ FillsOf(fills, i) \in SUBSET (DOMAIN fills)
      /\ \A s : /\ IsFiniteSet(FillsIn(orders, fills, s))
                /\ FillsIn(orders, fills, s) \in SUBSET (DOMAIN fills)
  BY <1>1, FillTypes
<1>3. ASSUME NEW i \in DOMAIN orders
      PROVE  orders[i].filled_qty =
               MapThenSumSet(LAMBDA k : fills[k].qty, {k \in DOMAIN fills : fills[k].order = i})
  <2>1. FillsOf(fills, i) = {k \in DOMAIN fills : fills[k].order = i}
    BY <1>1 DEF FillsOf
  <2>2. orders[i].filled_qty = Sum(Qtys(fills), FillsOf(fills, i))
    BY <1>1 DEF BooksInv, Books, Booked
  <2>3. MapThenSumSet(LAMBDA k : fills[k].qty, FillsOf(fills, i))
          = Sum(Qtys(fills), FillsOf(fills, i))
    BY <1>1, <1>2, SumsOfFills
  <2>. QED BY <2>1, <2>2, <2>3
<1>4. ASSUME NEW s \in Symbols PROVE positions[s].qty = NetAfter(s, Len(fills))
  <2>1. FillsIn(orders, fills, s) = {k \in 1 .. Len(fills) : FillSymbol(k) = s}
    BY DEF FillsIn, FillSymbol
  <2>2. positions[s].qty = Sum(Flows(orders, fills), FillsIn(orders, fills, s))
    BY DEF BooksInv, Books, Booked, Held
  <2>3. MapThenSumSet(FillFlow, FillsIn(orders, fills, s))
          = Sum(Flows(orders, fills), FillsIn(orders, fills, s))
    BY <1>1, <1>2, SumsOfFills
  <2>. QED BY <2>1, <2>2, <2>3 DEF NetAfter
<1>5. capital = InitialCapital
                - MapThenSumSet(LAMBDA k : fills[k].price * FillFlow(k), DOMAIN fills)
  <2>1. capital = InitialCapital - Sum(Costs(orders, fills), DOMAIN fills)
    BY <1>1 DEF BooksInv, Books, Booked
  <2>2. DOMAIN fills \in SUBSET (DOMAIN fills)
    OBVIOUS
  <2>3. MapThenSumSet(LAMBDA k : fills[k].price * FillFlow(k), DOMAIN fills)
          = Sum(Costs(orders, fills), DOMAIN fills)
    BY <1>1, <1>2, <2>2, SumsOfFills
  <2>. QED BY <2>1, <2>3
<1>. QED BY <1>3, <1>4, <1>5 DEF BooksReconcile

\* _apply_fill writes the order, the position, the cash and the list of fills in four
\* places: whatever the orders, ticks, cancellations and square-offs, they agree.
THEOREM BooksAgree == Spec => []BooksReconcile
<1>1. BookInv /\ BooksInv => BooksReconcile
  BY SumsFromBooks
<1>. QED BY <1>1, BooksInvariant, PTL

\* The sums that LongBookBalances writes are Sums of the lists of the books.
LEMMA SumsOfWorth ==
    /\ MapThenSumSet(LAMBDA s : positions[s].realized_pnl, Symbols)
         = Sum([s \in Symbols |-> positions[s].realized_pnl], Symbols)
    /\ MapThenSumSet(LAMBDA s : positions[s].avg_price * positions[s].qty, Symbols)
         = Sum([s \in Symbols |-> positions[s].avg_price * positions[s].qty], Symbols)
<1>. DEFINE gains == [s \in Symbols |-> positions[s].realized_pnl]
            costs == [s \in Symbols |-> positions[s].avg_price * positions[s].qty]
<1>1. \A T \in SUBSET Symbols : T # {} => First(T) \in Symbols
  BY FirstIn
<1>2. IsFiniteSet(Symbols)
  BY AmountsAssumption
<1>3. MapThenSumSet(LAMBDA s : positions[s].realized_pnl, Symbols) = Sum(gains, Symbols)
  <2>. DEFINE Adds(g) == g = [T \in SUBSET Symbols |->
                                 IF T = {} THEN 0 ELSE positions[First(T)].realized_pnl
                                                       + g[T \ {First(T)}]]
  <2>1. \A g : Adds(g) <=> IsSum(g, gains, Symbols)
    BY <1>1 DEF IsSum
  <2>2. \E g : Adds(g)
    BY <1>2, <2>1, SumExists
  <2>3. MapThenSumSet(LAMBDA s : positions[s].realized_pnl, Symbols)
          = (CHOOSE g : Adds(g))[Symbols]
    BY DEF MapThenSumSet, MapThenFoldSet, First
  <2>. HIDE DEF Adds
  <2>4. Adds(CHOOSE g : Adds(g))
    BY <2>2, Zenon
  <2>. DEFINE h == CHOOSE g : Adds(g)
  <2>. HIDE DEF h, gains
  <2>5. IsSum(h, gains, Symbols) /\ Symbols \in SUBSET Symbols
    BY <2>1, <2>4 DEF h
  <2>6. Sum(gains, Symbols) = h[Symbols]
    BY <1>2, <2>5, SumIs
  <2>. QED BY <2>3, <2>6 DEF h
<1>4. MapThenSumSet(LAMBDA s : positions[s].avg_price * positions[s].qty, Symbols)
        = Sum(costs, Symbols)
  <2>. DEFINE Adds(g) == g = [T \in SUBSET Symbols |->
                                 IF T = {} THEN 0
                                 ELSE positions[First(T)].avg_price * positions[First(T)].qty
                                        + g[T \ {First(T)}]]
  <2>1. \A g : Adds(g) <=> IsSum(g, costs, Symbols)
    BY <1>1 DEF IsSum
  <2>2. \E g : Adds(g)
    BY <1>2, <2>1, SumExists
  <2>3. MapThenSumSet(LAMBDA s : positions[s].avg_price * positions[s].qty, Symbols)
          = (CHOOSE g : Adds(g))[Symbols]
    BY DEF MapThenSumSet, MapThenFoldSet, First
  <2>. HIDE DEF Adds
  <2>4. Adds(CHOOSE g : Adds(g))
    BY <2>2, Zenon
  <2>. DEFINE h == CHOOSE g : Adds(g)
  <2>. HIDE DEF h, costs
  <2>5. IsSum(h, costs, Symbols) /\ Symbols \in SUBSET Symbols
    BY <2>1, <2>4 DEF h
  <2>6. Sum(costs, Symbols) = h[Symbols]
    BY <1>2, <2>5, SumIs
  <2>. QED BY <2>3, <2>6 DEF h
<1>. QED BY <1>3, <1>4

\* The nets and the rounding are the Sums of the lists of the books too.
LEMMA SumsOfRounding ==
    ASSUME DOMAIN fills = 1 .. Len(fills), orders \in Seq(Order), fills \in Seq(Fill),
           \A k \in 1 .. Len(fills) : fills[k].order \in 1 .. Len(orders)
    PROVE  /\ \A s \in Symbols : \A n \in DOMAIN fills :
                 NetAfter(s, n) = Net(orders, fills, s, n)
           /\ Rounding = Sum(Lost(orders, fills), Buys(orders, fills))
<1>1. /\ Len(fills) \in Nat /\ IsFiniteSet(DOMAIN fills)
      /\ \A s : IsFiniteSet(FillsIn(orders, fills, s)) /\ FillsIn(orders, fills, s) \subseteq DOMAIN fills
  BY FillTypes
<1>2. ASSUME NEW s \in Symbols, NEW n \in DOMAIN fills
      PROVE  NetAfter(s, n) = Net(orders, fills, s, n)
  <2>. DEFINE S == FillsIn(orders, fills, s) \cap (1 .. n)
  <2>1. {k \in 1 .. n : FillSymbol(k) = s} = S
    BY <1>1 DEF FillsIn, FillSymbol
  <2>2. S \in SUBSET (DOMAIN fills) /\ IsFiniteSet(S)
    BY <1>1, FS_Subset
  <2>. HIDE DEF S
  <2>3. MapThenSumSet(FillFlow, S) = Sum(Flows(orders, fills), S)
    BY <2>2, SumsOfFills
  <2>. QED BY <2>1, <2>3 DEF NetAfter, Net, S
<1>3. Rounding = Sum(Lost(orders, fills), Buys(orders, fills))
  <2>. DEFINE S == {k \in DOMAIN fills : orders[fills[k].order].side = "BUY"}
              lost == Lost(orders, fills)
              Adds(g) == g = [T \in SUBSET S |->
                                 IF T = {} THEN 0 ELSE (NetAfter(FillSymbol(First(T)), First(T)) - 1)
                                                       + g[T \ {First(T)}]]
  <2>1. S = Buys(orders, fills) /\ S \in SUBSET (DOMAIN fills) /\ IsFiniteSet(S)
    BY <1>1, FS_Subset DEF Buys
  <2>2. \A k \in S : NetAfter(FillSymbol(k), k) - 1 = lost[k]
    <3>. TAKE k \in S
    <3>1. k \in 1 .. Len(fills) /\ fills[k].order \in 1 .. Len(orders)
      OBVIOUS
    <3>2. FillSymbol(k) \in Symbols
      <4>1. orders[fills[k].order] \in Order
        BY <3>1, ElementOfSeq
      <4>. QED BY <4>1 DEF FillSymbol, Order
    <3>3. NetAfter(FillSymbol(k), k) = Net(orders, fills, FillSymbol(k), k)
      BY <1>2, <3>1, <3>2
    <3>. QED BY <3>1, <3>3 DEF Lost, FillSymbol
  <2>. HIDE DEF S, lost
  <2>3. \A T \in SUBSET S : T # {} => First(T) \in S
    BY FirstIn
  <2>4. \A g : Adds(g) <=> IsSum(g, lost, S)
    BY <2>2, <2>3 DEF IsSum
  <2>5. \E g : Adds(g)
    BY <2>1, <2>4, SumExists
  <2>6. Rounding = (CHOOSE g : Adds(g))[S]
    BY DEF Rounding, MapThenSumSet, MapThenFoldSet, First, S
  <2>. HIDE DEF Adds
  <2>7. Adds(CHOOSE g : Adds(g))
    BY <2>5, Zenon
  <2>. DEFINE h == CHOOSE g : Adds(g)
  <2>. HIDE DEF h
  <2>8. IsSum(h, lost, S) /\ S \in SUBSET S
    BY <2>4, <2>7 DEF h
  <2>9. Sum(lost, S) = h[S]
    BY <2>1, <2>8, SumIs
  <2>. QED BY <2>1, <2>6, <2>9 DEF h, lost
<1>. QED BY <1>2, <1>3

\* The balance of the variables, by the invariant.
LEMMA BalanceFromBooks == ASSUME BookInv, BooksInv PROVE LongBookBalances
<1>. DEFINE gains == [s \in Symbols |-> positions[s].realized_pnl]
            costs == [s \in Symbols |-> positions[s].avg_price * positions[s].qty]
            worth == Sum(Worths(positions), Symbols)
<1>1. /\ DOMAIN fills = 1 .. Len(fills)
      /\ orders \in Seq(Order) /\ fills \in Seq(Fill) /\ capital \in Int
      /\ \A k \in 1 .. Len(fills) : fills[k].order \in 1 .. Len(orders)
      /\ Balanced(orders, worth, capital, fills)
  BY LenProperties DEF BooksInv, Books, Booked, BooksTyped
<1>2. /\ IsFiniteSet(Symbols) /\ InitialCapital \in Int
      /\ \A s \in Symbols : gains[s] \in Int /\ costs[s] \in Int
      /\ \A s \in Symbols : Worths(positions)[s] = costs[s] - gains[s]
  <2>1. IsFiniteSet(Symbols) /\ InitialCapital \in Int
    BY AmountsAssumption
  <2>2. \A s \in Symbols : positions[s] \in Position
    BY DEF BookInv, TypeOK, MoneyTypeOK
  <2>. QED BY <2>1, <2>2 DEF Position, Worths, Worth
<1>. HIDE DEF gains, costs
<1>3. /\ worth = Sum(costs, Symbols) - Sum(gains, Symbols)
      /\ Sum(costs, Symbols) \in Int /\ Sum(gains, Symbols) \in Int
  BY <1>2, SumMinus, SumType
<1>4. /\ \A s \in Symbols : \A n \in DOMAIN fills : NetAfter(s, n) = Net(orders, fills, s, n)
      /\ Rounding = Sum(Lost(orders, fills), Buys(orders, fills))
  BY <1>1, SumsOfRounding
<1>5. /\ MapThenSumSet(LAMBDA s : positions[s].realized_pnl, Symbols) = Sum(gains, Symbols)
      /\ MapThenSumSet(LAMBDA s : positions[s].avg_price * positions[s].qty, Symbols)
           = Sum(costs, Symbols)
  BY SumsOfWorth DEF gains, costs
<1>6. ASSUME \A s \in Symbols : NeverShort(s) PROVE NeverWentShort(orders, fills)
  BY <1>1, <1>4, <1>6 DEF NeverShort, NeverWentShort
<1>. DEFINE a == Sum(gains, Symbols)
            b == Sum(costs, Symbols)
<1>. HIDE DEF worth, a, b
<1>7. InitialCapital + a - b - capital = InitialCapital - worth - capital
  BY <1>1, <1>2, <1>3 DEF a, b
<1>8. ASSUME \A s \in Symbols : NeverShort(s)
      PROVE  /\ 0 <= InitialCapital + a - b - capital
             /\ InitialCapital + a - b - capital <= Rounding
  BY <1>1, <1>4, <1>6, <1>7, <1>8 DEF Balanced
<1>. QED BY <1>5, <1>8 DEF LongBookBalances, a, b

\* _apply_fill moves value between cash, cost and realized P&L and never makes or loses
\* any but the rounding of the averages, as long as nothing has been sold short: whatever
\* the orders, partial closes, additions, ticks and square-offs.
THEOREM LongBooksBalance == Spec => []LongBookBalances
<1>1. BookInv /\ BooksInv => LongBookBalances
  BY BalanceFromBooks
<1>. QED BY <1>1, BooksInvariant, PTL
=============================================================================
