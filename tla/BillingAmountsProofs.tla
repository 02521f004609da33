------------------------- MODULE BillingAmountsProofs -------------------------
(***************************************************************************)
(* Induction over numbers and finite sets, sums over finite sets, and what *)
(* they say about BillingAmounts: for all amounts and any number of years, *)
(* the shares of an adjustment add up to it however they are computed, a   *)
(* receipt of the quoted amount settles its year, and settled years stay   *)
(* settled.                                                                *)
(*                                                                         *)
(* The library states induction for an operator, which no backend can      *)
(* instantiate.  Here it is about sets, of the numbers or subsets that     *)
(* have the property, and follows from the theorem that an injection of a  *)
(* finite set into itself is onto.                                         *)
(***************************************************************************)
EXTENDS BillingAmounts, Functions, FiniteSetTheorems, TLAPS

(* Induction: a set that holds 0 and with every number the next.           *)
LEMMA NatInd ==
  ASSUME NEW P, 0 \in P, \A n \in Nat : n \in P => n + 1 \in P
  PROVE  Nat \subseteq P
<1> SUFFICES ASSUME NEW m \in Nat, m \notin P PROVE FALSE
  OBVIOUS
<1> DEFINE S == 0 .. m
           f == [n \in S |-> IF n \in P THEN n + 1 ELSE n]
<1>1. IsFiniteSet(S)
  BY FS_Interval
<1>2. f \in [S -> S]
  <2>1. ASSUME NEW n \in S PROVE f[n] \in S
    <3>1. n \in P => n # m
      OBVIOUS
    <3> QED BY <3>1
  <2> QED BY <2>1
<1>3. f \in Injection(S, S)
  <2>1. ASSUME NEW a \in S, NEW b \in S, f[a] = f[b] PROVE a = b
    <3>1. a \in P => a + 1 \in P
      OBVIOUS
    <3>2. b \in P => b + 1 \in P
      OBVIOUS
    <3> QED BY <2>1, <3>1, <3>2
  <2>2. IsInjective(f)
    BY <2>1 DEF IsInjective
  <2> QED BY <1>2, <2>2 DEF Injection
<1>4. \A t \in S : \E s \in S : f[s] = t
  <2> HIDE DEF f, S
  <2>1. f \in Surjection(S, S)
    BY <1>1, <1>3, FS_Injection
  <2> QED BY <2>1 DEF Surjection
<1>5. 0 \in S
  OBVIOUS
<1>6. PICK n \in S : f[n] = 0
  <2> HIDE DEF f, S
  <2> QED BY <1>4, <1>5
<1> QED BY <1>6

(* The recursion behind a sum: one element after another.                  *)
First(s) == CHOOSE x \in s : TRUE
IsIter(g, f, S) ==
    g = [s \in SUBSET S |-> IF s = {} THEN 0 ELSE f[First(s)] + g[s \ {First(s)}]]
SumOver(f, S) == FoldFunctionOnSet(+, 0, f, S)

LEMMA SumIter ==
  ASSUME NEW f, NEW S
  PROVE  SumOver(f, S) = (CHOOSE g : IsIter(g, f, S))[S]
BY DEF SumOver, FoldFunctionOnSet, MapThenFoldSet, IsIter, First

(* Induction over the subsets of a finite set: one that holds when it      *)
(* holds for all that lack an element.                                     *)
LEMMA SetInd ==
  ASSUME NEW S, IsFiniteSet(S), NEW G,
         \A s \in SUBSET S : (\A x \in s : s \ {x} \in G) => s \in G
  PROVE  SUBSET S \subseteq G
<1> DEFINE P == {n \in Nat : \A s \in SUBSET S : Cardinality(s) = n => s \in G}
<1>1. 0 \in P
  <2>1. ASSUME NEW s \in SUBSET S, Cardinality(s) = 0 PROVE s \in G
    <3>1. s = {}
      BY <2>1, FS_Subset, FS_EmptySet
    <3> QED BY <3>1
  <2> QED BY <2>1
<1>2. ASSUME NEW n \in Nat, n \in P PROVE n + 1 \in P
  <2>1. ASSUME NEW s \in SUBSET S, Cardinality(s) = n + 1 PROVE s \in G
    <3>1. ASSUME NEW x \in s PROVE s \ {x} \in G
      <4>1. IsFiniteSet(s)
        BY FS_Subset
      <4>2. Cardinality(s \ {x}) = Cardinality(s) - 1
        BY <4>1, FS_RemoveElement
      <4> QED BY <1>2, <2>1, <4>2
    <3> QED BY <3>1
  <2> QED BY <2>1
<1>3. Nat \subseteq P
  <2> HIDE DEF P
  <2> QED BY <1>1, <1>2, NatInd
<1>4. ASSUME NEW s \in SUBSET S PROVE s \in G
  <2>1. Cardinality(s) \in Nat
    BY FS_Subset, FS_CardinalityType
  <2> QED BY <1>3, <2>1
<1> QED BY <1>4

(* Two iterations agree where both are defined.                            *)
LEMMA IterAgree ==
  ASSUME NEW f, NEW S, IsFiniteSet(S), NEW g, NEW h, IsIter(g, f, S), IsIter(h, f, S)
  PROVE  g[S] = h[S]
<1> DEFINE G == {s \in SUBSET S : g[s] = h[s]}
<1>1. ASSUME NEW s \in SUBSET S, \A x \in s : s \ {x} \in G PROVE s \in G
  <2>1. /\ g[s] = IF s = {} THEN 0 ELSE f[First(s)] + g[s \ {First(s)}]
        /\ h[s] = IF s = {} THEN 0 ELSE f[First(s)] + h[s \ {First(s)}]
    BY DEF IsIter
  <2>2. s # {} => g[s \ {First(s)}] = h[s \ {First(s)}]
    BY <1>1 DEF First
  <2> QED BY <2>1, <2>2
<1>2. SUBSET S \subseteq G
  <2> HIDE DEF G
  <2> QED BY <1>1, SetInd
<1> QED BY <1>2

SumStep(f, s) == IF s = {} THEN 0 ELSE f[First(s)] + SumOver(f, s \ {First(s)})

(* The sum over a finite set is what the recursion says.                   *)
LEMMA SumUnfold ==
  ASSUME NEW f, NEW S, IsFiniteSet(S)
  PROVE  SumOver(f, S) = SumStep(f, S)
<1> DEFINE G == {s \in SUBSET S : \A t \in SUBSET s : SumOver(f, t) = SumStep(f, t)}
<1>1. ASSUME NEW T \in SUBSET S, \A x \in T : T \ {x} \in G PROVE T \in G
  <2>1. ASSUME NEW t \in SUBSET T, t # T PROVE SumOver(f, t) = SumStep(f, t)
    <3>1. PICK x \in T : x \notin t
      BY <2>1
    <3>2. T \ {x} \in G /\ t \in SUBSET (T \ {x})
      BY <1>1, <3>1
    <3> QED BY <3>2
  <2> HIDE DEF G
  <2> DEFINE g == [s \in SUBSET T |-> SumStep(f, s)]
             h == CHOOSE x : IsIter(x, f, T)
  <2>2. IsIter(g, f, T)
    <3>1. ASSUME NEW s \in SUBSET T
          PROVE  g[s] = IF s = {} THEN 0 ELSE f[First(s)] + g[s \ {First(s)}]
      <4>1. s # {} => First(s) \in s
        BY DEF First
      <4>2. s # {} => s \ {First(s)} \in SUBSET T /\ s \ {First(s)} # T
        BY <4>1
      <4>3. s # {} => g[s \ {First(s)}] = SumOver(f, s \ {First(s)})
        BY <2>1, <4>2
      <4> QED BY <4>3 DEF SumStep
    <3>2. g = [s \in SUBSET T |-> g[s]]
      OBVIOUS
    <3> HIDE DEF g
    <3> QED BY <3>1, <3>2, Zenon DEF IsIter
  <2>3. IsIter(h, f, T)
    <3> HIDE DEF g
    <3> QED BY <2>2
  <2>4. g[T] = h[T]
    <3>1. IsFiniteSet(T)
      BY FS_Subset
    <3> HIDE DEF g, h
    <3> QED BY <2>2, <2>3, <3>1, IterAgree
  <2>5. SumOver(f, T) = SumStep(f, T)
    BY <2>4, SumIter
  <2> USE DEF G
  <2> QED BY <2>1, <2>5
<1>2. SUBSET S \subseteq G
  <2> HIDE DEF G
  <2> QED BY <1>1, SetInd
<1> QED BY <1>2

LEMMA SumEmpty == ASSUME NEW f PROVE SumOver(f, {}) = 0
BY FS_EmptySet, SumUnfold DEF SumStep

(* A sum of integers is an integer, a sum of naturals a natural.           *)
LEMMA SumTypes ==
  ASSUME NEW f, NEW S, IsFiniteSet(S), NEW V \in {Int, Nat}, \A x \in S : f[x] \in V
  PROVE  SumOver(f, S) \in V
<1> DEFINE G == {s \in SUBSET S : SumOver(f, s) \in V}
<1>1. ASSUME NEW s \in SUBSET S, \A x \in s : s \ {x} \in G PROVE s \in G
  <2>1. SumOver(f, s) = SumStep(f, s)
    BY FS_Subset, SumUnfold
  <2>2. s # {} => f[First(s)] \in V /\ SumOver(f, s \ {First(s)}) \in V
    BY <1>1 DEF First
  <2> HIDE DEF G
  <2>3. 0 \in V /\ \A i, j \in V : i + j \in V
    OBVIOUS
  <2>4. SumStep(f, s) \in V
    BY <2>2, <2>3 DEF SumStep
  <2> USE DEF G
  <2> QED BY <2>1, <2>4
<1>2. SUBSET S \subseteq G
  <2> HIDE DEF G
  <2> QED BY <1>1, SetInd
<1> QED BY <1>2

(* The order of the summands does not matter.                              *)
LEMMA SumRemove ==
  ASSUME NEW f, NEW S, IsFiniteSet(S), \A x \in S : f[x] \in Int
  PROVE  \A s \in SUBSET S : \A y \in s : SumOver(f, s) = f[y] + SumOver(f, s \ {y})
<1> DEFINE G == {s \in SUBSET S : \A z \in s : SumOver(f, s) = f[z] + SumOver(f, s \ {z})}
<1>1. ASSUME NEW s \in SUBSET S, \A x \in s : s \ {x} \in G PROVE s \in G
  <2> SUFFICES ASSUME NEW z \in s PROVE SumOver(f, s) = f[z] + SumOver(f, s \ {z})
    OBVIOUS
  <2> DEFINE x == First(s)
             r == (s \ {x}) \ {z}
  <2>1. x \in s
    BY DEF First
  <2>2. SumOver(f, s) = f[x] + SumOver(f, s \ {x})
    BY FS_Subset, SumUnfold DEF SumStep
  <2>3. CASE x # z
    <3>1. SumOver(f, s \ {x}) = f[z] + SumOver(f, r)
      BY <1>1, <2>1, <2>3
    <3>2. (s \ {z}) \ {x} = r
      OBVIOUS
    <3>3. SumOver(f, s \ {z}) = f[x] + SumOver(f, r)
      <4>1. s \ {z} \in G /\ x \in s \ {z}
        BY <1>1, <2>1, <2>3
      <4> QED BY <3>2, <4>1
    <3>4. f[x] \in Int /\ f[z] \in Int /\ SumOver(f, r) \in Int
      <4>1. IsFiniteSet(r) /\ \A t \in r : f[t] \in Int
        BY FS_Subset
      <4> HIDE DEF r, x, G
      <4> QED BY <2>1, <4>1, SumTypes
    <3> HIDE DEF x, r, G
    <3> QED BY <2>2, <3>1, <3>3, <3>4
  <2> QED BY <2>2, <2>3
<1>2. SUBSET S \subseteq G
  <2> HIDE DEF G
  <2> QED BY <1>1, SetInd
<1> QED BY <1>2

LEMMA SumAdd ==
  ASSUME NEW f, NEW S, IsFiniteSet(S), NEW y, y \notin S, \A x \in S \cup {y} : f[x] \in Int
  PROVE  SumOver(f, S \cup {y}) = SumOver(f, S) + f[y]
<1>1. IsFiniteSet(S \cup {y}) /\ (S \cup {y}) \ {y} = S
  BY FS_AddElement
<1>2. SumOver(f, S \cup {y}) = f[y] + SumOver(f, S)
  BY <1>1, SumRemove
<1> QED BY <1>2, SumTypes

LEMMA Division ==
    ASSUME NEW n \in Nat, NEW d \in Nat \ {0}
    PROVE  /\ HalfUp(n, d) \in Nat
           /\ 2 * d * HalfUp(n, d) <= 2 * n + d
           /\ 2 * n + d < 2 * d * HalfUp(n, d) + 2 * d
<1> DEFINE x == 2 * n + d
           y == 2 * d
<1>1. x \in Nat /\ y \in Nat \ {0}
  OBVIOUS
<1>2. \A u \in Nat, v \in Nat \ {0} :
         u \div v \in Nat /\ v * (u \div v) <= u /\ u < v * (u \div v) + v
  BY SMT
<1> HIDE DEF x, y
<1>3. x \div y \in Nat /\ y * (x \div y) <= x /\ x < y * (x \div y) + y
  BY <1>1, <1>2
<1> QED BY <1>3 DEF x, y, HalfUp

LEMMA RemainderType ==
    ASSUME NEW total \in Nat, NEW count \in Nat \ {0}
    PROVE  Base(total, count) \in Nat /\ Remainder(total, count) \in Int
<1>1. Base(total, count) \in Nat
  BY Division DEF Base
<1>2. count * Base(total, count) \in Int
  BY <1>1
<1> QED BY <1>1, <1>2 DEF Remainder

(* What is left after equal shares is at most half a centavo a year, so    *)
(* the centavos run out before the years do: equal_adjustment_shares       *)
(* never indexes past its last share.                                      *)
THEOREM RemainderFits ==
    ASSUME NEW total \in Nat, NEW count \in Nat \ {0}
    PROVE  2 * Abs(Remainder(total, count)) <= count
<1> DEFINE b == HalfUp(total, count)
<1>1. b \in Nat /\ 2 * count * b <= 2 * total + count /\ 2 * total + count < 2 * count * b + 2 * count
  BY Division
<1> HIDE DEF b
<1>2. count * b \in Nat /\ 2 * count * b = 2 * (count * b)
  BY <1>1
<1> DEFINE z == count * b
<1>3. z \in Nat /\ 2 * z <= 2 * total + count /\ 2 * total + count < 2 * z + 2 * count
  BY <1>1, <1>2
<1>4. Remainder(total, count) = total - z
  BY DEF Remainder, Base, b
<1> HIDE DEF z
<1> QED BY <1>3, <1>4 DEF Abs

(* The largest number of a finite set.                                     *)
LEMMA Largest ==
  ASSUME NEW S \in SUBSET Int, IsFiniteSet(S), S # {}
  PROVE  \E m \in S : \A x \in S : x <= m
<1> DEFINE G == {s \in SUBSET S : s # {} => \E m \in s : \A x \in s : x <= m}
<1>1. ASSUME NEW s \in SUBSET S, \A x \in s : s \ {x} \in G PROVE s \in G
  <2> SUFFICES ASSUME s # {} PROVE \E m \in s : \A x \in s : x <= m
    OBVIOUS
  <2>1. PICK a \in s : TRUE
    OBVIOUS
  <2>2. CASE s \ {a} = {}
    <3>1. \A x \in s : x = a /\ x \in Int
      BY <2>2
    <3> QED BY <2>1, <3>1
  <2>3. CASE s \ {a} # {}
    <3>1. PICK m \in s \ {a} : \A x \in s \ {a} : x <= m
      BY <1>1, <2>3
    <3>2. CASE a <= m
      BY <3>1, <3>2
    <3>3. CASE ~ (a <= m)
      <4>1. \A x \in s : x <= a
        BY <3>1, <3>3
      <4> QED BY <4>1, <2>1
    <3> QED BY <3>2, <3>3
  <2> QED BY <2>2, <2>3
<1>2. SUBSET S \subseteq G
  <2> HIDE DEF G
  <2> QED BY <1>1, SetInd
<1> QED BY <1>2

(* What EXCEPT makes of a function.                                        *)
LEMMA Changed ==
  ASSUME NEW S, NEW h, h = [i \in S |-> h[i]], NEW k, NEW v
  PROVE  [h EXCEPT ![k] = v] = [i \in S |-> IF i = k THEN v ELSE h[i]]
<1>1. DOMAIN h = S
  BY Zenon
<1> QED BY <1>1

(* The two splits that are written in Python agree.                        *)
THEOREM PythonSplitsAgree ==
  ASSUME NEW total \in Nat, NEW count \in Nat \ {0}
  PROVE  split_amount_across_years(total, count) = equal_adjustment_shares(total, count)
<1> DEFINE B == Base(total, count)
           R == Remainder(total, count)
           A == Abs(R)
           C == Cent(R)
           even == [i \in 1 .. count |-> B]
           Turn(n, a) == [a EXCEPT ![((n - 1) % count) + 1] = @ + C]
           Step(h) == [n \in 0 .. A |-> IF n = 0 THEN even ELSE Turn(n, h[n - 1])]
           g == [n \in 0 .. A |-> [i \in 1 .. count |-> B + (IF i <= n THEN C ELSE 0)]]
           after == CHOOSE h : h = Step(h)
<1>1. B \in Int /\ R \in Int /\ C \in Int /\ A \in 0 .. count
  <2>1. B \in Nat
    BY Division DEF Base
  <2>2. count * B \in Int
    BY <2>1
  <2>3. R \in Int
    BY <2>2 DEF Remainder
  <2>4. C \in Int
    BY <2>3 DEF Cent
  <2>5. A \in Nat /\ 2 * A <= count
    BY <2>3, RemainderFits DEF Abs
  <2> QED BY <2>1, <2>3, <2>4, <2>5
<1>2. /\ split_amount_across_years(total, count) = after[A]
      /\ equal_adjustment_shares(total, count) = [i \in 1 .. count |-> B + (IF i <= A THEN C ELSE 0)]
  BY DEF split_amount_across_years, equal_adjustment_shares
<1> HIDE DEF B, R, A, C
<1>3. g = Step(g)
  <2>1. ASSUME NEW n \in 0 .. A, n # 0
        PROVE  g[n] = Turn(n, g[n - 1])
    <3>1. n - 1 \in 0 .. A /\ n - 1 < count
      BY <1>1, <2>1
    <3>2. (n - 1) % count = n - 1
      BY <3>1
    <3>3. g[n - 1] = [i \in 1 .. count |-> B + (IF i <= n - 1 THEN C ELSE 0)]
      BY <3>1
    <3>4. [g[n - 1] EXCEPT ![n] = @ + C]
            = [i \in 1 .. count |-> IF i = n THEN g[n - 1][n] + C ELSE g[n - 1][i]]
      <4>1. g[n - 1] = [i \in 1 .. count |-> g[n - 1][i]]
        BY <3>3
      <4> HIDE DEF g
      <4> QED BY <4>1, Changed
    <3>5. ASSUME NEW i \in 1 .. count
          PROVE  g[n][i] = IF i = n THEN g[n - 1][n] + C ELSE g[n - 1][i]
      <4>1. g[n][i] = B + (IF i <= n THEN C ELSE 0)
        OBVIOUS
      <4>2. g[n - 1][i] = B + (IF i <= n - 1 THEN C ELSE 0)
        BY <3>3
      <4>3. i = n => g[n - 1][i] + C = B + C
        BY <4>2, <1>1
      <4> HIDE DEF g
      <4> QED BY <4>1, <4>2, <4>3, <1>1
    <3>6. g[n] = [i \in 1 .. count |-> g[n][i]]
      OBVIOUS
    <3>7. ((n - 1) % count) + 1 = n
      BY <3>2
    <3> HIDE DEF g
    <3> QED BY <3>4, <3>5, <3>6, <3>7
  <2>2. g[0] = even
    <3>1. \A i \in 1 .. count : B + (IF i <= 0 THEN C ELSE 0) = B
      BY <1>1
    <3> QED BY <1>1, <3>1
  <2>3. g = [n \in 0 .. A |-> g[n]]
    OBVIOUS
  <2> HIDE DEF g, even, Turn
  <2> QED BY <2>1, <2>2, <2>3
<1>4. after = Step(after)
  <2> HIDE DEF g, Step
  <2> QED BY <1>3
<1>5. \A n \in 0 .. A : after[n] = g[n]
  <2> DEFINE P == {n \in Nat : n <= A => after[n] = g[n]}
  <2>1. /\ after[0] = even
        /\ \A n \in 0 .. A : n # 0 => after[n] = Turn(n, after[n - 1])
    <3> HIDE DEF g, after, even, Turn
    <3> QED BY <1>1, <1>4
  <2>2. /\ g[0] = even
        /\ \A n \in 0 .. A : n # 0 => g[n] = Turn(n, g[n - 1])
    <3> HIDE DEF g, after, even, Turn
    <3> QED BY <1>1, <1>3
  <2> HIDE DEF g, after, even, Turn, Step
  <2>3. 0 \in P
    BY <2>1, <2>2
  <2>4. ASSUME NEW n \in Nat, n \in P PROVE n + 1 \in P
    <3> SUFFICES ASSUME n + 1 <= A PROVE after[n + 1] = g[n + 1]
      OBVIOUS
    <3>1. after[n] = g[n] /\ n + 1 \in 0 .. A /\ n + 1 # 0 /\ (n + 1) - 1 = n
      BY <1>1, <2>4
    <3> QED BY <2>1, <2>2, <3>1
  <2>5. Nat \subseteq P
    <3> HIDE DEF P
    <3> QED BY <2>3, <2>4, NatInd
  <2> QED BY <1>1, <2>5
<1>6. A \in 0 .. A
  BY <1>1
<1>7. after[A] = g[A]
  <2> HIDE DEF g, after
  <2> QED BY <1>5, <1>6
<1>8. g[A] = [i \in 1 .. count |-> B + (IF i <= A THEN C ELSE 0)]
  BY <1>6
<1> HIDE DEF g, after
<1> QED BY <1>2, <1>7, <1>8
(* The elements of Y before b, and the sets that come before all others.   *)
Before(Y, b) == {c \in Y : c < b}
Prefix(s, Y) == s \subseteq Y /\ \A b \in s : Before(Y, b) \subseteq s

(* A prefix without its largest element is the prefix before it.           *)
LEMMA PrefixStep ==
  ASSUME NEW Y \in SUBSET Int, IsFiniteSet(Y), NEW s \in SUBSET Y, Prefix(s, Y), s # {}
  PROVE  \E m \in s : Before(Y, m) = s \ {m} /\ Prefix(s \ {m}, Y)
<1>1. s \in SUBSET Int /\ IsFiniteSet(s)
  BY FS_Subset
<1>2. PICK m \in s : \A x \in s : x <= m
  BY <1>1, Largest
<1>3. Before(Y, m) = s \ {m}
  <2>1. ASSUME NEW c \in Y, c < m PROVE c \in s \ {m}
    <3>1. c \in s /\ m \in Int
      BY <1>1, <2>1 DEF Prefix, Before
    <3> QED BY <2>1, <3>1
  <2>2. ASSUME NEW c \in s \ {m} PROVE c \in Y /\ c < m
    <3>1. c <= m /\ c \in Int /\ m \in Int /\ c \in Y
      BY <1>1, <1>2
    <3> QED BY <3>1
  <2> QED BY <2>1, <2>2 DEF Before
<1>4. Prefix(s \ {m}, Y)
  <2>1. ASSUME NEW b \in s \ {m}, NEW c \in Y, c < b PROVE c \in s \ {m}
    <3>1. c \in s
      BY <2>1 DEF Prefix, Before
    <3>2. b <= m /\ b \in Int /\ m \in Int /\ c \in Int
      BY <1>1, <1>2, <3>1
    <3> QED BY <2>1, <3>1, <3>2
  <2> QED BY <2>1 DEF Prefix, Before
<1> QED BY <1>3, <1>4

(* Shares of B, of which the first k have a supplement C.                  *)
Supplemented(f, Y, B, C, k) ==
  \A b \in Y : f[b] = B + (IF Cardinality(Before(Y, b)) < k THEN C ELSE 0)

LEMMA SupplementsAdd ==
  ASSUME NEW Y \in SUBSET Int, IsFiniteSet(Y), NEW f,
         NEW B \in Int, NEW C \in Int, NEW k \in Nat, Supplemented(f, Y, B, C, k)
  PROVE  SumOver(f, Y) = Cardinality(Y) * B + C * Least(Cardinality(Y), k)
<1>0. \A s \in SUBSET Y : \A m \in s : SumOver(f, s) = f[m] + SumOver(f, s \ {m})
  <2>1. \A b \in Y : f[b] \in Int
    BY DEF Supplemented
  <2> QED BY <2>1, SumRemove, ZenonT(30)
<1> DEFINE G == {s \in SUBSET Y : Prefix(s, Y) =>
                    SumOver(f, s) = Cardinality(s) * B + C * Least(Cardinality(s), k)}
<1>1. ASSUME NEW s \in SUBSET Y, \A x \in s : s \ {x} \in G PROVE s \in G
  <2> SUFFICES ASSUME Prefix(s, Y)
               PROVE  SumOver(f, s) = Cardinality(s) * B + C * Least(Cardinality(s), k)
    OBVIOUS
  <2>1. IsFiniteSet(s)
    BY FS_Subset
  <2>2. CASE s = {}
    <3>1. SumOver(f, s) = 0 /\ Cardinality(s) = 0
      BY <2>2, FS_EmptySet, SumEmpty
    <3>2. Least(0, k) = 0 /\ 0 * B + C * 0 = 0
      BY DEF Least
    <3> QED BY <3>1, <3>2
  <2>3. CASE s # {}
    <3>1. PICK m \in s : Before(Y, m) = s \ {m} /\ Prefix(s \ {m}, Y)
      BY <2>3, PrefixStep
    <3> DEFINE n == Cardinality(s \ {m})
    <3>2. n \in Nat /\ Cardinality(s) = n + 1
      <4>1. IsFiniteSet(s \ {m}) /\ n = Cardinality(s) - 1 /\ Cardinality(s) \in Nat
        BY <2>1, FS_RemoveElement, FS_CardinalityType
      <4>2. n \in Nat
        BY <4>1, FS_CardinalityType
      <4> HIDE DEF n
      <4> QED BY <4>1, <4>2
    <3>3. SumOver(f, s) = f[m] + SumOver(f, s \ {m})
      BY <1>0
    <3>4. SumOver(f, s \ {m}) = n * B + C * Least(n, k)
      BY <1>1, <3>1
    <3>5. f[m] = B + (IF n < k THEN C ELSE 0)
      BY <3>1 DEF Supplemented
    <3> HIDE DEF n, G
    <3>6. (n + 1) * B = n * B + B /\ n * B \in Int
      BY <3>2
    <3>7. C * Least(n + 1, k) = C * Least(n, k) + (IF n < k THEN C ELSE 0) /\ C * Least(n, k) \in Int
      <4>1. CASE n < k
        <5>1. Least(n, k) = n /\ Least(n + 1, k) = n + 1
          BY <3>2, <4>1 DEF Least
        <5> QED BY <3>2, <4>1, <5>1
      <4>2. CASE ~ (n < k)
        <5>1. Least(n, k) = k /\ Least(n + 1, k) = k
          BY <3>2, <4>2 DEF Least
        <5> QED BY <4>2, <5>1
      <4> QED BY <4>1, <4>2
    <3> QED BY <3>2, <3>3, <3>4, <3>5, <3>6, <3>7
  <2> QED BY <2>2, <2>3
<1>2. SUBSET Y \subseteq G
  <2> HIDE DEF G
  <2> QED BY <1>1, SetInd
<1>3. Prefix(Y, Y)
  BY DEF Prefix, Before
<1> QED BY <1>2, <1>3

(* The shares that the queries read back add up to the total.              *)
THEOREM SharesAddUp ==
  ASSUME NEW Y \in SUBSET Int, IsFiniteSet(Y), Y # {}, NEW total \in Nat, NEW f,
         \A b \in Y : f[b] = AdjustmentShare(total, Cardinality(Y), Cardinality(Before(Y, b)))
  PROVE  SumOver(f, Y) = total
<1> DEFINE n == Cardinality(Y)
           B == Base(total, n)
           R == Remainder(total, n)
<1>1. n \in Nat \ {0}
  BY FS_CardinalityType, FS_EmptySet
<1>2. B \in Nat /\ R \in Int /\ R = total - n * B /\ n * B \in Int
  <2>1. B \in Nat
    BY <1>1, Division DEF Base
  <2>2. n * B \in Int
    BY <1>1, <2>1
  <2> QED BY <2>1, <2>2 DEF Remainder
<1>3. Abs(R) \in Nat /\ Least(n, Abs(R)) = Abs(R)
  <2>1. 2 * Abs(R) <= n
    BY <1>1, RemainderFits
  <2>2. Abs(R) \in Nat
    BY <1>2 DEF Abs
  <2> HIDE DEF n, R
  <2> QED BY <1>1, <2>1, <2>2 DEF Least
<1>4. Cent(R) \in Int /\ Cent(R) * Abs(R) = R
  BY <1>2 DEF Cent, Abs
<1>5. Supplemented(f, Y, B, Cent(R), Abs(R))
  BY DEF AdjustmentShare, Supplemented
<1>6. SumOver(f, Y) = n * B + Cent(R) * Least(n, Abs(R))
  <2> HIDE DEF B, R
  <2> QED BY <1>2, <1>3, <1>4, <1>5, SupplementsAdd
<1> HIDE DEF n, B, R
<1> QED BY <1>2, <1>3, <1>4, <1>6

(* A sum of naturals over a smaller set is no larger.                      *)
LEMMA SumMonotone ==
  ASSUME NEW f, NEW S, IsFiniteSet(S), \A x \in S : f[x] \in Nat
  PROVE  \A s \in SUBSET S : \A t \in SUBSET s : SumOver(f, t) <= SumOver(f, s)
<1>1. \A x \in S : f[x] \in Int
  OBVIOUS
<1>2. \A s \in SUBSET S : \A y \in s : SumOver(f, s) = f[y] + SumOver(f, s \ {y})
  BY <1>1, SumRemove, ZenonT(30)
<1>3. \A s \in SUBSET S : SumOver(f, s) \in Nat
  <2> TAKE s \in SUBSET S
  <2>1. IsFiniteSet(s) /\ \A x \in s : f[x] \in Nat
    BY FS_Subset
  <2> QED BY <2>1, SumTypes
<1> DEFINE G == {s \in SUBSET S : \A t \in SUBSET s : SumOver(f, t) <= SumOver(f, s)}
<1>4. ASSUME NEW s \in SUBSET S, \A x \in s : s \ {x} \in G PROVE s \in G
  <2> SUFFICES ASSUME NEW t \in SUBSET s PROVE SumOver(f, t) <= SumOver(f, s)
    OBVIOUS
  <2>1. CASE t = s
    <3>1. SumOver(f, s) \in Nat
      BY <1>3
    <3> QED BY <2>1, <3>1
  <2>2. CASE t # s
    <3>1. PICK x \in s : x \notin t
      BY <2>2
    <3>2. SumOver(f, t) <= SumOver(f, s \ {x})
      BY <1>4, <3>1
    <3>3. SumOver(f, s) = f[x] + SumOver(f, s \ {x}) /\ f[x] \in Nat
      BY <1>2
    <3>4. SumOver(f, t) \in Nat /\ SumOver(f, s \ {x}) \in Nat
      BY <1>3
    <3> HIDE DEF G
    <3> QED BY <3>2, <3>3, <3>4
  <2> QED BY <2>1, <2>2
<1>5. SUBSET S \subseteq G
  <2> HIDE DEF G
  <2> QED BY <1>4, SetInd
<1> QED BY <1>5

(* Summands that are zero do not count.                                    *)
LEMMA SumSupport ==
  ASSUME NEW f, NEW S, IsFiniteSet(S), \A x \in S : f[x] \in Int
  PROVE  \A s \in SUBSET S : (\A x \in S \ s : f[x] = 0) => SumOver(f, S) = SumOver(f, s)
<1>1. \A s \in SUBSET S : \A y \in s : SumOver(f, s) = f[y] + SumOver(f, s \ {y})
  BY SumRemove, ZenonT(30)
<1>2. \A s \in SUBSET S : SumOver(f, s) \in Int
  <2> TAKE s \in SUBSET S
  <2>1. IsFiniteSet(s) /\ \A x \in s : f[x] \in Int
    BY FS_Subset
  <2> QED BY <2>1, SumTypes
<1> SUFFICES ASSUME NEW r \in SUBSET S, \A x \in S \ r : f[x] = 0
             PROVE  SumOver(f, S) = SumOver(f, r)
  OBVIOUS
<1> DEFINE G == {s \in SUBSET S : r \subseteq s => SumOver(f, s) = SumOver(f, r)}
<1>3. ASSUME NEW s \in SUBSET S, \A x \in s : s \ {x} \in G PROVE s \in G
  <2> SUFFICES ASSUME r \subseteq s, r # s PROVE SumOver(f, s) = SumOver(f, r)
    OBVIOUS
  <2>1. PICK x \in s : x \notin r
    OBVIOUS
  <2>2. SumOver(f, s) = f[x] + SumOver(f, s \ {x}) /\ f[x] = 0
    BY <1>1, <2>1
  <2>3. SumOver(f, s \ {x}) = SumOver(f, r)
    BY <1>3, <2>1
  <2>4. SumOver(f, r) \in Int
    BY <1>2
  <2> HIDE DEF G
  <2> QED BY <2>2, <2>3, <2>4
<1>4. SUBSET S \subseteq G
  <2> HIDE DEF G
  <2> QED BY <1>3, SetInd
<1> QED BY <1>4

(* Sums of equal summands are equal.                                       *)
LEMMA SumEqual ==
  ASSUME NEW f, NEW g, NEW S, IsFiniteSet(S), \A x \in S : f[x] \in Int, \A x \in S : f[x] = g[x]
  PROVE  SumOver(f, S) = SumOver(g, S)
<1>1. \A s \in SUBSET S : \A y \in s : SumOver(f, s) = f[y] + SumOver(f, s \ {y})
  BY SumRemove, ZenonT(30)
<1>2. \A s \in SUBSET S : \A y \in s : SumOver(g, s) = g[y] + SumOver(g, s \ {y})
  <2>1. \A x \in S : g[x] \in Int
    OBVIOUS
  <2> QED BY <2>1, SumRemove, ZenonT(30)
<1> DEFINE G == {s \in SUBSET S : SumOver(f, s) = SumOver(g, s)}
<1>3. ASSUME NEW s \in SUBSET S, \A x \in s : s \ {x} \in G PROVE s \in G
  <2>1. CASE s = {}
    BY <2>1, SumEmpty
  <2>2. CASE s # {}
    <3>1. PICK x \in s : TRUE
      BY <2>2
    <3>2. SumOver(f, s \ {x}) = SumOver(g, s \ {x}) /\ f[x] = g[x]
      BY <1>3
    <3>3. SumOver(f, s) = SumOver(g, s)
      <4> HIDE DEF G
      <4> QED BY <1>1, <1>2, <3>2
    <3> QED BY <3>3
  <2> QED BY <2>1, <2>2
<1>4. SUBSET S \subseteq G
  <2> HIDE DEF G
  <2> QED BY <1>3, SetInd
<1> QED BY <1>4

(* What an amount leaves of the dues in Y before b is paid to b, up to the *)
(* due.                                                                    *)
Allocated(f, Y, due, amount) ==
  \A b \in Y : LET left == amount - SumOver(due, Before(Y, b))
               IN  f[b] = IF left > 0 THEN Least(due[b], left) ELSE 0

LEMMA AllocatedType ==
  ASSUME NEW Y, IsFiniteSet(Y), NEW due, \A b \in Y : due[b] \in Nat,
         NEW amount \in Nat, NEW f, Allocated(f, Y, due, amount)
  PROVE  \A b \in Y : f[b] \in Nat /\ f[b] <= due[b] /\ SumOver(due, Before(Y, b)) \in Nat
<1> TAKE b \in Y
<1>1. SumOver(due, Before(Y, b)) \in Nat
  <2>1. IsFiniteSet(Before(Y, b)) /\ \A c \in Before(Y, b) : due[c] \in Nat
    BY FS_Subset DEF Before
  <2> QED BY <2>1, SumTypes
<1> DEFINE left == amount - SumOver(due, Before(Y, b))
<1>2. f[b] = IF left > 0 THEN Least(due[b], left) ELSE 0
  BY DEF Allocated
<1>3. left \in Int /\ due[b] \in Nat
  BY <1>1
<1> HIDE DEF left
<1> QED BY <1>1, <1>2, <1>3 DEF Least

LEMMA AllocatedSum ==
  ASSUME NEW Y \in SUBSET Int, IsFiniteSet(Y), NEW due, \A b \in Y : due[b] \in Nat,
         NEW amount \in Nat, NEW f, Allocated(f, Y, due, amount)
  PROVE  SumOver(f, Y) = Least(amount, SumOver(due, Y))
<1>0. \A b \in Y : f[b] \in Nat /\ f[b] <= due[b] /\ SumOver(due, Before(Y, b)) \in Nat
  BY AllocatedType, ZenonT(30)
<1>1. \A s \in SUBSET Y : \A m \in s : SumOver(f, s) = f[m] + SumOver(f, s \ {m})
  <2>1. \A b \in Y : f[b] \in Int
    BY <1>0
  <2> QED BY <2>1, SumRemove, ZenonT(30)
<1>2. \A s \in SUBSET Y : \A m \in s : SumOver(due, s) = due[m] + SumOver(due, s \ {m})
  <2>1. \A b \in Y : due[b] \in Int
    OBVIOUS
  <2> QED BY <2>1, SumRemove, ZenonT(30)
<1> DEFINE G == {s \in SUBSET Y : Prefix(s, Y) => SumOver(f, s) = Least(amount, SumOver(due, s))}
<1>3. ASSUME NEW s \in SUBSET Y, \A x \in s : s \ {x} \in G PROVE s \in G
  <2> SUFFICES ASSUME Prefix(s, Y) PROVE SumOver(f, s) = Least(amount, SumOver(due, s))
    OBVIOUS
  <2>1. CASE s = {}
    BY <2>1, SumEmpty DEF Least
  <2>2. CASE s # {}
    <3>1. PICK m \in s : Before(Y, m) = s \ {m} /\ Prefix(s \ {m}, Y)
      BY <2>2, PrefixStep
    <3> DEFINE D == SumOver(due, s \ {m})
    <3>2. SumOver(f, s) = f[m] + SumOver(f, s \ {m}) /\ SumOver(due, s) = due[m] + D
      BY <1>1, <1>2
    <3>3. SumOver(f, s \ {m}) = Least(amount, D)
      BY <1>3, <3>1
    <3>4. f[m] = IF amount - D > 0 THEN Least(due[m], amount - D) ELSE 0
      BY <3>1 DEF Allocated
    <3>5. D \in Nat /\ due[m] \in Nat
      BY <1>0, <3>1
    <3> HIDE DEF D, G
    <3> QED BY <3>2, <3>3, <3>4, <3>5 DEF Least
  <2> QED BY <2>1, <2>2
<1>4. SUBSET Y \subseteq G
  <2> HIDE DEF G
  <2> QED BY <1>3, SetInd
<1>5. Prefix(Y, Y)
  BY DEF Prefix, Before
<1> QED BY <1>4, <1>5

-----------------------------------------------------------------------------
(* Rounded parts of an amount.                                             *)

(* Rounded quotients keep the order and whole multiples of the divisor.    *)
LEMMA Cancel ==
  ASSUME NEW a \in Int, NEW b \in Int, NEW d \in Nat \ {0}, d * a < d * b + d
  PROVE  a <= b
<1> SUFFICES ASSUME a >= b + 1 PROVE FALSE
  OBVIOUS
<1>1. d * (a - b - 1) >= 0
  <2>1. a - b - 1 \in Nat
    OBVIOUS
  <2> DEFINE e == a - b - 1
  <2>2. e \in Nat
    BY <2>1
  <2> HIDE DEF e
  <2>3. d * e \in Nat
    BY <2>2
  <2> QED BY <2>3 DEF e
<1>2. d * (a - b - 1) = d * a - d * b - d
  OBVIOUS
<1> QED BY <1>1, <1>2

LEMMA HalfUpOrder ==
  ASSUME NEW n \in Nat, NEW m \in Nat, NEW d \in Nat \ {0}, n <= m
  PROVE  HalfUp(n, d) <= HalfUp(m, d)
<1> DEFINE a == HalfUp(n, d)
           b == HalfUp(m, d)
<1>1. a \in Nat /\ 2 * d * a <= 2 * n + d
  BY Division
<1>2. b \in Nat /\ 2 * m + d < 2 * d * b + 2 * d
  BY Division
<1> HIDE DEF a, b
<1>3. d * a \in Nat /\ d * b \in Nat /\ 2 * d * a = 2 * (d * a) /\ 2 * d * b = 2 * (d * b)
  BY <1>1, <1>2
<1>4. d * a < d * b + d
  BY <1>1, <1>2, <1>3
<1> QED BY <1>1, <1>2, <1>4, Cancel DEF a, b

LEMMA HalfUpWhole ==
  ASSUME NEW n \in Nat, NEW k \in Nat, NEW d \in Nat \ {0}
  PROVE  HalfUp(n + k * d, d) = HalfUp(n, d) + k
<1> DEFINE m == n + k * d
           a == HalfUp(n, d)
           b == HalfUp(m, d)
<1>1. m \in Nat /\ k * d \in Nat
  OBVIOUS
<1> HIDE DEF m
<1>2. a \in Nat /\ 2 * d * a <= 2 * n + d /\ 2 * n + d < 2 * d * a + 2 * d
  BY Division
<1>3. b \in Nat /\ 2 * d * b <= 2 * m + d /\ 2 * m + d < 2 * d * b + 2 * d
  BY <1>1, Division
<1> HIDE DEF a, b
<1>4. /\ d * a \in Nat /\ d * b \in Nat /\ 2 * d * a = 2 * (d * a) /\ 2 * d * b = 2 * (d * b)
      /\ d * (a + k) = d * a + k * d
  BY <1>2, <1>3
<1>5. m = n + k * d
  BY DEF m
<1>6. d * b < d * (a + k) + d
  BY <1>1, <1>2, <1>3, <1>4, <1>5
<1>7. d * (a + k) < d * b + d
  BY <1>1, <1>2, <1>3, <1>4, <1>5
<1>8. b <= a + k
  BY <1>2, <1>3, <1>6, Cancel
<1>9. a + k <= b
  BY <1>2, <1>3, <1>7, Cancel
<1>10. b = a + k
  BY <1>2, <1>3, <1>8, <1>9
<1> QED BY <1>10 DEF a, b, m

(* A proportional part of at most the whole, rounded: it grows with what   *)
(* is divided, never by more.                                              *)
LEMMA PartGrows ==
  ASSUME NEW T \in Nat \ {0}, NEW B \in 0 .. T, NEW u \in Nat, NEW w \in Nat
  PROVE  /\ HalfUp(u * B, T) \in Nat
         /\ HalfUp(u * B, T) <= HalfUp((u + w) * B, T)
         /\ HalfUp((u + w) * B, T) <= HalfUp(u * B, T) + w
<1>1. u * B \in Nat /\ w * B \in Nat /\ w * T \in Nat /\ (u + w) * B = u * B + w * B
  OBVIOUS
<1>2. w * B <= w * T
  <2> DEFINE e == T - B
  <2>1. e \in Nat
    OBVIOUS
  <2>2. w * T = w * B + w * e
    OBVIOUS
  <2> HIDE DEF e
  <2>3. w * e \in Nat
    BY <2>1
  <2> QED BY <1>1, <2>2, <2>3
<1> DEFINE n == u * B
           m == w * B
           k == w * T
<1>3. HalfUp(n, T) \in Nat /\ HalfUp(n, T) <= HalfUp(n + m, T) /\ HalfUp(n + m, T) <= HalfUp(n + k, T)
  <2> HIDE DEF n, m, k
  <2>1. n \in Nat /\ m \in Nat /\ k \in Nat /\ m <= k
    BY <1>1, <1>2 DEF n, m, k
  <2>2. n + m \in Nat /\ n + k \in Nat /\ n <= n + m /\ n + m <= n + k
    BY <2>1
  <2>3. HalfUp(n, T) \in Nat
    BY <2>1, Division
  <2>4. HalfUp(n, T) <= HalfUp(n + m, T)
    BY <2>1, <2>2, HalfUpOrder
  <2>5. HalfUp(n + m, T) <= HalfUp(n + k, T)
    BY <2>2, HalfUpOrder
  <2> QED BY <2>3, <2>4, <2>5
<1>4. HalfUp(n + w * T, T) = HalfUp(n, T) + w
  <2> HIDE DEF n
  <2>1. n \in Nat
    BY <1>1 DEF n
  <2> QED BY <2>1, HalfUpWhole
<1> QED BY <1>1, <1>3, <1>4

LEMMA PartOfNothing ==
  ASSUME NEW T \in Nat \ {0}, NEW B \in Int
  PROVE  HalfUp(0 * B, T) = 0
<1>1. 0 * B = 0 /\ 2 * 0 + T = T /\ 2 * T \in Nat \ {0}
  OBVIOUS
<1>2. HalfUp(0, T) \in Nat /\ 2 * T * HalfUp(0, T) <= 2 * 0 + T
  BY Division
<1>3. T * HalfUp(0, T) < T * 0 + T
  <2> DEFINE q == HalfUp(0, T)
  <2>1. q \in Nat /\ 2 * T * q <= T
    BY <1>1, <1>2
  <2> HIDE DEF q
  <2>2. T * q \in Nat /\ 2 * T * q = 2 * (T * q)
    BY <2>1
  <2>3. T * q < T
    BY <2>1, <2>2
  <2> QED BY <2>3 DEF q
<1>4. HalfUp(0, T) <= 0
  BY <1>2, <1>3, Cancel
<1>5. HalfUp(0, T) = 0
  BY <1>2, <1>4
<1> QED BY <1>1, <1>5

LEMMA PartOfAll ==
  ASSUME NEW T \in Nat \ {0}, NEW B \in Nat
  PROVE  HalfUp(T * B, T) = B
<1>1. HalfUp(0 + B * T, T) = HalfUp(0, T) + B
  BY HalfUpWhole
<1>2. HalfUp(0, T) = 0
  <2>1. 0 * 0 = 0
    OBVIOUS
  <2> QED BY <2>1, PartOfNothing
<1>3. 0 + B * T = T * B
  OBVIOUS
<1> QED BY <1>1, <1>2, <1>3

(* basic's part of basic + sef is at most the whole.                       *)
LEMMA PartFits ==
  ASSUME NEW T \in Nat, NEW b \in Nat, NEW s \in Nat \ {0}
  PROVE  HalfUp(T * b, b + s) \in 0 .. T
<1>1. T * b \in Nat /\ T * (b + s) \in Nat /\ T * b <= T * (b + s) /\ b + s \in Nat \ {0}
  <2>1. T * s \in Nat /\ T * (b + s) = T * b + T * s /\ T * b \in Nat
    OBVIOUS
  <2> QED BY <2>1
<1>2. HalfUp(T * b, b + s) \in Nat
  BY <1>1, Division
<1>3. HalfUp(T * b, b + s) <= HalfUp((b + s) * T, b + s)
  <2>1. T * (b + s) = (b + s) * T
    OBVIOUS
  <2> QED BY <1>1, <2>1, HalfUpOrder
<1>4. HalfUp((b + s) * T, b + s) = T
  BY <1>1, PartOfAll
<1> QED BY <1>2, <1>3, <1>4

(* Sums over 1 .. i.                                                       *)
LEMMA SumUpTo ==
  ASSUME NEW n \in Nat, NEW f, \A i \in 1 .. n : f[i] \in Int
  PROVE  /\ SumOver(f, 1 .. 0) = 0
         /\ \A i \in 0 .. n : SumOver(f, 1 .. i) \in Int
         /\ \A i \in 1 .. n : SumOver(f, 1 .. i) = SumOver(f, 1 .. (i - 1)) + f[i]
<1>1. SumOver(f, 1 .. 0) = 0
  <2>1. 1 .. 0 = {}
    OBVIOUS
  <2> QED BY <2>1, SumEmpty
<1>2. ASSUME NEW i \in 0 .. n PROVE SumOver(f, 1 .. i) \in Int
  <2>1. IsFiniteSet(1 .. i)
    BY FS_Interval
  <2>2. \A x \in 1 .. i : f[x] \in Int
    OBVIOUS
  <2> QED BY <2>1, <2>2, SumTypes
<1>3. ASSUME NEW i \in 1 .. n PROVE SumOver(f, 1 .. i) = SumOver(f, 1 .. (i - 1)) + f[i]
  <2> DEFINE s == 1 .. (i - 1)
  <2>1. 1 .. i = s \cup {i} /\ i \notin s
    OBVIOUS
  <2>2. IsFiniteSet(s)
    BY FS_Interval
  <2>3. \A x \in s \cup {i} : f[x] \in Int
    OBVIOUS
  <2> HIDE DEF s
  <2>4. SumOver(f, s \cup {i}) = SumOver(f, s) + f[i]
    BY <2>1, <2>2, <2>3, SumAdd
  <2> QED BY <2>1, <2>4 DEF s
<1> QED BY <1>1, <1>2, <1>3

(* A sum of differences is the last value less the first.                  *)
Differences(f, h, n) ==
  (\A i \in 0 .. n : h[i] \in Int) /\ (\A i \in 1 .. n : f[i] = h[i] - h[i - 1])

LEMMA SumTelescopes ==
  ASSUME NEW n \in Nat, NEW f, NEW h, Differences(f, h, n)
  PROVE  SumOver(f, 1 .. n) = h[n] - h[0]
<1> USE DEF Differences
<1>1. ASSUME NEW i \in 1 .. n PROVE f[i] \in Int
  <2>1. i \in 0 .. n /\ i - 1 \in 0 .. n
    OBVIOUS
  <2> QED BY <2>1
<1>2. /\ SumOver(f, 1 .. 0) = 0
      /\ \A i \in 0 .. n : SumOver(f, 1 .. i) \in Int
      /\ \A i \in 1 .. n : SumOver(f, 1 .. i) = SumOver(f, 1 .. (i - 1)) + f[i]
  BY <1>1, SumUpTo
<1> DEFINE P == {i \in Nat : i <= n => SumOver(f, 1 .. i) = h[i] - h[0]}
<1>3. 0 \in P
  BY <1>2
<1>4. ASSUME NEW i \in Nat, i \in P PROVE i + 1 \in P
  <2> SUFFICES ASSUME i + 1 <= n PROVE SumOver(f, 1 .. (i + 1)) = h[i + 1] - h[0]
    OBVIOUS
  <2>1. SumOver(f, 1 .. i) = h[i] - h[0]
    BY <1>4
  <2>2. i + 1 \in 1 .. n /\ i \in 0 .. n /\ (i + 1) - 1 = i
    OBVIOUS
  <2>3. SumOver(f, 1 .. (i + 1)) = SumOver(f, 1 .. i) + f[i + 1]
    BY <1>2, <2>2
  <2>4. f[i + 1] = h[i + 1] - h[i]
    BY <2>2
  <2>5. h[0] \in Int /\ h[i] \in Int /\ h[i + 1] \in Int
    BY <2>2
  <2> QED BY <2>1, <2>3, <2>4, <2>5
<1>5. Nat \subseteq P
  <2> HIDE DEF P
  <2> QED BY <1>3, <1>4, NatInd
<1> QED BY <1>5

-----------------------------------------------------------------------------
(* Quotes and balances.                                                    *)

LEMMA AtRateType ==
    ASSUME NEW rate \in Nat, NEW amount \in Nat
    PROVE  AtRate(rate, amount) \in Nat
<1>1. amount * rate \in Nat
  OBVIOUS
<1> QED BY <1>1, Division DEF AtRate

LEMMA AtRateZero ==
    ASSUME NEW rate \in Nat
    PROVE  AtRate(rate, 0) = 0
<1>1. 0 * rate = 0
  OBVIOUS
<1> QED BY <1>1 DEF AtRate, HalfUp

TaxPolicies == [basic : Nat, sef : Nat, penalty : Nat]
ReceiptSums == [paid : Nat, discount : Nat, penalty : Nat]

LEMMA TaxType ==
    ASSUME NEW policy \in TaxPolicies, NEW assessed \in Nat
    PROVE  Principal(policy, assessed) \in Nat /\ Tax(policy, assessed) \in Nat
<1>1. policy.basic \in Nat /\ policy.sef \in Nat /\ policy.basic + policy.sef \in Nat
  BY DEF TaxPolicies
<1>2. /\ AtRate(policy.basic, assessed) \in Nat
      /\ AtRate(policy.sef, assessed) \in Nat
      /\ AtRate(policy.basic + policy.sef, assessed) \in Nat
  BY <1>1, AtRateType
<1> QED BY <1>2 DEF Principal, Tax

LEMMA MonthsType ==
    ASSUME NEW policy \in TaxPolicies, NEW month \in Int
    PROVE  policy.penalty * PenaltyMonths(month) \in Nat
<1>1. PenaltyMonths(month) \in Nat /\ policy.penalty \in Nat
  BY DEF PenaltyMonths, Least, Most, TaxPolicies
<1> QED BY <1>1

(* A year with nothing left to pay in one month has nothing left to pay in *)
(* any other: penalties accrue on unpaid principal alone.                  *)
THEOREM SettledStaysSettled ==
    ASSUME NEW policy \in TaxPolicies, NEW assessed \in Nat, NEW receipts \in ReceiptSums,
           NEW month \in Int, NEW other \in Int,
           Balance(policy, assessed, receipts, month) = 0
    PROVE  Balance(policy, assessed, receipts, other) = 0
<1> DEFINE P == Principal(policy, assessed)
           R == Remaining(policy, assessed, receipts)
           A(m) == AtRate(policy.penalty * PenaltyMonths(m), R)
<1>1. P \in Nat
  BY TaxType
<1>2. receipts.paid \in Nat /\ receipts.discount \in Nat /\ receipts.penalty \in Nat
  BY DEF ReceiptSums
<1>3. R \in Nat /\ R = Most(0, P - Most(0, receipts.paid + receipts.discount - receipts.penalty))
  BY <1>1, <1>2 DEF Remaining, Most
<1>4. \A m \in Int : A(m) \in Nat
  BY <1>3, MonthsType, AtRateType
<1>5. \A m \in Int : Balance(policy, assessed, receipts, m)
               = Most(0, (P + receipts.penalty + A(m) - receipts.discount) - receipts.paid)
  BY DEF Balance
<1> HIDE DEF P, R, A
<1>6. R = 0
  BY <1>1, <1>2, <1>3, <1>4, <1>5 DEF Most
<1>7. A(other) = 0
  BY <1>6, MonthsType, AtRateZero DEF A
<1>8. P + receipts.penalty <= receipts.discount + receipts.paid
  BY <1>1, <1>2, <1>4, <1>5 DEF Most
<1> QED BY <1>1, <1>2, <1>5, <1>7, <1>8 DEF Most

(* A receipt of the amount compute_payment quotes settles its year, and    *)
(* for good, whenever the rounding of the two rates apart comes to no less *)
(* than the rounding of their sum.                                         *)
THEOREM QuoteSettles ==
    ASSUME NEW policy \in TaxPolicies, NEW assessed \in Nat,
           NEW month \in Int, NEW later \in Int,
           Principal(policy, assessed) <= Tax(policy, assessed)
    PROVE  Balance(policy, assessed, Quote(policy, assessed, month), later) = 0
<1> DEFINE P == Principal(policy, assessed)
           T == Tax(policy, assessed)
           Q == Quote(policy, assessed, month)
           A == AtRate(policy.penalty * PenaltyMonths(later), Remaining(policy, assessed, Q))
<1>1. P \in Nat /\ T \in Nat /\ P <= T
  BY TaxType
<1>2. DiscountRate(month) \in Nat
  BY DEF DiscountRate
<1>3. Q.discount \in Nat
  BY <1>1, <1>2, AtRateType DEF Quote
<1>4. Q.penalty \in Nat
  BY <1>1, MonthsType, AtRateType DEF Quote
<1>5. Q.paid = T - Q.discount + Q.penalty
  BY DEF Quote
<1>6. Remaining(policy, assessed, Q) = Most(0, P - Most(0, Q.paid + Q.discount - Q.penalty))
  BY DEF Remaining
<1>7. Balance(policy, assessed, Q, later) = Most(0, (P + Q.penalty + A - Q.discount) - Q.paid)
  BY DEF Balance
<1> HIDE DEF P, T, Q
<1>8. Remaining(policy, assessed, Q) = 0
  BY <1>1, <1>3, <1>4, <1>5, <1>6 DEF Most
<1>9. A = 0
  BY <1>8, MonthsType, AtRateZero
<1> HIDE DEF A
<1> QED BY <1>1, <1>3, <1>4, <1>5, <1>7, <1>9 DEF Most, Q
=============================================================================
