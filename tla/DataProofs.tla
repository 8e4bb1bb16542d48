----------------------------- MODULE DataProofs -----------------------------
(***************************************************************************)
(* Lemmas about the data the models are built from: ranges of sequences,   *)
(* what the recursive definitions compute, sums over finite sets           *)
(* (SumFunctionOnSet) and selections from sequences (Only), and how often  *)
(* an element occurs in a sequence (Count).                                *)
(*                                                                         *)
(* The provers cannot instantiate an induction principle whose parameter   *)
(* is a predicate.  One whose parameter is the SET of the values that have *)
(* the property serves as well, and is first-order.                        *)
(***************************************************************************)
EXTENDS LogEntries, Functions, FiniteSetTheorems, TLAPS

----------------------------------------------------------------------------
(* Ranges of sequences.                                                    *)

\* Appending to a sequence adds one element to its range.
LEMMA RangeAppend ==
  ASSUME NEW S, NEW s \in Seq(S), NEW x \in S
  PROVE  Range(Append(s, x)) = Range(s) \cup {x}
  <1>1. /\ DOMAIN Append(s, x) = 1 .. Len(s) + 1
        /\ \A i \in 1 .. Len(s) : Append(s, x)[i] = s[i]
        /\ Append(s, x)[Len(s) + 1] = x
        /\ DOMAIN s = 1 .. Len(s) /\ Len(s) \in Nat
    OBVIOUS
  <1> QED BY <1>1 DEF Range

\* A sequence's range is its head and the range of its tail.
LEMMA RangeHeadTail ==
  ASSUME NEW S, NEW s \in Seq(S), s # <<>>
  PROVE  Range(s) = {Head(s)} \cup Range(Tail(s))
  <1>1. /\ DOMAIN Tail(s) = 1 .. Len(s) - 1
        /\ \A i \in 1 .. Len(s) - 1 : Tail(s)[i] = s[i + 1]
        /\ Head(s) = s[1]
        /\ DOMAIN s = 1 .. Len(s) /\ Len(s) \in Nat /\ Len(s) # 0
    OBVIOUS
  <1>2. \A i \in 1 .. Len(s) : i = 1 \/ (i - 1 \in 1 .. Len(s) - 1 /\ s[i] = Tail(s)[i - 1])
    BY <1>1
  <1>3. ASSUME NEW y \in Range(s) PROVE y \in {Head(s)} \cup Range(Tail(s))
    <2>1. PICK i \in 1 .. Len(s) : y = s[i]
      BY <1>1 DEF Range
    <2>2. CASE i = 1
      BY <1>1, <2>1, <2>2
    <2>3. CASE i # 1
      <3>1. i - 1 \in DOMAIN Tail(s) /\ y = Tail(s)[i - 1]
        BY <1>1, <1>2, <2>1, <2>3
      <3> QED BY <3>1 DEF Range
    <2> QED BY <2>2, <2>3
  <1>4. Head(s) \in Range(s)
    BY <1>1 DEF Range
  <1>5. ASSUME NEW y \in Range(Tail(s)) PROVE y \in Range(s)
    <2>1. PICK i \in 1 .. Len(s) - 1 : y = s[i + 1]
      BY <1>1 DEF Range
    <2>2. i + 1 \in DOMAIN s
      BY <1>1
    <2> QED BY <2>1, <2>2 DEF Range
  <1> QED BY <1>3, <1>4, <1>5

\* The range of the empty sequence is empty.
LEMMA RangeEmpty == Range(<<>>) = {}
  BY DEF Range

----------------------------------------------------------------------------
(* Induction.                                                              *)

\* A set of numbers that has 0, and n + 1 whenever it has n, has them all.
LEMMA NumberInduction ==
  ASSUME NEW G, 0 \in G, \A n \in Nat : n \in G => n + 1 \in G
  PROVE  Nat \subseteq G
  <1> DEFINE Bad == {n \in Nat : n \notin G}
             Less == OpToRel(<, Nat)
  <1>1. \A m, n \in Nat : m < n => <<m, n>> \in Less
    BY DEF OpToRel
  <1>2. IsWellFoundedOn(Less, Nat)
    BY NatLessThanWellFounded
  <1> HIDE DEF Less
  <1>3. ASSUME Bad # {} PROVE FALSE
    <2>1. Bad \subseteq Nat
      OBVIOUS
    <2> HIDE DEF Bad
    <2>2. PICK n \in Bad : \A m \in Bad : ~(<<m, n>> \in Less)
      BY <1>2, <1>3, <2>1, WFMin
    <2> USE DEF Bad
    <2>3. n \in Nat /\ n \notin G /\ n # 0
      OBVIOUS
    <2>4. n - 1 \in Nat /\ n - 1 < n /\ n = (n - 1) + 1
      BY <2>3
    <2>5. n - 1 \in G
      BY <1>1, <2>2, <2>3, <2>4
    <2> QED BY <2>3, <2>4, <2>5
  <1> QED BY <1>3

\* A set of sets that has every part of S whose proper parts it has, has S.
LEMMA PartInduction ==
  ASSUME NEW S, IsFiniteSet(S), NEW G,
         \A T \in SUBSET S : (\A U \in SUBSET T : U # T => U \in G) => T \in G
  PROVE  SUBSET S \subseteq G
  <1> DEFINE Bad == {T \in SUBSET S : T \notin G}
             Parts == StrictSubsetOrdering(S)
  <1>1. \A U, T \in SUBSET S : U \subseteq T /\ U # T => <<U, T>> \in Parts
    BY DEF StrictSubsetOrdering
  <1>2. IsWellFoundedOn(Parts, SUBSET S)
    BY FS_StrictSubsetOrderingWellFounded, FS_FiniteSubsetsOfFinite
  <1> HIDE DEF Parts
  <1>3. ASSUME Bad # {} PROVE FALSE
    <2>1. Bad \subseteq SUBSET S
      OBVIOUS
    <2> HIDE DEF Bad
    <2>2. PICK T \in Bad : \A U \in Bad : ~(<<U, T>> \in Parts)
      BY <1>2, <1>3, <2>1, WFMin
    <2> USE DEF Bad
    <2>3. T \in SUBSET S /\ T \notin G
      OBVIOUS
    <2>4. ASSUME NEW U \in SUBSET T, U # T PROVE U \in G
      <3>1. U \in SUBSET S /\ U \subseteq T
        BY <2>3
      <3>2. <<U, T>> \in Parts
        BY <1>1, <2>3, <2>4, <3>1
      <3>3. U \notin Bad
        BY <2>2, <3>2
      <3> QED BY <3>1, <3>3
    <2>5. \A U \in SUBSET T : U # T => U \in G
      BY <2>4
    <2> HIDE DEF Bad
    <2> QED BY <2>3, <2>5
  <1> QED BY <1>3

\* A set of sets that has {}, and T with one more element of S whenever it has
\* T, has S.
LEMMA ElementInduction ==
  ASSUME NEW S, IsFiniteSet(S), NEW G, {} \in G,
         \A T \in SUBSET S : \A x \in S \ T : T \in G => T \cup {x} \in G
  PROVE  S \in G
  <1>1. ASSUME NEW T \in SUBSET S, \A U \in SUBSET T : U # T => U \in G
        PROVE  T \in G
    <2>1. CASE T = {}
      BY <2>1
    <2>2. ASSUME NEW x \in T PROVE T \in G
      <3>1. T \ {x} \in SUBSET T /\ T \ {x} # T /\ x \in S \ (T \ {x})
              /\ (T \ {x}) \cup {x} = T /\ T \ {x} \in SUBSET S
        BY <2>2
      <3>2. T \ {x} \in G
        BY <1>1, <3>1
      <3> QED BY <3>1, <3>2
    <2> QED BY <2>1, <2>2
  <1>2. SUBSET S \subseteq G
    BY <1>1, PartInduction
  <1> QED BY <1>2

----------------------------------------------------------------------------
(* Sums.                                                                   *)

\* g is the function that SumFunctionOnSet(fun, S) recurses on.
Sums(fun, S, g) ==
  g = [s \in SUBSET S |-> IF s = {} THEN 0
                          ELSE fun[CHOOSE x \in s : TRUE] + g[s \ {CHOOSE x \in s : TRUE}]]

\* Two such functions agree where both are defined.
LEMMA SumsUnique ==
  ASSUME NEW fun, NEW S, NEW T, IsFiniteSet(T), T \subseteq S,
         NEW g, Sums(fun, S, g), NEW h, Sums(fun, T, h)
  PROVE  g[T] = h[T]
  <1> DEFINE G == {s \in SUBSET T : g[s] = h[s]}
  <1>1. ASSUME NEW s \in SUBSET T, \A u \in SUBSET s : u # s => u \in G
        PROVE  s \in G
    <2> DEFINE x == CHOOSE x \in s : TRUE
    <2>1. /\ g[s] = IF s = {} THEN 0 ELSE fun[x] + g[s \ {x}]
          /\ h[s] = IF s = {} THEN 0 ELSE fun[x] + h[s \ {x}]
      BY DEF Sums
    <2>2. s # {} => x \in s
      OBVIOUS
    <2> HIDE DEF x
    <2>3. s # {} => g[s \ {x}] = h[s \ {x}]
      BY <1>1, <2>2
    <2> QED BY <2>1, <2>3
  <1> HIDE DEF G
  <1>2. T \in G
    BY <1>1, PartInduction
  <1> QED BY <1>2 DEF G

\* There is such a function on a finite set.
LEMMA SumsExist ==
  ASSUME NEW fun, NEW S, IsFiniteSet(S)
  PROVE  \E g : Sums(fun, S, g)
  <1> DEFINE G == {T \in SUBSET S : \E g : Sums(fun, T, g)}
             V(T) == (CHOOSE g : Sums(fun, T, g))[T]
             c(s) == CHOOSE x \in s : TRUE
  <1>1. ASSUME NEW T \in SUBSET S, \A U \in SUBSET T : U # T => U \in G
        PROVE  T \in G
    <2>1. \A s \in SUBSET T : s # {} => c(s) \in s
      OBVIOUS
    <2>f. \A s \in SUBSET T : IsFiniteSet(s)
      BY FS_Subset
    <2>2. ASSUME NEW u \in SUBSET T, u # T
          PROVE  V(u) = IF u = {} THEN 0 ELSE fun[c(u)] + V(u \ {c(u)})
      <3>1. PICK h : h = CHOOSE g : Sums(fun, u, g)
        OBVIOUS
      <3>2. Sums(fun, u, h)
        BY <1>1, <2>2, <3>1
      <3>3. h[u] = IF u = {} THEN 0 ELSE fun[c(u)] + h[u \ {c(u)}]
        BY <3>2 DEF Sums
      <3>4. ASSUME u # {} PROVE h[u \ {c(u)}] = V(u \ {c(u)})
        <4>1. PICK w : w = u \ {c(u)}
          OBVIOUS
        <4>2. w \subseteq u /\ w \in SUBSET T /\ w # T
          BY <4>1, <2>1, <3>4
        <4>3. PICK k : k = CHOOSE g : Sums(fun, w, g)
          OBVIOUS
        <4>4. Sums(fun, w, k)
          BY <1>1, <4>2, <4>3
        <4>5. h[w] = k[w]
          BY <2>f, <3>2, <4>2, <4>4, SumsUnique
        <4> QED BY <4>1, <4>3, <4>5
      <3>5. V(u) = h[u]
        BY <3>1
      <3> HIDE DEF V, c
      <3> QED BY <3>3, <3>4, <3>5
    <2> HIDE DEF V
    <2>3. PICK g : g = [s \in SUBSET T |-> IF s = {} THEN 0 ELSE fun[c(s)] + V(s \ {c(s)})]
      OBVIOUS
    <2>4. ASSUME NEW s \in SUBSET T, s # {} PROVE g[s \ {c(s)}] = V(s \ {c(s)})
      <3>1. PICK u : u = s \ {c(s)}
        OBVIOUS
      <3>2. u \in SUBSET T /\ u # T
        BY <2>1, <2>4, <3>1
      <3>3. g[u] = IF u = {} THEN 0 ELSE fun[c(u)] + V(u \ {c(u)})
        BY <2>3, <3>2
      <3> HIDE DEF c
      <3> QED BY <2>2, <3>1, <3>2, <3>3
    <2>5. g = [s \in SUBSET T |-> IF s = {} THEN 0 ELSE fun[c(s)] + g[s \ {c(s)}]]
      <3> HIDE DEF c
      <3> QED BY <2>3, <2>4
    <2>6. Sums(fun, T, g)
      BY <2>5 DEF Sums
    <2> QED BY <2>6
  <1> HIDE DEF G
  <1>2. S \in G
    BY <1>1, PartInduction
  <1> QED BY <1>2 DEF G

\* The defining equation of a sum.
LEMMA SumEquation ==
  ASSUME NEW fun, NEW S, IsFiniteSet(S)
  PROVE  /\ S = {} => SumFunctionOnSet(fun, S) = 0
         /\ S # {} => \E x \in S :
              SumFunctionOnSet(fun, S) = fun[x] + SumFunctionOnSet(fun, S \ {x})
  <1> DEFINE g(T) == CHOOSE h : Sums(fun, T, h)
  <1>1. \A T : SumFunctionOnSet(fun, T) = g(T)[T]
    BY DEF SumFunctionOnSet, FoldFunctionOnSet, MapThenFoldSet, Sums
  <1>2. \A T : IsFiniteSet(T) => Sums(fun, T, g(T))
    BY SumsExist
  <1>3. g(S)[S] = IF S = {} THEN 0
                  ELSE fun[CHOOSE x \in S : TRUE] + g(S)[S \ {CHOOSE x \in S : TRUE}]
    <2>1. Sums(fun, S, g(S))
      BY <1>2
    <2> HIDE DEF g
    <2>2. S \in SUBSET S
      OBVIOUS
    <2> QED BY <2>1, <2>2 DEF Sums
  <1> HIDE DEF g
  <1>4. \A x : g(S)[S \ {x}] = g(S \ {x})[S \ {x}]
    <2> TAKE x
    <2>1. IsFiniteSet(S \ {x}) /\ S \ {x} \subseteq S
      BY FS_RemoveElement
    <2> QED BY <1>2, <2>1, SumsUnique
  <1>5. S # {} => (CHOOSE x \in S : TRUE) \in S
    OBVIOUS
  <1> QED BY <1>1, <1>3, <1>4, <1>5

\* A sum of numbers is a number.
LEMMA SumType ==
  ASSUME NEW S, IsFiniteSet(S), NEW fun, \A x \in S : fun[x] \in Nat
  PROVE  SumFunctionOnSet(fun, S) \in Nat
  <1> DEFINE G == {T \in SUBSET S : SumFunctionOnSet(fun, T) \in Nat}
  <1>1. ASSUME NEW T \in SUBSET S, \A U \in SUBSET T : U # T => U \in G
        PROVE  T \in G
    <2>1. IsFiniteSet(T)
      BY FS_Subset
    <2>2. CASE T = {}
      BY <2>1, <2>2, SumEquation
    <2>3. CASE T # {}
      <3>1. PICK x \in T :
              SumFunctionOnSet(fun, T) = fun[x] + SumFunctionOnSet(fun, T \ {x})
        BY <2>1, <2>3, SumEquation
      <3>2. T \ {x} \in SUBSET T /\ T \ {x} # T
        OBVIOUS
      <3>3. SumFunctionOnSet(fun, T \ {x}) \in Nat
        BY <1>1, <3>2
      <3> QED BY <3>1, <3>3
    <2> QED BY <2>2, <2>3
  <1> HIDE DEF G
  <1>2. S \in G
    BY <1>1, PartInduction
  <1> QED BY <1>2 DEF G

\* Any element may be taken out first.
LEMMA SumRemove ==
  ASSUME NEW S, IsFiniteSet(S), NEW fun, \A x \in S : fun[x] \in Nat, NEW y \in S
  PROVE  SumFunctionOnSet(fun, S) = fun[y] + SumFunctionOnSet(fun, S \ {y})
  <1> DEFINE Sum(T) == SumFunctionOnSet(fun, T)
             G == {T \in SUBSET S : \A z \in T : Sum(T) = fun[z] + Sum(T \ {z})}
  <1>t. \A T \in SUBSET S : IsFiniteSet(T) /\ Sum(T) \in Nat
    BY FS_Subset, SumType
  <1>e. \A T \in SUBSET S : T # {} => \E x \in T : Sum(T) = fun[x] + Sum(T \ {x})
    BY <1>t, SumEquation
  <1> HIDE DEF Sum
  <1>1. ASSUME NEW T \in SUBSET S, \A U \in SUBSET T : U # T => U \in G
        PROVE  T \in G
    <2>1. ASSUME NEW z \in T PROVE Sum(T) = fun[z] + Sum(T \ {z})
      <3>1. PICK x \in T : Sum(T) = fun[x] + Sum(T \ {x})
        BY <1>e
      <3>2. CASE x = z
        BY <3>1, <3>2
      <3>3. CASE x # z
        <4>1. PICK U : U = (T \ {x}) \ {z}
          OBVIOUS
        <4>2. /\ T \ {x} \in SUBSET T /\ T \ {x} # T /\ z \in T \ {x}
              /\ T \ {z} \in SUBSET T /\ T \ {z} # T /\ x \in T \ {z}
              /\ (T \ {z}) \ {x} = U /\ U \in SUBSET S
          BY <3>3, <4>1
        <4>3. Sum(T \ {x}) = fun[z] + Sum(U)
          BY <1>1, <4>1, <4>2
        <4>4. Sum(T \ {z}) = fun[x] + Sum(U)
          BY <1>1, <4>2
        <4>5. fun[x] \in Nat /\ fun[z] \in Nat /\ Sum(U) \in Nat
          BY <1>t, <4>2
        <4> HIDE DEF G
        <4> QED BY <3>1, <4>3, <4>4, <4>5
      <3> QED BY <3>2, <3>3
    <2> QED BY <2>1
  <1> HIDE DEF G
  <1>2. S \in G
    BY <1>1, PartInduction
  <1> QED BY <1>2 DEF G, Sum

\* What a sum gains with one more element.
LEMMA SumAdd ==
  ASSUME NEW S, IsFiniteSet(S), NEW x, x \notin S,
         NEW fun, \A y \in S \cup {x} : fun[y] \in Nat
  PROVE  SumFunctionOnSet(fun, S \cup {x}) = SumFunctionOnSet(fun, S) + fun[x]
  <1>1. IsFiniteSet(S \cup {x}) /\ (S \cup {x}) \ {x} = S /\ x \in S \cup {x}
    BY FS_AddElement
  <1>2. SumFunctionOnSet(fun, S \cup {x}) = fun[x] + SumFunctionOnSet(fun, S)
    BY <1>1, SumRemove
  <1>3. SumFunctionOnSet(fun, S) \in Nat /\ fun[x] \in Nat
    BY SumType
  <1> QED BY <1>2, <1>3

\* Sums are compared term by term.
LEMMA SumCompare ==
  ASSUME NEW S, IsFiniteSet(S),
         NEW f, \A x \in S : f[x] \in Nat, NEW g, \A x \in S : g[x] \in Nat,
         \A x \in S : f[x] <= g[x]
  PROVE  SumFunctionOnSet(f, S) <= SumFunctionOnSet(g, S)
  <1> DEFINE F(T) == SumFunctionOnSet(f, T)
             H(T) == SumFunctionOnSet(g, T)
             G == {T \in SUBSET S : F(T) <= H(T)}
  <1>1. {} \in G
    BY FS_EmptySet, SumEquation
  <1>2. ASSUME NEW T \in SUBSET S, NEW x \in S \ T, T \in G
        PROVE  T \cup {x} \in G
    <2>1. IsFiniteSet(T)
      BY FS_Subset
    <2>2. F(T \cup {x}) = F(T) + f[x] /\ H(T \cup {x}) = H(T) + g[x]
      BY <2>1, SumAdd
    <2>3. F(T) \in Nat /\ H(T) \in Nat
      BY <2>1, SumType
    <2> HIDE DEF F, H
    <2> QED BY <1>2, <2>2, <2>3
  <1> HIDE DEF G
  <1>3. S \in G
    BY <1>1, <1>2, ElementInduction
  <1> QED BY <1>3 DEF G

\* The sum of h is the sum of f and that of g, when it is so term by term.
LEMMA SumPlus ==
  ASSUME NEW S, IsFiniteSet(S),
         NEW f, \A x \in S : f[x] \in Nat, NEW g, \A x \in S : g[x] \in Nat,
         NEW h, \A x \in S : h[x] = f[x] + g[x]
  PROVE  SumFunctionOnSet(h, S) = SumFunctionOnSet(f, S) + SumFunctionOnSet(g, S)
  <1> DEFINE F(T) == SumFunctionOnSet(f, T)
             H(T) == SumFunctionOnSet(g, T)
             K(T) == SumFunctionOnSet(h, T)
             G == {T \in SUBSET S : K(T) = F(T) + H(T)}
  <1>n. \A x \in S : h[x] \in Nat
    OBVIOUS
  <1>1. {} \in G
    <2>1. K({}) = 0 /\ F({}) = 0 /\ H({}) = 0
      BY FS_EmptySet, SumEquation
    <2> HIDE DEF F, H, K
    <2> QED BY <2>1
  <1>2. ASSUME NEW T \in SUBSET S, NEW x \in S \ T, T \in G
        PROVE  T \cup {x} \in G
    <2>1. IsFiniteSet(T)
      BY FS_Subset
    <2>2. /\ F(T \cup {x}) = F(T) + f[x] /\ H(T \cup {x}) = H(T) + g[x]
          /\ K(T \cup {x}) = K(T) + h[x]
      BY <1>n, <2>1, SumAdd
    <2>3. F(T) \in Nat /\ H(T) \in Nat
      BY <2>1, SumType
    <2> HIDE DEF F, H, K
    <2> QED BY <1>2, <2>2, <2>3
  <1> HIDE DEF G
  <1>3. S \in G
    BY <1>1, <1>2, ElementInduction
  <1> QED BY <1>3 DEF G

\* A sum over more is no less; the same when what is added counts nothing.
LEMMA SumMore ==
  ASSUME NEW S, IsFiniteSet(S), NEW R \in SUBSET S,
         NEW fun, \A x \in S : fun[x] \in Nat
  PROVE  /\ SumFunctionOnSet(fun, R) <= SumFunctionOnSet(fun, S)
         /\ (\A x \in S \ R : fun[x] = 0)
              => SumFunctionOnSet(fun, S) = SumFunctionOnSet(fun, R)
  <1> DEFINE Sum(T) == SumFunctionOnSet(fun, T)
             W == S \ R
             G == {T \in SUBSET W : /\ Sum(R) <= Sum(R \cup T)
                                    /\ (\A x \in W : fun[x] = 0) => Sum(R \cup T) = Sum(R)}
  <1>f. IsFiniteSet(W) /\ \A T \in SUBSET W : IsFiniteSet(R \cup T) /\ Sum(R \cup T) \in Nat
    BY FS_Subset, SumType
  <1>1. {} \in G
    <2>1. R \cup {} = R
      OBVIOUS
    <2>2. Sum(R) \in Nat
      BY <1>f, <2>1
    <2> HIDE DEF Sum
    <2> QED BY <2>1, <2>2
  <1>2. ASSUME NEW T \in SUBSET W, NEW x \in W \ T, T \in G
        PROVE  T \cup {x} \in G
    <2>1. x \notin R \cup T /\ R \cup (T \cup {x}) = (R \cup T) \cup {x} /\ x \in S
      OBVIOUS
    <2>2. Sum((R \cup T) \cup {x}) = Sum(R \cup T) + fun[x]
      BY <1>f, <2>1, SumAdd
    <2>3. Sum(R \cup T) \in Nat /\ Sum(R) \in Nat /\ fun[x] \in Nat
      <3>1. R \cup {} = R
        OBVIOUS
      <3> QED BY <1>f, <2>1, <3>1
    <2> HIDE DEF Sum
    <2>4. Sum(R) <= Sum(R \cup T) /\ ((\A y \in W : fun[y] = 0) => Sum(R \cup T) = Sum(R))
      BY <1>2
    <2>5. Sum(R) <= Sum(R \cup (T \cup {x}))
      BY <2>1, <2>2, <2>3, <2>4
    <2>6. ASSUME \A y \in W : fun[y] = 0 PROVE Sum(R \cup (T \cup {x})) = Sum(R)
      <3>1. fun[x] = 0
        BY <2>6
      <3>2. Sum(R \cup T) = Sum(R)
        BY <2>4, <2>6
      <3>3. Sum(R \cup (T \cup {x})) = Sum((R \cup T) \cup {x})
        BY <2>1, Zenon
      <3> QED BY <2>2, <2>3, <3>1, <3>2, <3>3
    <2>7. T \cup {x} \in SUBSET W
      OBVIOUS
    <2> QED BY <2>5, <2>6, <2>7
  <1> HIDE DEF G
  <1>3. W \in G
    BY <1>f, <1>1, <1>2, ElementInduction
  <1>4. R \cup W = S
    OBVIOUS
  <1> HIDE DEF Sum
  <1>5. Sum(R) <= Sum(S) /\ ((\A x \in W : fun[x] = 0) => Sum(S) = Sum(R))
    BY <1>3, <1>4 DEF G
  <1> QED BY <1>5 DEF Sum

----------------------------------------------------------------------------
(* Selections.                                                             *)

\* f is the function that Only recurses on, up to n.
Takes(q, S, n, f) ==
  f = [i \in 0 .. n |-> IF i = 0 THEN <<>>
                        ELSE IF q[i] \in S THEN Append(f[i - 1], q[i]) ELSE f[i - 1]]

\* There is such a function.
LEMMA TakesExist ==
  ASSUME NEW q, NEW S, NEW n \in Nat
  PROVE  \E f : Takes(q, S, n, f)
  <1> DEFINE G == {m \in Nat : \E f : Takes(q, S, m, f)}
  <1>1. 0 \in G
    <2>1. PICK f : f = [i \in 0 .. 0 |-> <<>>]
      OBVIOUS
    <2>2. Takes(q, S, 0, f)
      BY <2>1 DEF Takes
    <2> QED BY <2>2
  <1>2. ASSUME NEW m \in Nat, m \in G PROVE m + 1 \in G
    <2>1. PICK f : Takes(q, S, m, f)
      BY <1>2
    <2>2. PICK x : x = IF q[m + 1] \in S THEN Append(f[m], q[m + 1]) ELSE f[m]
      OBVIOUS
    <2>3. PICK g : g = [i \in 0 .. m + 1 |-> IF i = m + 1 THEN x ELSE f[i]]
      OBVIOUS
    <2>4. ASSUME NEW i \in 0 .. m + 1
          PROVE  g[i] = IF i = 0 THEN <<>>
                        ELSE IF q[i] \in S THEN Append(g[i - 1], q[i]) ELSE g[i - 1]
      <3>1. CASE i = m + 1
        <4>1. g[i - 1] = f[m] /\ g[i] = x /\ i # 0
          BY <2>3, <3>1
        <4> QED BY <2>2, <3>1, <4>1
      <3>2. CASE i # m + 1
        <4>1. i \in 0 .. m /\ g[i] = f[i]
          BY <2>3, <3>2
        <4>2. f[i] = IF i = 0 THEN <<>>
                     ELSE IF q[i] \in S THEN Append(f[i - 1], q[i]) ELSE f[i - 1]
          BY <2>1, <4>1 DEF Takes
        <4>3. i # 0 => g[i - 1] = f[i - 1]
          BY <2>3, <4>1
        <4> QED BY <4>1, <4>2, <4>3
      <3> QED BY <3>1, <3>2
    <2>5. Takes(q, S, m + 1, g)
      BY <2>3, <2>4 DEF Takes
    <2> QED BY <2>5
  <1> HIDE DEF G
  <1>3. n \in G
    BY <1>1, <1>2, NumberInduction
  <1> QED BY <1>3 DEF G

\* It depends on no more than the positions below n and how they are tested.
LEMMA TakesAgree ==
  ASSUME NEW q, NEW S, NEW m \in Nat, NEW f, Takes(q, S, m, f),
         NEW r, NEW R, NEW n \in Nat, NEW g, Takes(r, R, n, g),
         n <= m, \A i \in 1 .. n : q[i] = r[i] /\ (q[i] \in S <=> r[i] \in R)
  PROVE  f[n] = g[n]
  <1> DEFINE G == {i \in Nat : i <= n => f[i] = g[i]}
  <1>1. 0 \in G
    BY DEF Takes
  <1>2. ASSUME NEW i \in Nat, i \in G PROVE i + 1 \in G
    <2> SUFFICES ASSUME i + 1 <= n PROVE f[i + 1] = g[i + 1]
      OBVIOUS
    <2>1. /\ i + 1 \in 0 .. m /\ i + 1 \in 0 .. n /\ i + 1 \in 1 .. n
          /\ i + 1 # 0 /\ (i + 1) - 1 = i
      OBVIOUS
    <2>2. /\ f[i + 1] = IF q[i + 1] \in S THEN Append(f[i], q[i + 1]) ELSE f[i]
          /\ g[i + 1] = IF r[i + 1] \in R THEN Append(g[i], r[i + 1]) ELSE g[i]
      BY <2>1 DEF Takes
    <2>3. f[i] = g[i]
      BY <1>2
    <2> QED BY <2>1, <2>2, <2>3
  <1> HIDE DEF G
  <1>3. n \in G
    BY <1>1, <1>2, NumberInduction
  <1> QED BY <1>3 DEF G

\* Only is the last value of such a function.
LEMMA OnlyTakes ==
  ASSUME NEW q, NEW S, Len(q) \in Nat
  PROVE  \E f : Takes(q, S, Len(q), f) /\ Only(q, S) = f[Len(q)]
  <1>1. Only(q, S) = (CHOOSE f : Takes(q, S, Len(q), f))[Len(q)]
    BY DEF Only, Takes
  <1> QED BY <1>1, TakesExist

\* Nothing is selected from nothing.
LEMMA OnlyEmpty == ASSUME NEW S PROVE Only(<<>>, S) = <<>>
  <1>1. Len(<<>>) = 0
    OBVIOUS
  <1>2. PICK f : Takes(<<>>, S, 0, f) /\ Only(<<>>, S) = f[0]
    BY <1>1, OnlyTakes
  <1> QED BY <1>2 DEF Takes

\* What is selected from a sequence with one more element.
LEMMA OnlyAppend ==
  ASSUME NEW T, NEW q \in Seq(T), NEW x \in T, NEW S
  PROVE  Only(Append(q, x), S) = IF x \in S THEN Append(Only(q, S), x) ELSE Only(q, S)
  <1>1. PICK p, n : p = Append(q, x) /\ n = Len(q)
    OBVIOUS
  <1>2. n \in Nat /\ Len(p) = n + 1 /\ p[n + 1] = x /\ \A i \in 1 .. n : p[i] = q[i]
    BY <1>1
  <1>3. PICK f : Takes(p, S, n + 1, f) /\ Only(p, S) = f[n + 1]
    BY <1>2, OnlyTakes
  <1>4. PICK g : Takes(q, S, n, g) /\ Only(q, S) = g[n]
    BY <1>1, <1>2, OnlyTakes
  <1>5. f[n] = g[n]
    BY <1>2, <1>3, <1>4, TakesAgree
  <1>6. n + 1 \in 0 .. n + 1 /\ n + 1 # 0 /\ (n + 1) - 1 = n
    BY <1>2
  <1>7. f[n + 1] = IF p[n + 1] \in S THEN Append(f[n], p[n + 1]) ELSE f[n]
    BY <1>3, <1>6 DEF Takes
  <1> QED BY <1>1, <1>2, <1>3, <1>4, <1>5, <1>7

\* Two sets with the same elements of q select the same from it.
LEMMA OnlySame ==
  ASSUME NEW T, NEW q \in Seq(T), NEW S, NEW R, \A x \in Range(q) : x \in S <=> x \in R
  PROVE  Only(q, S) = Only(q, R)
  <1>1. Len(q) \in Nat /\ \A i \in 1 .. Len(q) : q[i] \in S <=> q[i] \in R
    BY DEF Range
  <1>2. PICK f : Takes(q, S, Len(q), f) /\ Only(q, S) = f[Len(q)]
    BY <1>1, OnlyTakes
  <1>3. PICK g : Takes(q, R, Len(q), g) /\ Only(q, R) = g[Len(q)]
    BY <1>1, OnlyTakes
  <1> QED BY <1>1, <1>2, <1>3, TakesAgree

\* What is selected is a sequence, and in S.
LEMMA OnlyType ==
  ASSUME NEW T, NEW q \in Seq(T), NEW S
  PROVE  Only(q, S) \in Seq(T \cap S)
  <1>1. Len(q) \in Nat
    OBVIOUS
  <1>2. PICK f : Takes(q, S, Len(q), f) /\ Only(q, S) = f[Len(q)]
    BY <1>1, OnlyTakes
  <1> DEFINE G == {i \in Nat : i <= Len(q) => f[i] \in Seq(T \cap S)}
  <1>3. 0 \in G
    BY <1>1, <1>2 DEF Takes
  <1>4. ASSUME NEW i \in Nat, i \in G PROVE i + 1 \in G
    <2> SUFFICES ASSUME i + 1 <= Len(q) PROVE f[i + 1] \in Seq(T \cap S)
      OBVIOUS
    <2>1. /\ i + 1 \in 0 .. Len(q) /\ i + 1 # 0 /\ (i + 1) - 1 = i
          /\ q[i + 1] \in T
      BY <1>1
    <2>2. f[i + 1] = IF q[i + 1] \in S THEN Append(f[i], q[i + 1]) ELSE f[i]
      BY <1>2, <2>1 DEF Takes
    <2>3. f[i] \in Seq(T \cap S)
      BY <1>1, <1>4
    <2> QED BY <2>1, <2>2, <2>3
  <1> HIDE DEF G
  <1>5. Len(q) \in G
    BY <1>1, <1>3, <1>4, NumberInduction
  <1> QED BY <1>2, <1>5 DEF G

----------------------------------------------------------------------------
(* Occurrences.                                                            *)

\* Two sets without a common element.
LEMMA DisjointSizes ==
  ASSUME NEW S, IsFiniteSet(S), NEW T, IsFiniteSet(T), S \cap T = {}
  PROVE  /\ Cardinality(S) \in Nat /\ Cardinality(T) \in Nat
         /\ Cardinality(S \cup T) = Cardinality(S) + Cardinality(T)
  <1>1. Cardinality(S \cup T) = Cardinality(S) + Cardinality(T) - Cardinality(S \cap T)
    BY FS_Union
  <1>2. Cardinality(S \cap T) = 0
    BY FS_EmptySet
  <1>3. Cardinality(S) \in Nat /\ Cardinality(T) \in Nat
    BY FS_CardinalityType
  <1> QED BY <1>1, <1>2, <1>3

\* A set of positions is finite, and so is the part of it that holds x.
LEMMA PositionsFinite ==
  ASSUME NEW n \in Nat, NEW I \in SUBSET (1 .. n), NEW q, NEW x
  PROVE  /\ IsFiniteSet(I) /\ IsFiniteSet({i \in I : q[i] = x})
         /\ Cardinality(I) \in Nat /\ CountAt(q, I, x) \in Nat
  <1>1. IsFiniteSet(1 .. n)
    BY FS_Interval
  <1>2. IsFiniteSet(I)
    BY <1>1, FS_Subset
  <1>3. IsFiniteSet({i \in I : q[i] = x})
    BY <1>2, FS_Subset
  <1> QED BY <1>2, <1>3, FS_CardinalityType DEF CountAt

LEMMA CountType ==
  ASSUME NEW T, NEW q \in Seq(T), NEW x
  PROVE  Count(q, x) \in Nat
  <1>1. DOMAIN q = 1 .. Len(q) /\ Len(q) \in Nat
    OBVIOUS
  <1> QED BY <1>1, PositionsFinite DEF Count

\* The empty sequence, and one without x, hold it no times.
LEMMA CountNone ==
  ASSUME NEW q, NEW x, x \notin Range(q)
  PROVE  Count(q, x) = 0
  <1>1. {i \in DOMAIN q : q[i] = x} = {}
    BY DEF Range
  <1> QED BY <1>1, FS_EmptySet DEF Count, CountAt

\* p is the part of q that begins after n, m long.
LEMMA CountShift ==
  ASSUME NEW p, NEW q, NEW n \in Nat, NEW m \in Nat, NEW x,
         DOMAIN p = 1 .. m, \A i \in 1 .. m : p[i] = q[n + i]
  PROVE  CountAt(q, n + 1 .. n + m, x) = Count(p, x)
  <1> DEFINE A == {i \in 1 .. m : p[i] = x}
             B == {i \in n + 1 .. n + m : q[i] = x}
             f == [i \in A |-> n + i]
  <1>1. ASSUME NEW i \in A PROVE f[i] \in B
    BY <1>1
  <1>2. ASSUME NEW k \in B PROVE \E i \in A : f[i] = k
    <2>1. k - n \in 1 .. m /\ n + (k - n) = k
      BY <1>2
    <2>2. k - n \in A
      BY <1>2, <2>1
    <2> QED BY <2>1, <2>2
  <1>3. \A i, k \in A : f[i] = f[k] => i = k
    OBVIOUS
  <1>4. f \in [A -> B]
    BY <1>1
  <1>5. IsFiniteSet(A)
    BY PositionsFinite
  <1>6. Count(p, x) = Cardinality(A) /\ CountAt(q, n + 1 .. n + m, x) = Cardinality(B)
    BY DEF Count, CountAt
  <1> HIDE DEF A, B, f
  <1>7. f \in Bijection(A, B)
    BY <1>2, <1>3, <1>4 DEF Bijection, Injection, Surjection, IsInjective
  <1>8. ExistsBijection(A, B)
    BY <1>7 DEF ExistsBijection
  <1>9. Cardinality(B) = Cardinality(A)
    BY <1>5, <1>8, FS_Bijection
  <1> QED BY <1>6, <1>9

\* How often x occurs in the first n positions of a sequence and after them.
LEMMA CountSplit ==
  ASSUME NEW q, NEW n \in Nat, NEW m \in Nat, DOMAIN q = 1 .. n + m, NEW x
  PROVE  Count(q, x) = CountAt(q, 1 .. n, x) + CountAt(q, n + 1 .. n + m, x)
  <1> DEFINE A == {i \in 1 .. n : q[i] = x}
             B == {i \in n + 1 .. n + m : q[i] = x}
  <1>1. A \cap B = {}
    OBVIOUS
  <1>2. {i \in DOMAIN q : q[i] = x} = A \cup B
    OBVIOUS
  <1>3. IsFiniteSet(A)
    BY PositionsFinite
  <1>4. IsFiniteSet(B)
    <2>1. n + m \in Nat /\ (n + 1 .. n + m) \in SUBSET (1 .. n + m)
      OBVIOUS
    <2> QED BY <2>1, PositionsFinite
  <1>5. Count(q, x) = Cardinality(A \cup B)
    BY <1>2 DEF Count, CountAt
  <1>6. CountAt(q, 1 .. n, x) = Cardinality(A) /\ CountAt(q, n + 1 .. n + m, x) = Cardinality(B)
    BY DEF CountAt
  <1> HIDE DEF A, B
  <1>7. Cardinality(A \cup B) = Cardinality(A) + Cardinality(B)
    BY <1>1, <1>3, <1>4, DisjointSizes
  <1> QED BY <1>5, <1>6, <1>7

\* Occurrences in a concatenation.
LEMMA CountConcat ==
  ASSUME NEW T, NEW p \in Seq(T), NEW q \in Seq(T), NEW x
  PROVE  Count(p \o q, x) = Count(p, x) + Count(q, x)
  <1>1. PICK r, n, m : r = p \o q /\ n = Len(p) /\ m = Len(q)
    OBVIOUS
  <1>2. n \in Nat /\ m \in Nat /\ DOMAIN r = 1 .. n + m
    BY <1>1
  <1>s. /\ DOMAIN p = 1 .. n /\ DOMAIN q = 1 .. m
        /\ \A i \in 1 .. n : p[i] = r[i]
        /\ \A i \in 1 .. m : q[i] = r[n + i]
    BY <1>1
  <1>3. Count(r, x) = CountAt(r, 1 .. n, x) + CountAt(r, n + 1 .. n + m, x)
    BY <1>2, CountSplit
  <1>4. CountAt(r, n + 1 .. n + m, x) = Count(q, x)
    BY <1>2, <1>s, CountShift
  <1>5. {i \in 1 .. n : r[i] = x} = {i \in DOMAIN p : p[i] = x}
    BY <1>s
  <1>6. CountAt(r, 1 .. n, x) = Count(p, x)
    BY <1>5 DEF Count, CountAt
  <1> QED BY <1>1, <1>3, <1>4, <1>6

\* Occurrences in a sequence whose first n elements are taken off it, those at
\* the positions in I for one purpose and the others for another.
LEMMA CountTaken ==
  ASSUME NEW T, NEW q \in Seq(T), NEW n \in 0 .. Len(q), NEW I \in SUBSET (1 .. n), NEW x
  PROVE  Count(q, x) = CountAt(q, I, x) + CountAt(q, (1 .. n) \ I, x)
                         + Count(SubSeq(q, n + 1, Len(q)), x)
  <1>1. PICK m, r : m = Len(q) - n /\ r = SubSeq(q, n + 1, Len(q))
    OBVIOUS
  <1>2. /\ n \in Nat /\ m \in Nat /\ DOMAIN q = 1 .. n + m
        /\ DOMAIN r = 1 .. m /\ \A i \in 1 .. m : r[i] = q[n + i]
    BY <1>1
  <1>4. Count(q, x) = CountAt(q, 1 .. n, x) + CountAt(q, n + 1 .. n + m, x)
    BY <1>2, CountSplit
  <1>5. CountAt(q, n + 1 .. n + m, x) = Count(r, x)
    BY <1>2, CountShift
  <1> DEFINE A == {i \in I : q[i] = x}
             B == {i \in (1 .. n) \ I : q[i] = x}
  <1>6. {i \in 1 .. n : q[i] = x} = A \cup B /\ A \cap B = {}
    OBVIOUS
  <1>7. IsFiniteSet(A) /\ IsFiniteSet(B)
    BY <1>2, PositionsFinite
  <1>8. CountAt(q, 1 .. n, x) = Cardinality(A \cup B)
    BY <1>6, Zenon DEF CountAt
  <1>9. CountAt(q, I, x) = Cardinality(A) /\ CountAt(q, (1 .. n) \ I, x) = Cardinality(B)
    BY DEF CountAt
  <1> HIDE DEF A, B
  <1>10. Cardinality(A \cup B) = Cardinality(A) + Cardinality(B)
    BY <1>6, <1>7, DisjointSizes
  <1> QED BY <1>1, <1>4, <1>5, <1>8, <1>9, <1>10

\* Where every term is 0 the sum is, and where one is 1 and the others are 0 it is 1.
LEMMA SumFew ==
  ASSUME NEW S, IsFiniteSet(S), NEW fun
  PROVE  /\ (\A x \in S : fun[x] = 0) => SumFunctionOnSet(fun, S) = 0
         /\ \A y \in S : fun[y] = 1 /\ (\A x \in S \ {y} : fun[x] = 0)
                           => SumFunctionOnSet(fun, S) = 1
  <1>1. ASSUME NEW R, IsFiniteSet(R), \A x \in R : fun[x] = 0
        PROVE  SumFunctionOnSet(fun, R) = 0
    <2>1. SumFunctionOnSet(fun, {}) = 0
      BY FS_EmptySet, SumEquation
    <2>2. {} \in SUBSET R /\ \A x \in R : fun[x] \in Nat
      BY <1>1
    <2>3. \A x \in R \ {} : fun[x] = 0
      BY <1>1
    <2> QED BY <1>1, <2>1, <2>2, <2>3, SumMore
  <1>2. ASSUME NEW y \in S, fun[y] = 1, \A x \in S \ {y} : fun[x] = 0
        PROVE  SumFunctionOnSet(fun, S) = 1
    <2>1. \A x \in S : fun[x] \in Nat
      BY <1>2
    <2>2. SumFunctionOnSet(fun, S) = fun[y] + SumFunctionOnSet(fun, S \ {y})
      BY <2>1, SumRemove
    <2>3. IsFiniteSet(S \ {y})
      BY FS_RemoveElement
    <2>4. SumFunctionOnSet(fun, S \ {y}) = 0
      BY <1>1, <1>2, <2>3
    <2> QED BY <1>2, <2>2, <2>4
  <1> QED BY <1>1, <1>2

\* The occurrences of all elements, together, are the positions.
LEMMA SumOccurrences ==
  ASSUME NEW S, IsFiniteSet(S), NEW I, IsFiniteSet(I), NEW q, \A i \in I : q[i] \in S
  PROVE  SumFunctionOnSet([x \in S |-> CountAt(q, I, x)], S) = Cardinality(I)
  <1> DEFINE F(J) == [x \in S |-> CountAt(q, J, x)]
             G == {J \in SUBSET I : SumFunctionOnSet(F(J), S) = Cardinality(J)}
  <1>t. ASSUME NEW J \in SUBSET I, NEW x
        PROVE  IsFiniteSet({i \in J : q[i] = x}) /\ CountAt(q, J, x) \in Nat
    <2>1. {i \in J : q[i] = x} \in SUBSET I
      OBVIOUS
    <2>2. IsFiniteSet({i \in J : q[i] = x})
      BY <2>1, FS_Subset
    <2> QED BY <2>2, FS_CardinalityType DEF CountAt
  <1>1. {} \in G
    <2>1. \A x \in S : F({})[x] = 0
      <3>1. \A x \in S : {i \in {} : q[i] = x} = {}
        OBVIOUS
      <3> QED BY <3>1, FS_EmptySet DEF CountAt
    <2> HIDE DEF F
    <2>2. SumFunctionOnSet(F({}), S) = 0
      BY <2>1, SumFew
    <2> QED BY <2>2, FS_EmptySet
  <1>2. ASSUME NEW J \in SUBSET I, NEW k \in I \ J, J \in G
        PROVE  J \cup {k} \in G
    <2>1. PICK K : K = J \cup {k}
      OBVIOUS
    <2>2. K \in SUBSET I
      BY <2>1
    <2>3. PICK one : one = [x \in S |-> IF x = q[k] THEN 1 ELSE 0]
      OBVIOUS
    <2>4. ASSUME NEW x \in S PROVE CountAt(q, K, x) = CountAt(q, J, x) + one[x]
      <3>a. PICK A, B : A = {i \in J : q[i] = x} /\ B = {i \in K : q[i] = x}
        OBVIOUS
      <3>b. CountAt(q, J, x) = Cardinality(A) /\ CountAt(q, K, x) = Cardinality(B)
        BY <3>a, Zenon DEF CountAt
      <3>c. IsFiniteSet(A) /\ Cardinality(A) \in Nat
        BY <1>t, <3>a, <3>b
      <3>1. CASE x = q[k]
        <4>1. B = A \cup {k} /\ k \notin A
          BY <2>1, <3>1, <3>a
        <4>2. Cardinality(A \cup {k}) = Cardinality(A) + 1
          BY <3>c, <4>1, FS_AddElement
        <4>3. one[x] = 1
          BY <2>3, <3>1
        <4> QED BY <3>b, <4>1, <4>2, <4>3
      <3>2. CASE x # q[k]
        <4>1. B = A
          BY <2>1, <3>2, <3>a
        <4>2. one[x] = 0
          BY <2>3, <3>2
        <4> QED BY <3>b, <3>c, <4>1, <4>2
      <3> QED BY <3>1, <3>2
    <2>5. \A x \in S : F(J)[x] \in Nat /\ F(K)[x] = F(J)[x] + one[x]
      BY <1>t, <2>4
    <2>6. \A x \in S : one[x] \in Nat
      BY <2>3
    <2>7. SumFunctionOnSet(one, S) = 1
      <3>1. q[k] \in S /\ one[q[k]] = 1 /\ \A x \in S \ {q[k]} : one[x] = 0
        BY <2>3
      <3> QED BY <3>1, SumFew
    <2> HIDE DEF F
    <2>8. SumFunctionOnSet(F(K), S) = SumFunctionOnSet(F(J), S) + SumFunctionOnSet(one, S)
      BY <2>5, <2>6, SumPlus
    <2>9. Cardinality(K) = Cardinality(J) + 1
      <3>1. IsFiniteSet(J)
        BY FS_Subset
      <3> QED BY <2>1, <3>1, FS_AddElement
    <2>10. SumFunctionOnSet(F(J), S) = Cardinality(J)
      BY <1>2
    <2>11. SumFunctionOnSet(F(K), S) = Cardinality(K)
      BY <2>7, <2>8, <2>9, <2>10
    <2> QED BY <2>1, <2>2, <2>11
  <1> HIDE DEF G
  <1>3. I \in G
    BY <1>1, <1>2, ElementInduction
  <1> QED BY <1>3 DEF G
=============================================================================
