----------------------------- MODULE RequestProofs ----------------------------
(***************************************************************************)
(* What the proofs about the modules over Requests share.                  *)
(*                                                                         *)
(* Their balances are sums over sets that grow, so the first part proves   *)
(* what SumFunction computes: it is the last term of any running sum       *)
(* (SumsAre), and running sums of a finite set exist and agree (SumsExist, *)
(* SumsOnce). From these follow how a sum changes with its function and    *)
(* its domain. The second part says what requests are.                     *)
(*                                                                         *)
(* The third is the first of the proofs about a business module,           *)
(* Receiving: what the lines, the receipts and the clearing account say of *)
(* the goods accepted differs by what the one request for the order has    *)
(* shown in the lines and not yet saved (Added), or saved and not yet      *)
(* booked (Unbooked), and by what a COMMIT turned into a ROLLBACK has lost *)
(* (Exact).                                                                *)
(***************************************************************************)
EXTENDS Receiving, Functions, FiniteSetTheorems, WellFoundedInduction, TLAPS

-----------------------------------------------------------------------------
(* Sums over finite sets. SumFunction folds a function; what it is for all   *)
(* functions is shown by induction on the domain.                            *)

\* Among subsets of a finite set there is one that includes no other.
LEMMA SmallestSubset ==
  ASSUME NEW S, IsFiniteSet(S), NEW T, T \subseteq SUBSET S, T # {}
  PROVE  \E t \in T : \A u \in T : u \subseteq t => u = t
<1> DEFINE R == StrictSubsetOrdering(S)
           F == FiniteSubsetsOf(S)
<1>1. IsWellFoundedOn(R, F)
  BY FS_StrictSubsetOrderingWellFounded
<1>2. T \subseteq F
  BY FS_FiniteSubsetsOfFinite
<1>3. \A s, t \in SUBSET S : s \subseteq t /\ s # t => <<s, t>> \in R
  BY DEF StrictSubsetOrdering
<1> HIDE DEF R, F
<1>4. PICK t \in T : \A u \in T : ~ (<<u, t>> \in R)
  BY <1>1, <1>2, WFMin
<1> QED
  BY <1>3, <1>4

\* Induction on a finite set: a set that holds {} and, with a subset of S, that
\* subset and one more element of S, holds S.
LEMMA SetReached ==
  ASSUME NEW S, IsFiniteSet(S), NEW T, {} \in T,
         \A s \in SUBSET S : \A x \in S \ s : s \in T => s \union {x} \in T
  PROVE  S \in T
<1> DEFINE Missing == {s \in SUBSET S : s \notin T}
<1> SUFFICES ASSUME Missing # {} PROVE FALSE
  OBVIOUS
<1>1. PICK t \in Missing : \A u \in Missing : u \subseteq t => u = t
  <2>1. Missing \subseteq SUBSET S
    OBVIOUS
  <2> HIDE DEF Missing
  <2> QED BY <2>1, SmallestSubset
<1>2. PICK x \in t : TRUE
  BY <1>1
<1>3. t \ {x} \in T
  BY <1>1, <1>2
<1>4. (t \ {x}) \union {x} = t
  BY <1>2
<1> QED
  BY <1>1, <1>2, <1>3, <1>4

-----------------------------------------------------------------------------
\* g sums f over the subsets of S, one element after another.
SumsOf(g, f, S) ==
  g = [s \in SUBSET S |-> IF s = {} THEN 0
                          ELSE LET x == CHOOSE y \in s : TRUE IN f[x] + g[s \ {x}]]

LEMMA SumsOnce ==
  ASSUME NEW f, NEW S, IsFiniteSet(S), NEW g, SumsOf(g, f, S), NEW h, SumsOf(h, f, S)
  PROVE  g = h
<1> DEFINE Differ == {s \in SUBSET S : g[s] # h[s]}
<1> SUFFICES ASSUME Differ # {} PROVE FALSE
  <2>1. DOMAIN g = SUBSET S /\ DOMAIN h = SUBSET S /\ g = [s \in SUBSET S |-> g[s]] /\ h = [s \in SUBSET S |-> h[s]]
    BY DEF SumsOf
  <2> QED BY <2>1
<1>1. PICK t \in Differ : \A u \in Differ : u \subseteq t => u = t
  <2>1. Differ \subseteq SUBSET S
    OBVIOUS
  <2> HIDE DEF Differ
  <2> QED BY <2>1, SmallestSubset
<1> DEFINE x == CHOOSE y \in t : TRUE
<1>2. t # {}
  BY <1>1 DEF SumsOf
<1>3. x \in t /\ t \ {x} \in SUBSET S
  BY <1>2
<1>4. g[t] = f[x] + g[t \ {x}] /\ h[t] = f[x] + h[t \ {x}]
  BY <1>2 DEF SumsOf
<1>5. g[t \ {x}] = h[t \ {x}]
  BY <1>1, <1>3
<1> QED
  BY <1>1, <1>4, <1>5

LEMMA SumsBelow ==
  ASSUME NEW f, NEW S, NEW T \in SUBSET S, NEW g, SumsOf(g, f, S)
  PROVE  SumsOf([s \in SUBSET T |-> g[s]], f, T)
<1> DEFINE h == [s \in SUBSET T |-> g[s]]
           x(s) == CHOOSE y \in s : TRUE
<1>1. \A s \in SUBSET T : h[s] = IF s = {} THEN 0 ELSE f[x(s)] + h[s \ {x(s)}]
  <2> SUFFICES ASSUME NEW s \in SUBSET T PROVE h[s] = IF s = {} THEN 0 ELSE f[x(s)] + h[s \ {x(s)}]
    OBVIOUS
  <2>1. g[s] = IF s = {} THEN 0 ELSE f[x(s)] + g[s \ {x(s)}]
    BY DEF SumsOf
  <2>2. s \ {x(s)} \in SUBSET T
    OBVIOUS
  <2> QED BY <2>1, <2>2
<1> QED
  BY <1>1 DEF SumsOf

LEMMA SumsExist ==
  ASSUME NEW f, NEW S, IsFiniteSet(S)
  PROVE  \E g : SumsOf(g, f, S)
<1> DEFINE Without == {s \in SUBSET S : ~ \E g : SumsOf(g, f, s)}
<1> SUFFICES ASSUME Without # {} PROVE FALSE
  OBVIOUS
<1>1. PICK t \in Without : \A u \in Without : u \subseteq t => u = t
  <2>1. Without \subseteq SUBSET S
    OBVIOUS
  <2> HIDE DEF Without
  <2> QED BY <2>1, SmallestSubset
<1> DEFINE G(s) == CHOOSE g : SumsOf(g, f, s)
           x(s) == CHOOSE y \in s : TRUE
           Body(s) == IF s = {} THEN 0 ELSE f[x(s)] + G(s \ {x(s)})[s \ {x(s)}]
           h == [s \in SUBSET t |-> Body(s)]
<1>2. \A s \in SUBSET t : s # t => SumsOf(G(s), f, s)
  <2> SUFFICES ASSUME NEW s \in SUBSET t, s # t PROVE SumsOf(G(s), f, s)
    OBVIOUS
  <2>1. \E g : SumsOf(g, f, s)
    BY <1>1
  <2> QED BY <2>1
<1>3. \A s \in SUBSET t : s # t => G(s)[s] = h[s]
  <2> SUFFICES ASSUME NEW s \in SUBSET t, s # t PROVE G(s)[s] = h[s]
    OBVIOUS
  <2>1. SumsOf(G(s), f, s)
    BY <1>2
  <2>2. s = {} => G(s)[s] = 0
    BY <2>1 DEF SumsOf
  <2>3. s # {} => G(s)[s] = f[x(s)] + G(s)[s \ {x(s)}]
    <3> HIDE DEF G
    <3> QED BY <2>1 DEF SumsOf
  <2>4. ASSUME s # {} PROVE G(s)[s \ {x(s)}] = G(s \ {x(s)})[s \ {x(s)}]
    <3> DEFINE u == s \ {x(s)}
    <3>1. u \in SUBSET t /\ u # t /\ u \in SUBSET s
      BY <2>4
    <3>2. SumsOf(G(u), f, u)
      BY <3>1, <1>2
    <3>3. IsFiniteSet(u)
      BY <3>1, FS_Subset, t \in SUBSET S
    <3>4. SumsOf([r \in SUBSET u |-> G(s)[r]], f, u)
      <4> HIDE DEF G, u
      <4> QED BY <3>1, <2>1, SumsBelow
    <3>5. G(u) = [r \in SUBSET u |-> G(s)[r]]
      <4> HIDE DEF G, u
      <4> QED BY <3>2, <3>3, <3>4, SumsOnce
    <3>6. G(u)[u] = G(s)[u]
      <4> HIDE DEF G, u
      <4> QED BY <3>5
    <3> QED BY <3>6
  <2> HIDE DEF G
  <2>5. h[s] = Body(s)
    OBVIOUS
  <2> QED BY <2>2, <2>3, <2>4, <2>5
<1>4. \A s \in SUBSET t : h[s] = IF s = {} THEN 0 ELSE f[x(s)] + h[s \ {x(s)}]
  <2> HIDE DEF G
  <2> SUFFICES ASSUME NEW s \in SUBSET t PROVE h[s] = IF s = {} THEN 0 ELSE f[x(s)] + h[s \ {x(s)}]
    OBVIOUS
  <2>1. s # {} => x(s) \in s
    OBVIOUS
  <2>2. s # {} => s \ {x(s)} \in SUBSET t /\ s \ {x(s)} # t
    BY <2>1
  <2>3. s # {} => G(s \ {x(s)})[s \ {x(s)}] = h[s \ {x(s)}]
    <3> HIDE DEF h
    <3> QED BY <2>2, <1>3
  <2> QED BY <2>3
<1>5. SumsOf(h, f, t)
  <2> HIDE DEF G, Body
  <2>1. h = [s \in SUBSET t |-> h[s]]
    OBVIOUS
  <2> HIDE DEF h
  <2> QED BY <1>4, <2>1 DEF SumsOf
<1> QED
  <2> HIDE DEF h
  <2> QED BY <1>1, <1>5

-----------------------------------------------------------------------------
LEMMA SumsAre ==
  ASSUME NEW f, NEW S, IsFiniteSet(S), NEW g, SumsOf(g, f, S)
  PROVE  \A T \in SUBSET S : SumFunctionOnSet(f, T) = g[T]
<1> SUFFICES ASSUME NEW T \in SUBSET S PROVE SumFunctionOnSet(f, T) = g[T]
  OBVIOUS
<1> DEFINE h == [s \in SUBSET T |-> g[s]]
<1>1. SumsOf(h, f, T)
  BY SumsBelow
<1>2. IsFiniteSet(T)
  BY FS_Subset
<1>3. \A k : SumsOf(k, f, T) => k = h
  <2> HIDE DEF h
  <2> QED BY <1>1, <1>2, SumsOnce
<1>4. SumFunctionOnSet(f, T) = h[T]
  <2> HIDE DEF h
  <2> QED BY <1>1, <1>3 DEF SumFunctionOnSet, FoldFunctionOnSet, MapThenFoldSet, SumsOf
<1> QED BY <1>4

\* The sum over the empty set.
LEMMA SumEmpty ==
  ASSUME NEW f
  PROVE  SumFunctionOnSet(f, {}) = 0
<1>1. IsFiniteSet({})
  BY FS_EmptySet
<1>2. PICK g : SumsOf(g, f, {})
  BY <1>1, SumsExist
<1>3. SumFunctionOnSet(f, {}) = g[{}]
  BY <1>1, <1>2, SumsAre
<1> QED BY <1>2, <1>3 DEF SumsOf

\* Sums of integers are integers, and an element may be taken out of a sum.
LEMMA SumStep ==
  ASSUME NEW f, NEW S, IsFiniteSet(S), \A x \in S : f[x] \in Int
  PROVE  /\ SumFunctionOnSet(f, S) \in Int
         /\ \A x \in S : SumFunctionOnSet(f, S) = f[x] + SumFunctionOnSet(f, S \ {x})
<1> DEFINE Sum(s) == SumFunctionOnSet(f, s)
           z(s) == CHOOSE y \in s : TRUE
           Good(s) == Sum(s) \in Int /\ \A x \in s : Sum(s) = f[x] + Sum(s \ {x})
           Bad == {s \in SUBSET S : ~ Good(s)}
<1>1. \A s \in SUBSET S : s # {} => Sum(s) = f[z(s)] + Sum(s \ {z(s)})
  <2>1. PICK g : SumsOf(g, f, S)
    BY SumsExist
  <2>2. \A s \in SUBSET S : Sum(s) = g[s]
    BY <2>1, SumsAre
  <2> HIDE DEF Sum
  <2> QED BY <2>1, <2>2 DEF SumsOf
<1>2. Sum({}) = 0
  BY SumEmpty
<1> HIDE DEF Sum
<1> SUFFICES ASSUME Bad # {} PROVE FALSE
  BY DEF Sum
<1>3. PICK t \in Bad : \A u \in Bad : u \subseteq t => u = t
  <2>1. Bad \subseteq SUBSET S
    OBVIOUS
  <2> HIDE DEF Bad
  <2> QED BY <2>1, SmallestSubset
<1>4. t # {}
  <2>1. Good({})
    BY <1>2
  <2> HIDE DEF Good
  <2> QED BY <2>1, <1>3
<1> DEFINE a == z(t)
<1>5. a \in t
  BY <1>4
<1>6. Good(t \ {a})
  BY <1>3, <1>5
<1>7. Sum(t) = f[a] + Sum(t \ {a}) /\ f[a] \in Int /\ Sum(t) \in Int
  BY <1>1, <1>4, <1>5, <1>6
<1>8. ASSUME NEW x \in t, x # a PROVE Sum(t) = f[x] + Sum(t \ {x})
  <2>1. Good(t \ {x})
    BY <1>3
  <2>2. Sum(t \ {a}) = f[x] + Sum((t \ {a}) \ {x})
    BY <1>6, <1>8
  <2>3. Sum(t \ {x}) = f[a] + Sum((t \ {x}) \ {a})
    BY <2>1, <1>5, <1>8
  <2>4. (t \ {a}) \ {x} = (t \ {x}) \ {a}
    OBVIOUS
  <2>5. Good((t \ {a}) \ {x})
    BY <1>3, <1>5
  <2>6. f[x] \in Int
    OBVIOUS
  <2>7. Sum(t) = f[a] + (f[x] + Sum((t \ {a}) \ {x}))
    BY <2>2, <1>7
  <2>8. f[x] + Sum(t \ {x}) = f[x] + (f[a] + Sum((t \ {a}) \ {x}))
    BY <2>3, <2>4
  <2>9. Sum((t \ {a}) \ {x}) \in Int
    BY <2>5
  <2> HIDE DEF a
  <2> QED BY <2>6, <2>7, <2>8, <2>9, <1>7
<1> QED BY <1>3, <1>7, <1>8

\* Functions that agree on a set have the same sum over it.
LEMMA SumSame ==
  ASSUME NEW f, NEW g, NEW S, IsFiniteSet(S), \A x \in S : f[x] = g[x]
  PROVE  SumFunctionOnSet(f, S) = SumFunctionOnSet(g, S)
<1>1. PICK s : SumsOf(s, f, S)
  BY SumsExist
<1>2. SumsOf(s, g, S)
  <2>1. \A t \in SUBSET S : t # {} => f[CHOOSE y \in t : TRUE] = g[CHOOSE y \in t : TRUE]
    OBVIOUS
  <2>2. \A t \in SUBSET S :
          (IF t = {} THEN 0 ELSE LET x == CHOOSE y \in t : TRUE IN f[x] + s[t \ {x}])
            = IF t = {} THEN 0 ELSE LET x == CHOOSE y \in t : TRUE IN g[x] + s[t \ {x}]
    BY <2>1
  <2> QED BY <1>1, <2>2 DEF SumsOf
<1> QED BY <1>1, <1>2, SumsAre

\* One more element in a sum.
LEMMA SumAdd ==
  ASSUME NEW f, NEW S, IsFiniteSet(S), \A x \in S : f[x] \in Int, NEW y, y \notin S, f[y] \in Int
  PROVE  SumFunctionOnSet(f, S \union {y}) = f[y] + SumFunctionOnSet(f, S)
<1>1. IsFiniteSet(S \union {y})
  BY FS_AddElement
<1>2. (S \union {y}) \ {y} = S
  OBVIOUS
<1> QED BY <1>1, <1>2, SumStep

\* The sum of a function with one argument, or none.
LEMMA SumOne ==
  ASSUME NEW f, NEW y, DOMAIN f = {y}, f[y] \in Int
  PROVE  SumFunction(f) = f[y]
<1>1. SumFunctionOnSet(f, {} \union {y}) = f[y] + SumFunctionOnSet(f, {})
  BY FS_EmptySet, SumAdd
<1>2. SumFunctionOnSet(f, {}) = 0
  BY SumEmpty
<1>3. {} \union {y} = {y}
  OBVIOUS
<1>4. SumFunctionOnSet(f, {y}) = f[y]
  BY <1>1, <1>2, <1>3
<1> QED BY <1>4 DEF SumFunction

LEMMA SumNone ==
  ASSUME NEW f, DOMAIN f = {}
  PROVE  SumFunction(f) = 0
BY SumEmpty DEF SumFunction

\* A sum of zeros.
LEMMA SumZero ==
  ASSUME NEW f, NEW S, IsFiniteSet(S), \A x \in S : f[x] = 0
  PROVE  SumFunctionOnSet(f, S) = 0
<1> DEFINE T == {s \in SUBSET S : SumFunctionOnSet(f, s) = 0}
<1>1. {} \in T
  BY SumEmpty
<1>2. ASSUME NEW s \in SUBSET S, NEW x \in S \ s, s \in T PROVE s \union {x} \in T
  <2>1. IsFiniteSet(s)
    BY FS_Subset
  <2>2. SumFunctionOnSet(f, s \union {x}) = f[x] + SumFunctionOnSet(f, s)
    BY <2>1, SumAdd
  <2> QED BY <2>2, <1>2
<1>3. S \in T
  <2> HIDE DEF T
  <2> QED BY <1>1, <1>2, SetReached
<1> QED BY <1>3

\* A sum of sums of two terms.
LEMMA SumPlus ==
  ASSUME NEW f, NEW g, NEW h, NEW S, IsFiniteSet(S),
         \A x \in S : f[x] \in Int /\ g[x] \in Int /\ h[x] = f[x] + g[x]
  PROVE  SumFunctionOnSet(h, S) = SumFunctionOnSet(f, S) + SumFunctionOnSet(g, S)
<1> DEFINE T == {s \in SUBSET S : SumFunctionOnSet(h, s) = SumFunctionOnSet(f, s) + SumFunctionOnSet(g, s)}
<1>1. {} \in T
  BY SumEmpty
<1>2. ASSUME NEW s \in SUBSET S, NEW x \in S \ s, s \in T PROVE s \union {x} \in T
  <2>1. IsFiniteSet(s)
    BY FS_Subset
  <2>2. /\ SumFunctionOnSet(h, s \union {x}) = h[x] + SumFunctionOnSet(h, s)
        /\ SumFunctionOnSet(f, s \union {x}) = f[x] + SumFunctionOnSet(f, s)
        /\ SumFunctionOnSet(g, s \union {x}) = g[x] + SumFunctionOnSet(g, s)
    BY <2>1, SumAdd
  <2>3. SumFunctionOnSet(f, s) \in Int /\ SumFunctionOnSet(g, s) \in Int
    BY <2>1, SumStep
  <2> QED BY <2>2, <2>3, <1>2
<1>3. S \in T
  <2> HIDE DEF T
  <2> QED BY <1>1, <1>2, SetReached
<1> QED BY <1>3

\* Opposite terms have opposite sums.
LEMMA SumOpposite ==
  ASSUME NEW f, NEW g, NEW S, IsFiniteSet(S), \A x \in S : f[x] \in Int /\ g[x] = 0 - f[x]
  PROVE  SumFunctionOnSet(g, S) = 0 - SumFunctionOnSet(f, S)
<1> DEFINE h == [x \in S |-> f[x] + g[x]]
<1>1. SumFunctionOnSet(h, S) = 0
  <2>1. \A x \in S : h[x] = 0
    OBVIOUS
  <2> HIDE DEF h
  <2> QED BY <2>1, SumZero
<1>2. SumFunctionOnSet(h, S) = SumFunctionOnSet(f, S) + SumFunctionOnSet(g, S)
  <2>1. \A x \in S : f[x] \in Int /\ g[x] \in Int /\ h[x] = f[x] + g[x]
    OBVIOUS
  <2> HIDE DEF h
  <2> QED BY <2>1, SumPlus
<1>3. SumFunctionOnSet(f, S) \in Int /\ SumFunctionOnSet(g, S) \in Int
  BY SumStep
<1> HIDE DEF h
<1> QED BY <1>1, <1>2, <1>3

\* Functions that differ at one point.
LEMMA SumChange ==
  ASSUME NEW f, NEW g, NEW S, IsFiniteSet(S), NEW y \in S, g[y] \in Int,
         \A x \in S : f[x] \in Int, \A x \in S \ {y} : g[x] = f[x]
  PROVE  SumFunctionOnSet(g, S) = SumFunctionOnSet(f, S) - f[y] + g[y]
<1>1. IsFiniteSet(S \ {y})
  BY FS_RemoveElement
<1>2. SumFunctionOnSet(g, S \ {y}) = SumFunctionOnSet(f, S \ {y})
  BY <1>1, SumSame
<1>3. SumFunctionOnSet(g, S) = g[y] + SumFunctionOnSet(g, S \ {y})
  <2>1. \A x \in S : g[x] \in Int
    OBVIOUS
  <2> QED BY <2>1, SumStep
<1>4. SumFunctionOnSet(f, S) = f[y] + SumFunctionOnSet(f, S \ {y}) /\ SumFunctionOnSet(f, S \ {y}) \in Int
  BY <1>1, SumStep
<1> QED BY <1>2, <1>3, <1>4

\* The sum over two sets that share no element.
LEMMA SumUnion ==
  ASSUME NEW f, NEW S, NEW R, IsFiniteSet(S), IsFiniteSet(R), S \cap R = {}, \A x \in S \union R : f[x] \in Int
  PROVE  SumFunctionOnSet(f, S \union R) = SumFunctionOnSet(f, S) + SumFunctionOnSet(f, R)
<1> DEFINE T == {s \in SUBSET S : SumFunctionOnSet(f, s \union R) = SumFunctionOnSet(f, s) + SumFunctionOnSet(f, R)}
<1>1. SumFunctionOnSet(f, R) \in Int
  BY SumStep
<1>2. {} \in T
  <2>1. {} \union R = R
    OBVIOUS
  <2> QED BY <2>1, <1>1, SumEmpty
<1>3. ASSUME NEW s \in SUBSET S, NEW x \in S \ s, s \in T PROVE s \union {x} \in T
  <2>1. IsFiniteSet(s) /\ IsFiniteSet(s \union R)
    BY FS_Subset, FS_Union
  <2>2. SumFunctionOnSet(f, s \union {x}) = f[x] + SumFunctionOnSet(f, s)
    BY <2>1, SumAdd
  <2>3. SumFunctionOnSet(f, (s \union R) \union {x}) = f[x] + SumFunctionOnSet(f, s \union R)
    <3>1. x \notin s \union R /\ f[x] \in Int /\ \A y \in s \union R : f[y] \in Int
      OBVIOUS
    <3> QED BY <3>1, <2>1, SumAdd
  <2>4. (s \union R) \union {x} = (s \union {x}) \union R
    OBVIOUS
  <2>5. SumFunctionOnSet(f, s) \in Int
    BY <2>1, SumStep
  <2>6. f[x] \in Int
    OBVIOUS
  <2>7. SumFunctionOnSet(f, s \union R) = SumFunctionOnSet(f, s) + SumFunctionOnSet(f, R)
    BY <1>3
  <2>8. SumFunctionOnSet(f, (s \union {x}) \union R) = SumFunctionOnSet(f, s \union {x}) + SumFunctionOnSet(f, R)
    <3>1. SumFunctionOnSet(f, (s \union {x}) \union R) = f[x] + SumFunctionOnSet(f, s \union R)
      BY <2>3, <2>4, Zenon
    <3> QED BY <3>1, <2>2, <2>5, <2>6, <2>7, <1>1
  <2> QED BY <2>8
<1>4. S \in T
  <2> HIDE DEF T
  <2> QED BY <1>2, <1>3, SetReached
<1> QED BY <1>4

\* Elements that contribute nothing may be left out.
LEMMA SumSupport ==
  ASSUME NEW f, NEW S, IsFiniteSet(S), NEW R \in SUBSET S, \A x \in R : f[x] \in Int, \A x \in S \ R : f[x] = 0
  PROVE  SumFunctionOnSet(f, S) = SumFunctionOnSet(f, R)
<1>1. IsFiniteSet(R) /\ IsFiniteSet(S \ R)
  BY FS_Subset
<1>2. SumFunctionOnSet(f, S \ R) = 0
  BY <1>1, SumZero
<1>3. SumFunctionOnSet(f, R) \in Int
  BY <1>1, SumStep
<1>4. SumFunctionOnSet(f, (S \ R) \union R) = SumFunctionOnSet(f, S \ R) + SumFunctionOnSet(f, R)
  <2>1. (S \ R) \cap R = {} /\ \A x \in (S \ R) \union R : f[x] \in Int
    OBVIOUS
  <2> QED BY <1>1, <2>1, SumUnion
<1>5. (S \ R) \union R = S
  OBVIOUS
<1> QED BY <1>2, <1>3, <1>4, <1>5

\* A table of integers and its transpose; rows[x] sums row x of a table.
Transposed(t, u, S, R) == \A x \in S : \A y \in R : t[x][y] \in Int /\ u[y][x] = t[x][y]
SumRows(rows, t, S, R) == \A x \in S : rows[x] = SumFunctionOnSet(t[x], R)

\* The sum of a table by rows and by columns.
LEMMA SumSwapped ==
  ASSUME NEW S, NEW R, IsFiniteSet(S), IsFiniteSet(R), NEW t, NEW u, NEW rows, NEW columns,
         Transposed(t, u, S, R), SumRows(rows, t, S, R), SumRows(columns, u, R, S)
  PROVE  SumFunctionOnSet(rows, S) = SumFunctionOnSet(columns, R)
<1> DEFINE Part(s) == [y \in R |-> SumFunctionOnSet(u[y], s)]
           T == {s \in SUBSET S : SumFunctionOnSet(rows, s) = SumFunctionOnSet(Part(s), R)}
<1> USE DEF Transposed, SumRows
<1>1. \A x \in S : rows[x] \in Int
  BY SumStep
<1>2. \A s \in SUBSET S : IsFiniteSet(s) /\ \A y \in R : SumFunctionOnSet(u[y], s) \in Int
  <2> TAKE s \in SUBSET S
  <2>1. IsFiniteSet(s)
    BY FS_Subset
  <2>2. \A y \in R : \A x \in s : u[y][x] \in Int
    OBVIOUS
  <2> QED BY <2>1, <2>2, SumStep
<1>3. {} \in T
  <2> DEFINE none == Part({})
  <2>1. \A y \in R : none[y] = 0
    BY SumEmpty
  <2> HIDE DEF none
  <2>2. SumFunctionOnSet(none, R) = 0
    BY <2>1, SumZero
  <2> QED BY <2>2, SumEmpty DEF none
<1>4. ASSUME NEW s \in SUBSET S, NEW x \in S \ s, s \in T PROVE s \union {x} \in T
  <2> DEFINE before == Part(s)
             after == Part(s \union {x})
  <2>1. SumFunctionOnSet(rows, s \union {x}) = rows[x] + SumFunctionOnSet(rows, s)
    BY <1>1, <1>2, SumAdd
  <2>2. ASSUME NEW y \in R PROVE SumFunctionOnSet(u[y], s \union {x}) = SumFunctionOnSet(u[y], s) + t[x][y]
    <3>1. u[y][x] = t[x][y] /\ u[y][x] \in Int /\ \A z \in s : u[y][z] \in Int
      OBVIOUS
    <3>2. SumFunctionOnSet(u[y], s \union {x}) = u[y][x] + SumFunctionOnSet(u[y], s)
      BY <1>2, <3>1, SumAdd
    <3>3. SumFunctionOnSet(u[y], s) \in Int
      BY <1>2
    <3> QED BY <3>1, <3>2, <3>3
  <2>3. \A y \in R : before[y] \in Int /\ t[x][y] \in Int /\ after[y] = before[y] + t[x][y]
    <3> TAKE y \in R
    <3>1. before[y] = SumFunctionOnSet(u[y], s) /\ after[y] = SumFunctionOnSet(u[y], s \union {x})
      OBVIOUS
    <3>2. before[y] \in Int /\ t[x][y] \in Int
      BY <1>2
    <3>3. SumFunctionOnSet(u[y], s \union {x}) = SumFunctionOnSet(u[y], s) + t[x][y]
      BY <2>2
    <3>4. after[y] = before[y] + t[x][y]
      BY <3>1, <3>3, Zenon
    <3> QED BY <3>2, <3>4
  <2>4. SumFunctionOnSet(after, R) = SumFunctionOnSet(before, R) + SumFunctionOnSet(t[x], R)
    <3> HIDE DEF before, after
    <3> QED BY <2>3, SumPlus
  <2>5. rows[x] = SumFunctionOnSet(t[x], R) /\ SumFunctionOnSet(rows, s) = SumFunctionOnSet(before, R)
    BY <1>4
  <2>6. SumFunctionOnSet(rows, s) \in Int /\ rows[x] \in Int
    BY <1>1, <1>2, SumStep
  <2>7. SumFunctionOnSet(rows, s \union {x}) = SumFunctionOnSet(after, R)
    <3> HIDE DEF before, after
    <3> QED BY <2>1, <2>4, <2>5, <2>6
  <2> QED BY <2>7
<1>5. S \in T
  <2> HIDE DEF T
  <2> QED BY <1>3, <1>4, SetReached
<1>6. SumFunctionOnSet(Part(S), R) = SumFunctionOnSet(columns, R)
  <2> DEFINE all == Part(S)
  <2>1. \A y \in R : all[y] = columns[y]
    OBVIOUS
  <2> HIDE DEF all
  <2>2. SumFunctionOnSet(all, R) = SumFunctionOnSet(columns, R)
    BY <2>1, SumSame
  <2> QED BY <2>2 DEF all
<1> QED BY <1>5, <1>6

LEMMA SegmentFinite ==
  ASSUME NEW n \in Nat
  PROVE  IsFiniteSet(1 .. n)
<1>1. 1 \in Int /\ n \in Int
  OBVIOUS
<1> QED BY <1>1, FS_Interval

\* The sum over a sequence that one element is appended to.
LEMMA SumAppend ==
  ASSUME NEW n \in Nat, NEW f, NEW g, DOMAIN f = 1 .. n, DOMAIN g = 1 .. (n + 1),
         \A i \in 1 .. n : f[i] \in Int /\ g[i] = f[i], g[n + 1] \in Int
  PROVE  SumFunction(g) = SumFunction(f) + g[n + 1] /\ SumFunction(f) \in Int
<1>1. IsFiniteSet(1 .. n)
  BY SegmentFinite
<1>2. \A i \in 1 .. n : g[i] \in Int
  OBVIOUS
<1>3. SumFunctionOnSet(g, (1 .. n) \union {n + 1}) = g[n + 1] + SumFunctionOnSet(g, 1 .. n)
  <2>1. n + 1 \notin 1 .. n
    OBVIOUS
  <2> QED BY <1>2, <1>1, <2>1, SumAdd
<1>4. SumFunctionOnSet(f, 1 .. n) = SumFunctionOnSet(g, 1 .. n) /\ SumFunctionOnSet(f, 1 .. n) \in Int
  <2>1. \A i \in 1 .. n : f[i] = g[i] /\ f[i] \in Int
    OBVIOUS
  <2> QED BY <1>1, <2>1, SumSame, SumStep
<1>5. (1 .. n) \union {n + 1} = 1 .. (n + 1)
  OBVIOUS
<1>6. SumFunction(g) = g[n + 1] + SumFunctionOnSet(g, 1 .. n) /\ SumFunction(f) = SumFunctionOnSet(f, 1 .. n)
  BY <1>3, <1>5 DEF SumFunction
<1>7. SumFunctionOnSet(g, 1 .. n) \in Int
  BY <1>4
<1> QED BY <1>4, <1>6, <1>7

LEMMA LeastNumber ==
  ASSUME NEW T \in SUBSET Nat, T # {}
  PROVE  \E x \in T : \A y \in T : x <= y
<1>1. PICK n \in T : n \in Nat
  OBVIOUS
<1> DEFINE Upto == {0 .. k : k \in {j \in T : j <= n}}
<1>2. IsFiniteSet(0 .. n)
  BY <1>1, FS_Interval
<1>3. Upto \subseteq SUBSET (0 .. n) /\ Upto # {}
  BY <1>1
<1>4. PICK s \in Upto : \A u \in Upto : u \subseteq s => u = s
  <2>1. PICK S : S = 0 .. n
    OBVIOUS
  <2> HIDE DEF Upto
  <2>2. IsFiniteSet(S) /\ Upto \subseteq SUBSET S /\ Upto # {}
    BY <1>2, <1>3, <2>1
  <2> QED BY <2>2, SmallestSubset
<1>5. PICK k \in T : k <= n /\ s = 0 .. k
  BY <1>4
<1>6. ASSUME NEW y \in T, y < k PROVE FALSE
  <2>1. y \in Nat /\ k \in Nat /\ y <= n
    BY <1>1, <1>5, <1>6
  <2>2. 0 .. y \in Upto
    BY <2>1
  <2>3. 0 .. y \subseteq 0 .. k /\ k \in 0 .. k /\ k \notin 0 .. y
    BY <1>6, <2>1
  <2> QED BY <1>4, <1>5, <2>2, <2>3
<1>7. \A y \in T : k <= y
  BY <1>6
<1> QED BY <1>7

-----------------------------------------------------------------------------
(* What all requests share.                                                  *)

\* Requests under way work on some rows each, and on different ones as long as none
\* have overlapped.
Apart ==
  /\ call = [c \in Call |-> call[c]] /\ touches = [c \in Call |-> touches[c]]
  /\ \A c \in Call : call[c] = Idle <=> touches[c] = {}
  /\ disjoint \in BOOLEAN /\ faults \in Nat
  /\ disjoint => \A c, d \in Call : c # d => touches[c] \intersect touches[d] = {}

\* What a step of request c leaves of the requests.
Moved(c) ==
  /\ call' = [call EXCEPT ![c] = call'[c]] /\ touches' = [touches EXCEPT ![c] = touches'[c]]
  /\ \A d \in Call \ {c} : call'[d] = call[d] /\ touches'[d] = touches[d]
  /\ disjoint' => disjoint /\ \A d \in Call \ {c} : touches[d] \intersect touches'[c] = {}
  /\ faults' = 0 => faults = 0
  /\ Undisturbed' => Undisturbed

LEMMA Arriving ==
  ASSUME Apart, NEW c \in Call, NEW rows, NEW next, Arrive(c, rows, next), next.pc # "idle", rows # {}
  PROVE  Apart' /\ Moved(c) /\ call'[c] = next /\ touches'[c] = rows /\ call[c] = Idle /\ faults' = faults
<1>1. next # Idle
  BY DEF Idle
<1>2. /\ call' = [call EXCEPT ![c] = next] /\ touches' = [touches EXCEPT ![c] = rows]
      /\ disjoint' = (disjoint /\ \A d \in Call : touches[d] \intersect rows = {}) /\ faults' = faults /\ call[c] = Idle
  BY DEF Arrive
<1> QED BY <1>1, <1>2 DEF Apart, Moved, Undisturbed

LEMMA Awaiting ==
  ASSUME Apart, NEW c \in Call, NEW next, Await(c, next), next.pc # "idle", call[c] # Idle
  PROVE  /\ Apart' /\ Moved(c) /\ call'[c] = next /\ touches' = touches /\ faults' = faults
         /\ disjoint' = disjoint /\ Undisturbed' = Undisturbed
<1>1. next # Idle
  BY DEF Idle
<1>2. call' = [call EXCEPT ![c] = next] /\ touches' = touches /\ disjoint' = disjoint /\ faults' = faults
  BY DEF Await
<1> QED BY <1>1, <1>2 DEF Apart, Moved, Undisturbed

LEMMA Answering ==
  ASSUME Apart, NEW c \in Call, Answer(c)
  PROVE  /\ Apart' /\ Moved(c) /\ call'[c] = Idle /\ touches'[c] = {} /\ faults' = faults
         /\ disjoint' = disjoint /\ Undisturbed' = Undisturbed
<1>1. /\ call' = [call EXCEPT ![c] = Idle] /\ touches' = [touches EXCEPT ![c] = {}]
      /\ disjoint' = disjoint /\ faults' = faults
  BY DEF Answer
<1> QED BY <1>1 DEF Apart, Moved, Undisturbed

LEMMA Perishing ==
  ASSUME Apart, NEW c \in Call, Perish(c)
  PROVE  /\ Apart' /\ Moved(c) /\ call'[c] = Idle /\ touches'[c] = {} /\ faults' # 0 /\ ~ Undisturbed'
         /\ disjoint' = disjoint
<1>1. /\ call' = [call EXCEPT ![c] = Idle] /\ touches' = [touches EXCEPT ![c] = {}]
      /\ disjoint' = disjoint
  BY DEF Perish
<1>2. faults' \in Nat /\ faults' # 0
  BY DEF Perish, Apart
<1> QED BY <1>1, <1>2 DEF Apart, Moved, Undisturbed

LEMMA ApartStarts == RequestsInit => Apart
BY DEF RequestsInit, Apart, Idle

LEMMA ApartStays == Apart /\ UNCHANGED requestVars => Apart'
BY DEF Apart, requestVars, Idle

-----------------------------------------------------------------------------
(* Receipts of a purchase order.                                             *)

Early == {"DRAFT", "PENDING_APPROVAL"}
OrderStatus == Early \union {"APPROVED", "RELEASED", "SENT", "PARTIALLY_RECEIVED", "RECEIVED", "CANCELLED"}
PurchaseOrder == [status : OrderStatus, level : Nat]
LineRow == [quantity : Nat, received : Nat, gone : BOOLEAN]
GoodsRow == [grn : Nat, of : Nat, accepted : Nat]
Deliveries == Seq([of : Nat, accepted : Nat])
RcvCall ==
  {Idle}
  \union [pc : {"cutting", "lining", "ordering"}, verb : DOMAIN OrderFrom, seen : PurchaseOrder]
  \union [pc : {"drafting"}, delivery : Deliveries]
  \union [pc : {"listing"}, r : Nat, delivery : Deliveries]
  \union [pc : {"withdrawing"}, r : Nat]
  \union [pc : {"receiving"}, r : Nat, of : SUBSET Nat, left : SUBSET Nat]
  \union [pc : {"adding"}, r : Nat, of : SUBSET Nat, left : SUBSET Nat, line : Nat, seen : LineRow]
  \union [pc : {"marking"}, r : Nat, of : SUBSET Nat, seen : Seq(LineRow), full : BOOLEAN]
  \union [pc : {"matching"}, r : Nat, of : SUBSET Nat, seen : Seq(LineRow)]
  \union [pc : {"booking"}, r : Nat, left : SUBSET Nat]

Confirming == {"receiving", "adding", "marking", "matching"}

\* What a request refers to exists, and it works on these rows.
RcvKnown(t) ==
  /\ t.pc \in Confirming \union {"listing", "withdrawing", "booking"} => t.r \in DOMAIN receipts
  /\ t.pc \in {"cutting", "lining"} => t.verb = "editLines"
  /\ t.pc \in {"drafting", "listing"} => \A j \in DOMAIN t.delivery : t.delivery[j].of \in DOMAIN lines
  /\ t.pc \in Confirming => t.of \subseteq DOMAIN goods
  /\ t.pc \in {"receiving", "adding", "booking"} => t.left \subseteq DOMAIN goods
  /\ t.pc = "adding" => t.line \in t.left
RcvRows(t, R) ==
  /\ t.pc \notin {"idle", "withdrawing"} => OrderRow \in R
  /\ t.pc \in Confirming \union {"withdrawing"} => ReceiptRow(t.r) \in R

\* The lines of a receipt that request t has added to the order, and those of a
\* confirmed one that it has yet to book.
Added(t) == IF t.pc \in {"receiving", "adding"} THEN t.of \ t.left ELSE IF t.pc \in {"marking", "matching"} THEN t.of ELSE {}
Unbooked(t) == IF t.pc = "booking" THEN t.left ELSE {}

Tally(k, S) == SumFunctionOnSet(LineAmounts(k), S)

\* The order shows what is confirmed and what request t has added, at least or exactly;
\* all that is confirmed is booked but what it has yet to book.
Fits(t) == \A k \in DOMAIN lines : Tally(k, Counted \union Added(t)) <= lines[k].received
Exact(t) ==
  /\ \A k \in DOMAIN lines : Tally(k, Counted \union Added(t)) = lines[k].received
  /\ \A i \in DOMAIN goods : booked[i] = IF Confirmed(i) /\ i \notin Unbooked(t) THEN goods[i].accepted ELSE 0

\* What a request has read is what is stored.
RcvHeld(t) ==
  /\ t.pc \in {"cutting", "lining", "ordering"} => t.seen = order /\ order.status \in OrderFrom[t.verb]
  /\ t.pc \in {"drafting", "listing"} =>
       order.status \notin Early /\ \A j \in DOMAIN t.delivery : ~ lines[t.delivery[j].of].gone
  /\ t.pc = "listing" => receipts[t.r] # "CONFIRMED"
  /\ t.pc \in Confirming \union {"withdrawing"} => receipts[t.r] = "DRAFT"
  /\ t.pc \in Confirming => t.of = LinesOf(t.r) /\ Fits(t)
  /\ t.pc \in Confirming => \A i \in Added(t) : goods[i].accepted <= lines[goods[i].of].received
  /\ t.pc = "adding" => t.seen = lines[goods[t.line].of] /\ t.left \subseteq t.of
  /\ t.pc = "receiving" => t.left \subseteq t.of
  /\ t.pc \in {"marking", "matching"} => t.seen = lines
  /\ t.pc = "booking" => /\ t.left \subseteq LinesOf(t.r) /\ (t.r \in lost \/ receipts[t.r] = "CONFIRMED")
                         /\ t.r \notin lost => \A i \in t.left : booked[i] = 0

InStep ==
  /\ \A c \in Call : OrderRow \in touches[c] => Exact(call[c])
  /\ (\A c \in Call : OrderRow \notin touches[c]) => Exact(Idle)

ReceiptsKept ==
  /\ order.status \in Early => receipts = <<>> /\ goods = <<>>
  /\ \A i \in DOMAIN goods : ~ lines[goods[i].of].gone
  /\ Fits(Idle)
  /\ \A i \in DOMAIN goods : goods[i].grn \notin lost => booked[i] <= IF Confirmed(i) THEN goods[i].accepted ELSE 0
  /\ \A r \in billed : r \in DOMAIN receipts /\ receipts[r] = "CONFIRMED"
  /\ \A i \in DOMAIN goods : goods[i].grn \in billed => lines[goods[i].of].received >= lines[goods[i].of].quantity

RcvHolds ==
  /\ \A c \in Call : RcvHeld(call[c])
  /\ ReceiptsKept
  /\ faults = 0 => InStep

RowsTyped ==
  /\ order \in PurchaseOrder /\ lines \in Seq(LineRow) /\ receipts \in Seq({"DRAFT", "CANCELLED", "CONFIRMED"})
  /\ goods \in Seq(GoodsRow) /\ booked \in Seq(Nat) /\ Len(booked) = Len(goods)
  /\ \A i \in DOMAIN goods : goods[i].grn \in DOMAIN receipts /\ goods[i].of \in DOMAIN lines
RcvTyped ==
  /\ RowsTyped
  /\ call \in [Call -> RcvCall]
  /\ \A c \in Call : RcvKnown(call[c]) /\ RcvRows(call[c], touches[c])
  /\ Apart
  /\ faults = 0 => lost = {}

RcvKept == RcvTyped /\ (disjoint => RcvHolds)

-----------------------------------------------------------------------------
LEMMA RcvForms ==
  ASSUME NEW t \in RcvCall
  PROVE  /\ t.pc \in Confirming \union {"idle", "cutting", "lining", "ordering", "drafting", "listing", "withdrawing", "booking"}
         /\ t = Idle <=> t.pc = "idle"
         /\ t.pc \in {"cutting", "lining", "ordering"} => t.verb \in DOMAIN OrderFrom /\ t.seen \in PurchaseOrder
         /\ t.pc \in {"drafting", "listing"} => t.delivery \in Deliveries
         /\ t.pc \in Confirming \union {"listing", "withdrawing", "booking"} => t.r \in Nat
         /\ t.pc \in Confirming => t.of \in SUBSET Nat
         /\ t.pc \in {"receiving", "adding", "booking"} => t.left \in SUBSET Nat
         /\ t.pc = "adding" => t.line \in Nat /\ t.seen \in LineRow
         /\ t.pc \in {"marking", "matching"} => t.seen \in Seq(LineRow)
<1> USE DEF Idle, Confirming
<1>1. CASE t \in {Idle}
  BY <1>1
<1>2. CASE t \in [pc : {"cutting", "lining", "ordering"}, verb : DOMAIN OrderFrom, seen : PurchaseOrder]
  BY <1>2
<1>3. CASE t \in [pc : {"drafting"}, delivery : Deliveries]
  BY <1>3
<1>4. CASE t \in [pc : {"listing"}, r : Nat, delivery : Deliveries]
  BY <1>4
<1>5. CASE t \in [pc : {"withdrawing"}, r : Nat]
  BY <1>5
<1>6. CASE t \in [pc : {"receiving"}, r : Nat, of : SUBSET Nat, left : SUBSET Nat]
  BY <1>6
<1>7. CASE t \in [pc : {"adding"}, r : Nat, of : SUBSET Nat, left : SUBSET Nat, line : Nat, seen : LineRow]
  BY <1>7
<1>8. CASE t \in [pc : {"marking"}, r : Nat, of : SUBSET Nat, seen : Seq(LineRow), full : BOOLEAN]
  BY <1>8
<1>9. CASE t \in [pc : {"matching"}, r : Nat, of : SUBSET Nat, seen : Seq(LineRow)]
  BY <1>9
<1>10. CASE t \in [pc : {"booking"}, r : Nat, left : SUBSET Nat]
  BY <1>10
<1> QED BY <1>1, <1>2, <1>3, <1>4, <1>5, <1>6, <1>7, <1>8, <1>9, <1>10 DEF RcvCall

LEMMA RcvTerms ==
  ASSUME RowsTyped
  PROVE  /\ Len(receipts) \in Nat /\ DOMAIN receipts = 1 .. Len(receipts) /\ DOMAIN receipts \subseteq Nat
         /\ Len(goods) \in Nat /\ DOMAIN goods = 1 .. Len(goods) /\ DOMAIN goods \subseteq Nat
         /\ \A i \in DOMAIN goods : goods[i] \in GoodsRow /\ goods[i].accepted \in Nat
         /\ DOMAIN booked = DOMAIN goods /\ \A i \in DOMAIN booked : booked[i] \in Nat
         /\ \A k \in DOMAIN lines : lines[k] \in LineRow /\ lines[k].received \in Nat /\ lines[k].quantity \in Nat
         /\ Counted \subseteq DOMAIN goods /\ \A r : LinesOf(r) \subseteq DOMAIN goods
<1>1. /\ Len(receipts) \in Nat /\ DOMAIN receipts = 1 .. Len(receipts)
      /\ Len(goods) \in Nat /\ DOMAIN goods = 1 .. Len(goods)
      /\ \A i \in DOMAIN goods : goods[i] \in GoodsRow
      /\ DOMAIN booked = DOMAIN goods /\ \A i \in DOMAIN booked : booked[i] \in Nat
      /\ \A k \in DOMAIN lines : lines[k] \in LineRow
  BY DEF RowsTyped
<1>2. \A i \in DOMAIN goods : goods[i].accepted \in Nat
  BY <1>1 DEF GoodsRow
<1>3. \A k \in DOMAIN lines : lines[k].received \in Nat /\ lines[k].quantity \in Nat
  BY <1>1 DEF LineRow
<1>4. Counted \subseteq DOMAIN goods /\ \A r : LinesOf(r) \subseteq DOMAIN goods
  BY DEF Counted, LinesOf
<1>5. DOMAIN receipts \subseteq Nat /\ DOMAIN goods \subseteq Nat
  BY <1>1
<1> QED BY <1>1, <1>2, <1>3, <1>4, <1>5

-----------------------------------------------------------------------------
LEMMA TallyIs ==
  ASSUME RowsTyped, NEW k, NEW S, S \subseteq DOMAIN goods
  PROVE  /\ IsFiniteSet(S) /\ Tally(k, S) \in Int /\ Tally(k, {}) = 0
         /\ \A i \in DOMAIN goods \ S : Tally(k, S \union {i}) = (IF goods[i].of = k THEN goods[i].accepted ELSE 0) + Tally(k, S)
<1> DEFINE f == LineAmounts(k)
<1>1. IsFiniteSet(S)
  <2>1. IsFiniteSet(1 .. Len(goods))
    BY RcvTerms, SegmentFinite
  <2> QED BY <2>1, RcvTerms, FS_Subset
<1>2. \A i \in DOMAIN goods : f[i] = (IF goods[i].of = k THEN goods[i].accepted ELSE 0) /\ f[i] \in Int
  BY RcvTerms DEF LineAmounts
<1> HIDE DEF f
<1>3. SumFunctionOnSet(f, S) \in Int
  BY <1>1, <1>2, SumStep
<1>4. SumFunctionOnSet(f, {}) = 0
  BY SumEmpty
<1>5. \A i \in DOMAIN goods \ S : SumFunctionOnSet(f, S \union {i}) = f[i] + SumFunctionOnSet(f, S)
  BY <1>1, <1>2, SumAdd
<1> QED BY <1>1, <1>2, <1>3, <1>4, <1>5 DEF Tally, f

\* Lines that stay count for as much.
LEMMA TallyStays ==
  ASSUME RowsTyped, NEW k, NEW S, S \subseteq DOMAIN goods, S \subseteq DOMAIN goods', \A i \in S : goods'[i] = goods[i]
  PROVE  Tally(k, S)' = Tally(k, S)
<1> DEFINE f == LineAmounts(k)
           g == LineAmounts(k)'
<1>1. IsFiniteSet(S)
  BY TallyIs
<1>2. \A i \in S : f[i] = g[i]
  BY DEF LineAmounts
<1>3. Tally(k, S) = SumFunctionOnSet(f, S) /\ Tally(k, S)' = SumFunctionOnSet(g, S)
  BY DEF Tally
<1> HIDE DEF f, g
<1> QED BY <1>1, <1>2, <1>3, SumSame

LEMMA SameSums ==
  ASSUME NEW t, lines' = lines, goods' = goods, Counted' = Counted
  PROVE  /\ Fits(t) => Fits(t)'
         /\ booked' = booked /\ Exact(t) => Exact(t)'
<1>1. \A k, S : Tally(k, S)' = Tally(k, S)
  BY DEF Tally, LineAmounts
<1>2. \A i \in DOMAIN goods : Confirmed(i)' <=> Confirmed(i)
  BY DEF Counted
<1>3. Added(t)' = Added(t) /\ Unbooked(t)' = Unbooked(t)
  BY DEF Added, Unbooked
<1>4. \A k : Tally(k, Counted \union Added(t))' = Tally(k, Counted \union Added(t))
  BY <1>3 DEF Tally, LineAmounts
<1> QED BY <1>2, <1>3, <1>4 DEF Fits, Exact

\* What no step takes back.
RcvGrown ==
  /\ DOMAIN receipts \subseteq DOMAIN receipts' /\ DOMAIN lines \subseteq DOMAIN lines' /\ DOMAIN goods \subseteq DOMAIN goods'
  /\ \A i \in DOMAIN goods : goods'[i] = goods[i]

\* What a step of another request leaves of the rows R.
OrderAlone ==
  /\ order' = order /\ lines' = lines /\ goods' = goods /\ booked' = booked /\ billed' = billed /\ lost' = lost
  /\ \A r \in DOMAIN receipts : receipts'[r] = "CONFIRMED" <=> receipts[r] = "CONFIRMED"
  /\ DOMAIN receipts' = DOMAIN receipts
RcvUntouched(R) ==
  /\ OrderRow \in R => OrderAlone
  /\ \A r \in DOMAIN receipts : ReceiptRow(r) \in R => receipts'[r] = receipts[r]

LEMMA SameCounted ==
  ASSUME RowsTyped, goods' = goods,
         \A r \in DOMAIN receipts : receipts'[r] = "CONFIRMED" <=> receipts[r] = "CONFIRMED"
  PROVE  Counted' = Counted
BY DEF Counted, Confirmed, RowsTyped

LEMMA RcvKnownStays ==
  ASSUME RcvGrown, NEW t, RcvKnown(t)
  PROVE  RcvKnown(t)'
BY DEF RcvKnown, RcvGrown

LEMMA RcvHeldStays ==
  ASSUME RowsTyped, NEW t \in RcvCall, NEW R, RcvKnown(t), RcvRows(t, R), RcvUntouched(R), RcvHeld(t)
  PROVE  RcvHeld(t)' /\ (OrderRow \in R /\ Exact(t) => Exact(t)')
<1> USE DEF Confirming
<1>1. t.pc \notin {"idle", "withdrawing"} => OrderRow \in R
  BY DEF RcvRows
<1>2. CASE OrderRow \notin R
  <2>1. t.pc \in {"idle", "withdrawing"}
    BY <1>1, <1>2
  <2>2. t.pc = "withdrawing" => receipts'[t.r] = "DRAFT"
    BY DEF RcvKnown, RcvRows, RcvUntouched, RcvHeld
  <2> QED BY <1>2, <2>1, <2>2 DEF RcvHeld
<1>3. CASE OrderRow \in R
  <2>1. /\ order' = order /\ lines' = lines /\ goods' = goods /\ booked' = booked /\ lost' = lost
        /\ \A r \in DOMAIN receipts : receipts'[r] = "CONFIRMED" <=> receipts[r] = "CONFIRMED"
    BY <1>3 DEF RcvUntouched, OrderAlone
  <2>2. Counted' = Counted
    BY <2>1, SameCounted
  <2>3. (Fits(t) => Fits(t)') /\ (Exact(t) => Exact(t)')
    BY <2>1, <2>2, SameSums
  <2>4. t.pc \in {"listing", "booking"} => (receipts'[t.r] = "CONFIRMED" <=> receipts[t.r] = "CONFIRMED")
    BY <2>1 DEF RcvKnown
  <2>5. t.pc \in Confirming \union {"withdrawing"} => receipts'[t.r] = "DRAFT"
    BY DEF RcvKnown, RcvRows, RcvUntouched, RcvHeld
  <2>6. \A r : LinesOf(r)' = LinesOf(r)
    BY <2>1 DEF LinesOf
  <2>7. Added(t)' = Added(t)
    BY DEF Added
  <2>8. RcvHeld(t)'
    BY <2>1, <2>3, <2>4, <2>5, <2>6, <2>7 DEF RcvHeld
  <2> QED BY <2>3, <2>8
<1> QED BY <1>2, <1>3

\* Request c makes a step on rows of its own, and keeps its part.
LEMMA RcvFrame ==
  ASSUME RcvKept, NEW c \in Call, RcvGrown, Apart', Moved(c), NEW next \in RcvCall, call'[c] = next,
         RowsTyped', RcvKnown(next)', RcvRows(next, touches'[c]), faults' = 0 => lost' = lost,
         disjoint' /\ disjoint /\ RcvHolds /\ OrderRow \notin touches[c] => OrderAlone,
         OrderRow \in touches[c] /\ OrderRow \notin touches'[c] => next = Idle,
         \A r \in DOMAIN receipts : ReceiptRow(r) \notin touches[c] => receipts'[r] = receipts[r],
         disjoint' /\ disjoint /\ RcvHolds => RcvHeld(next)' /\ ReceiptsKept',
         disjoint' /\ faults' = 0 /\ faults = 0 /\ RcvHolds /\ OrderRow \in touches[c] \union touches'[c] => Exact(next)'
  PROVE  RcvKept'
<1>1. RcvTyped /\ Apart /\ RowsTyped
  BY DEF RcvKept, RcvTyped
<1>2. ASSUME NEW d \in Call \ {c}
      PROVE  /\ RcvKnown(call[d])' /\ RcvRows(call'[d], touches'[d])
             /\ disjoint' /\ disjoint /\ RcvHolds => RcvHeld(call[d])' /\ (OrderRow \in touches[d] /\ Exact(call[d]) => Exact(call[d])')
             /\ call'[d] = call[d] /\ touches'[d] = touches[d] /\ (disjoint' => touches[d] \intersect touches[c] = {})
  <2>1. PICK t, R : t = call[d] /\ R = touches[d]
    OBVIOUS
  <2>2. t \in RcvCall /\ RcvKnown(t) /\ RcvRows(t, R) /\ call'[d] = t /\ touches'[d] = R
    BY <1>1, <2>1 DEF RcvTyped, Moved
  <2>3. RcvKnown(t)'
    BY <2>2, RcvKnownStays
  <2>4. disjoint' => R \intersect touches[c] = {}
    BY <1>1, <2>1 DEF Moved, Apart
  <2>5. disjoint' /\ disjoint /\ RcvHolds => RcvUntouched(R)
    BY <2>4 DEF RcvUntouched
  <2>6. RcvHolds => RcvHeld(t)
    BY <2>1 DEF RcvHolds
  <2>7. disjoint' /\ disjoint /\ RcvHolds => RcvHeld(t)' /\ (OrderRow \in R /\ Exact(t) => Exact(t)')
    BY <1>1, <2>2, <2>5, <2>6, RcvHeldStays
  <2>8. RcvKnown(call[d])' /\ (RcvHeld(t)' => RcvHeld(call[d])') /\ (Exact(t)' => Exact(call[d])')
    BY <2>2, <2>3 DEF RcvKnown, RcvHeld, Exact, Fits, Added, Unbooked, Tally
  <2> QED BY <2>1, <2>2, <2>4, <2>7, <2>8
<1>3. RcvTyped'
  <2>1. call' \in [Call -> RcvCall]
    BY <1>1 DEF RcvTyped, Moved
  <2>2. RcvKnown(call[c])' /\ RcvRows(call[c], touches[c])'
    BY DEF RcvKnown, RcvRows
  <2>3. \A d \in Call : RcvKnown(call[d])' /\ RcvRows(call[d], touches[d])'
    BY <1>2, <2>2 DEF RcvRows
  <2>4. faults' = 0 => lost' = {}
    BY <1>1 DEF RcvTyped, Moved
  <2> QED BY <2>1, <2>3, <2>4 DEF RcvTyped
<1>4. ASSUME disjoint' PROVE RcvHolds'
  <2>1. disjoint /\ RcvHolds /\ (faults' = 0 => faults = 0)
    BY <1>4 DEF RcvKept, Moved
  <2>2. RcvHeld(call[c])'
    BY <1>4, <2>1 DEF RcvHeld, Fits, Added, Tally
  <2>3. \A d \in Call : RcvHeld(call[d])'
    BY <1>2, <1>4, <2>1, <2>2
  <2>4. ReceiptsKept'
    BY <1>4, <2>1
  <2>5. ASSUME faults' = 0 PROVE InStep'
    <3>1. InStep /\ faults = 0
      BY <2>1, <2>5 DEF RcvHolds
    <3>2. OrderRow \in touches[c] \union touches'[c] => Exact(call[c])'
      BY <1>4, <2>1, <2>5, <3>1 DEF Exact, Added, Unbooked, Tally
    <3>3. \A d \in Call \ {c} : OrderRow \in touches'[d] => Exact(call[d])'
      BY <1>2, <1>4, <2>1, <3>1 DEF InStep
    <3>4. ASSUME \A d \in Call : OrderRow \notin touches'[d] PROVE Exact(Idle)'
      <4>1. \A d \in Call \ {c} : OrderRow \notin touches[d]
        BY <3>4, <1>2
      <4>2. CASE OrderRow \in touches[c]
        <5>1. next = Idle /\ Exact(next)'
          BY <1>4, <2>1, <2>5, <3>1, <3>4, <4>2
        <5> QED BY <5>1
      <4>3. CASE OrderRow \notin touches[c]
        <5>1. Exact(Idle)
          BY <4>1, <4>3, <3>1 DEF InStep
        <5>2. OrderAlone
          BY <1>4, <2>1, <4>3
        <5>3. Counted' = Counted
          BY <1>1, <5>2, SameCounted DEF OrderAlone
        <5> QED BY <5>1, <5>2, <5>3, SameSums DEF OrderAlone
      <4> QED BY <4>2, <4>3
    <3> QED BY <3>2, <3>3, <3>4 DEF InStep
  <2> QED BY <2>3, <2>4, <2>5 DEF RcvHolds
<1> QED BY <1>3, <1>4 DEF RcvKept

\* A request goes on, or ends.
RcvGoes(c, next) ==
  \/ next # Idle /\ \E R : R # {} /\ RcvRows(next, R) /\ Arrive(c, R, next)
  \/ next # Idle /\ call[c] # Idle /\ RcvRows(next, touches[c]) /\ (Await(c, next) \/ Falter(c, next))
  \/ next = Idle /\ (Answer(c) \/ Perish(c))

LEMMA Faltering ==
  ASSUME Apart, NEW c \in Call, NEW next, Falter(c, next), next.pc # "idle", call[c] # Idle
  PROVE  Apart' /\ Moved(c) /\ call'[c] = next /\ touches' = touches /\ faults' # 0
<1>1. next # Idle
  BY DEF Idle
<1>2. call' = [call EXCEPT ![c] = next] /\ touches' = touches /\ disjoint' = disjoint /\ faults' = faults + 1
  BY DEF Falter
<1>3. faults' \in Nat /\ faults' # 0
  BY <1>2 DEF Apart
<1> QED BY <1>1, <1>2, <1>3 DEF Apart, Moved, Undisturbed

LEMMA RcvMoves ==
  ASSUME Apart, NEW c \in Call, NEW next \in RcvCall, RcvGoes(c, next)
  PROVE  /\ Apart' /\ Moved(c) /\ call'[c] = next /\ RcvRows(next, touches'[c])
         /\ Perish(c) => faults' # 0
         /\ OrderRow \in touches[c] /\ OrderRow \notin touches'[c] => next = Idle
         /\ OrderRow \in touches'[c] /\ OrderRow \notin touches[c] => call[c] = Idle
         /\ OrderRow \in touches'[c] => next # Idle
<1>1. next = Idle <=> next.pc = "idle"
  BY RcvForms
<1>2. CASE next # Idle /\ \E R : R # {} /\ RcvRows(next, R) /\ Arrive(c, R, next)
  <2>1. PICK R : R # {} /\ RcvRows(next, R) /\ Arrive(c, R, next)
    BY <1>2
  <2>2. ~ Perish(c) /\ touches[c] = {}
    BY <1>1, <2>1 DEF Arrive, Perish, Apart
  <2> QED BY <1>1, <1>2, <2>1, <2>2, Arriving
<1>3. CASE next # Idle /\ call[c] # Idle /\ RcvRows(next, touches[c]) /\ Await(c, next)
  <2>1. ~ Perish(c)
    BY <1>1, <1>3 DEF Await, Perish, Apart
  <2> QED BY <1>1, <1>3, <2>1, Awaiting
<1>4. CASE next # Idle /\ call[c] # Idle /\ RcvRows(next, touches[c]) /\ Falter(c, next)
  BY <1>1, <1>4, Faltering
<1>5. RcvRows(Idle, {})
  BY DEF RcvRows, Idle, Confirming
<1>6. CASE next = Idle /\ Answer(c)
  <2>1. ~ Perish(c)
    BY <1>1, <1>6 DEF Answer, Perish, Apart
  <2> QED BY <1>1, <1>5, <1>6, <2>1, Answering
<1>7. CASE next = Idle /\ Perish(c)
  BY <1>1, <1>5, <1>7, Perishing
<1> QED BY <1>2, <1>3, <1>4, <1>6, <1>7 DEF RcvGoes

\* What request c leaves in the records before it makes its step.
LEMMA ExactBefore ==
  ASSUME RcvTyped, NEW c \in Call, NEW next \in RcvCall, RcvGoes(c, next), disjoint', RcvHolds, faults = 0,
         OrderRow \in touches[c] \union touches'[c]
  PROVE  Exact(call[c])
<1>1. Apart /\ InStep /\ Moved(c) /\ (OrderRow \in touches'[c] /\ OrderRow \notin touches[c] => call[c] = Idle)
  BY RcvMoves DEF RcvTyped, RcvHolds
<1>2. CASE OrderRow \in touches[c]
  BY <1>1, <1>2 DEF InStep
<1>3. CASE OrderRow \notin touches[c]
  <2>1. \A d \in Call \ {c} : OrderRow \notin touches[d]
    BY <1>1, <1>3 DEF Moved
  <2> QED BY <1>1, <1>3, <2>1 DEF InStep
<1> QED BY <1>2, <1>3

\* Nothing but the request's state changes.
LEMMA RcvStill ==
  ASSUME RcvKept, NEW c \in Call, UNCHANGED receivingVars, NEW next \in RcvCall, RcvGoes(c, next), RcvKnown(next),
         disjoint /\ RcvHolds => RcvHeld(next) /\ (faults' = 0 => Added(next) = Added(call[c]) /\ Unbooked(next) = Unbooked(call[c]))
  PROVE  RcvKept'
<1>1. /\ order' = order /\ lines' = lines /\ receipts' = receipts /\ goods' = goods
      /\ booked' = booked /\ billed' = billed /\ lost' = lost
      /\ RcvTyped /\ RowsTyped /\ Apart
  BY DEF receivingVars, RcvKept, RcvTyped
<1>2. /\ Apart' /\ Moved(c) /\ call'[c] = next /\ RcvRows(next, touches'[c])
      /\ OrderRow \in touches[c] /\ OrderRow \notin touches'[c] => next = Idle
  BY <1>1, RcvMoves
<1>3. Counted' = Counted /\ OrderAlone /\ RcvGrown
  BY <1>1 DEF Counted, Confirmed, OrderAlone, RcvGrown
<1>4. RcvKnown(next)'
  BY <1>3, RcvKnownStays
<1>5. RowsTyped'
  BY <1>1 DEF RowsTyped
<1>6. disjoint' /\ disjoint /\ RcvHolds => RcvHeld(next)' /\ ReceiptsKept'
  <2>1. RcvHeld(next) => RcvHeld(next)'
    <3>1. Fits(next) => Fits(next)'
      BY <1>1, <1>3, SameSums
    <3> QED BY <1>1, <3>1 DEF RcvHeld, LinesOf, Added
  <2>2. RcvHolds => ReceiptsKept'
    <3>1. Fits(Idle) => Fits(Idle)'
      BY <1>1, <1>3, SameSums
    <3> QED BY <1>1, <3>1 DEF RcvHolds, ReceiptsKept, Confirmed
  <2> QED BY <2>1, <2>2
<1>7. ASSUME disjoint', faults' = 0, faults = 0, RcvHolds, OrderRow \in touches[c] \union touches'[c]
      PROVE  Exact(next)'
  <2>1. Exact(call[c]) /\ disjoint
    BY <1>1, <1>2, <1>7, ExactBefore DEF Moved
  <2>2. Exact(call[c]) => Exact(next)
    BY <1>7, <2>1 DEF Exact
  <2> QED BY <1>1, <1>3, <2>1, <2>2, SameSums
<1>8. \A r \in DOMAIN receipts : receipts'[r] = receipts[r]
  BY <1>1
<1> QED BY <1>1, <1>2, <1>3, <1>4, <1>5, <1>6, <1>7, <1>8, RcvFrame

-----------------------------------------------------------------------------
LEMMA ReadOrderKeeps ==
  ASSUME RcvKept, NEW c \in Call, NEW verb \in DOMAIN OrderFrom, ReadOrder(c, verb)
  PROVE  RcvKept'
<1>1. PICK next : next = [pc |-> IF verb = "editLines" THEN "cutting" ELSE "ordering", verb |-> verb, seen |-> order]
  OBVIOUS
<1>2. next \in RcvCall /\ next # Idle
  BY <1>1 DEF RcvCall, RcvKept, RcvTyped, RowsTyped, Idle
<1>3. order.status \in OrderFrom[verb] /\ UNCHANGED receivingVars /\ Arrive(c, {OrderRow}, next)
  BY <1>1 DEF ReadOrder
<1>4. RcvKnown(next) /\ RcvRows(next, {OrderRow}) /\ RcvHeld(next)
  BY <1>1, <1>3 DEF RcvKnown, RcvRows, RcvHeld, Confirming
<1>5. Added(next) = Added(call[c]) /\ Unbooked(next) = Unbooked(call[c])
  BY <1>1, <1>3 DEF Added, Unbooked, Idle, Arrive
<1>6. RcvGoes(c, next)
  BY <1>2, <1>3, <1>4 DEF RcvGoes
<1> QED BY <1>2, <1>3, <1>4, <1>5, <1>6, RcvStill

LEMMA BeginReceiptKeeps ==
  ASSUME RcvKept, NEW c \in Call, NEW m \in Nat, NEW d \in Delivery(m), BeginReceipt(c, d)
  PROVE  RcvKept'
<1>1. PICK next : next = [pc |-> "drafting", delivery |-> d]
  OBVIOUS
<1>2. d \in Deliveries /\ \A j \in DOMAIN d : d[j].of \in DOMAIN lines
  <2>1. Quantities \subseteq Nat /\ DOMAIN lines \subseteq Nat
    BY ReceivingAssumption DEF RcvKept, RcvTyped, RowsTyped
  <2>2. d \in [1 .. m -> [of : Nat, accepted : Nat]] /\ \A j \in DOMAIN d : d[j].of \in DOMAIN lines
    BY <2>1 DEF Delivery
  <2>3. PICK S : S = [of : Nat, accepted : Nat]
    OBVIOUS
  <2>4. d \in [1 .. m -> S]
    BY <2>2, <2>3
  <2>5. d \in Seq(S)
    BY <2>4
  <2> QED BY <2>2, <2>3, <2>5 DEF Deliveries
<1>3. next \in RcvCall /\ next # Idle
  BY <1>1, <1>2 DEF RcvCall, Idle
<1>4. /\ order.status \notin Early /\ UNCHANGED receivingVars /\ Arrive(c, {OrderRow}, next)
      /\ \A j \in DOMAIN d : ~ lines[d[j].of].gone
  BY <1>1 DEF BeginReceipt, Early
<1>5. RcvKnown(next) /\ RcvRows(next, {OrderRow}) /\ RcvHeld(next)
  BY <1>1, <1>2, <1>4 DEF RcvKnown, RcvRows, RcvHeld, Confirming
<1>6. Added(next) = Added(call[c]) /\ Unbooked(next) = Unbooked(call[c])
  BY <1>1, <1>4 DEF Added, Unbooked, Idle, Arrive
<1>7. RcvGoes(c, next)
  BY <1>3, <1>4, <1>5 DEF RcvGoes
<1> QED BY <1>3, <1>4, <1>5, <1>6, <1>7, RcvStill

LEMMA CancelReceiptKeeps ==
  ASSUME RcvKept, NEW c \in Call, NEW r \in DOMAIN receipts, CancelReceipt(c, r)
  PROVE  RcvKept'
<1>1. PICK next : next = [pc |-> "withdrawing", r |-> r]
  OBVIOUS
<1>2. next \in RcvCall /\ next # Idle
  <2>1. r \in Nat
    BY RcvTerms DEF RcvKept, RcvTyped
  <2> QED BY <1>1, <2>1 DEF RcvCall, Idle
<1>3. receipts[r] = "DRAFT" /\ UNCHANGED receivingVars /\ Arrive(c, {ReceiptRow(r)}, next)
  BY <1>1 DEF CancelReceipt
<1>4. RcvKnown(next) /\ RcvRows(next, {ReceiptRow(r)}) /\ RcvHeld(next)
  BY <1>1, <1>3 DEF RcvKnown, RcvRows, RcvHeld, Confirming
<1>5. Added(next) = Added(call[c]) /\ Unbooked(next) = Unbooked(call[c])
  BY <1>1, <1>3 DEF Added, Unbooked, Idle, Arrive
<1>6. RcvGoes(c, next)
  BY <1>2, <1>3, <1>4 DEF RcvGoes
<1> QED BY <1>2, <1>3, <1>4, <1>5, <1>6, RcvStill

LEMMA BeginConfirmKeeps ==
  ASSUME RcvKept, NEW c \in Call, NEW r \in DOMAIN receipts, BeginConfirm(c, r)
  PROVE  RcvKept'
<1>1. PICK rows : rows = LinesOf(r)
  OBVIOUS
<1>2. PICK next : next = [pc |-> "receiving", r |-> r, of |-> rows, left |-> rows]
  OBVIOUS
<1>3. r \in Nat /\ rows \subseteq DOMAIN goods /\ rows \in SUBSET Nat
  BY <1>1, RcvTerms DEF RcvKept, RcvTyped
<1>4. next \in RcvCall /\ next # Idle
  BY <1>2, <1>3 DEF RcvCall, Idle
<1>5. receipts[r] = "DRAFT" /\ UNCHANGED receivingVars /\ Arrive(c, {OrderRow, ReceiptRow(r)}, next)
  BY <1>1, <1>2 DEF BeginConfirm
<1>6. RcvKnown(next) /\ RcvRows(next, {OrderRow, ReceiptRow(r)})
  BY <1>2, <1>3 DEF RcvKnown, RcvRows, Confirming
<1>7. Added(next) = {} /\ Unbooked(next) = {} /\ Added(Idle) = {} /\ Unbooked(Idle) = {} /\ call[c] = Idle
  BY <1>2, <1>5 DEF Added, Unbooked, Idle, Arrive
<1>8. ASSUME RcvHolds PROVE RcvHeld(next)
  <2>1. Fits(next)
    BY <1>7, <1>8 DEF RcvHolds, ReceiptsKept, Fits
  <2> QED BY <1>1, <1>2, <1>5, <1>7, <2>1 DEF RcvHeld, Confirming
<1>9. RcvGoes(c, next)
  BY <1>4, <1>5, <1>6 DEF RcvGoes
<1> QED BY <1>4, <1>5, <1>6, <1>7, <1>8, <1>9, RcvStill

LEMMA ReadLineKeeps ==
  ASSUME RcvKept, NEW c \in Call, NEW i \in DOMAIN goods, ReadLine(c, i)
  PROVE  RcvKept'
<1>1. RcvTyped /\ RowsTyped /\ call[c].pc = "receiving" /\ call[c] # Idle /\ call[c] \in RcvCall /\ i \in call[c].left
  BY DEF RcvKept, RcvTyped, ReadLine, At, Idle
<1>2. PICK t, ordered : t = call[c] /\ ordered = lines[goods[i].of]
  OBVIOUS
<1>3. PICK r, rows, left : r = t.r /\ rows = t.of /\ left = t.left
  OBVIOUS
<1>4. t \in [pc : {"receiving"}, r : Nat, of : SUBSET Nat, left : SUBSET Nat]
  BY <1>1, <1>2 DEF RcvCall, Idle
<1>5. /\ r \in DOMAIN receipts /\ rows \subseteq DOMAIN goods /\ left \subseteq DOMAIN goods /\ i \in left /\ i \in Nat
      /\ {OrderRow, ReceiptRow(r)} \subseteq touches[c] /\ ordered \in LineRow
  <2>1. RcvKnown(t) /\ RcvRows(t, touches[c])
    BY <1>1, <1>2 DEF RcvTyped
  <2>2. i \in Nat /\ ordered \in LineRow
    BY <1>1, <1>2, RcvTerms DEF RowsTyped
  <2> QED BY <1>1, <1>2, <1>3, <2>1, <2>2 DEF RcvKnown, RcvRows, Confirming
<1>6. PICK next : next = IF ordered.gone THEN [t EXCEPT !.left = left \ {i}]
                         ELSE [pc |-> "adding", r |-> r, of |-> rows, left |-> left, line |-> i, seen |-> ordered]
  OBVIOUS
<1>7. Await(c, next) /\ UNCHANGED receivingVars
  BY <1>2, <1>3, <1>6 DEF ReadLine
<1>8. CASE ordered.gone
  <2>1. /\ next.pc = "receiving" /\ next.r = r /\ next.of = rows /\ next.left = left \ {i}
        /\ next \in [pc : {"receiving"}, r : Nat, of : SUBSET Nat, left : SUBSET Nat]
    BY <1>3, <1>4, <1>6, <1>8
  <2>2. next \in RcvCall /\ next # Idle
    BY <2>1 DEF RcvCall, Idle
  <2>3. RcvKnown(next) /\ RcvRows(next, touches[c])
    BY <1>5, <2>1 DEF RcvKnown, RcvRows, Confirming
  <2>4. ~ RcvHolds
    BY <1>1, <1>2, <1>8 DEF RcvHolds, ReceiptsKept
  <2>5. RcvGoes(c, next)
    BY <1>1, <1>7, <2>2, <2>3 DEF RcvGoes
  <2> QED BY <1>7, <2>2, <2>3, <2>4, <2>5, RcvStill
<1>9. CASE ~ ordered.gone
  <2>1. next = [pc |-> "adding", r |-> r, of |-> rows, left |-> left, line |-> i, seen |-> ordered]
    BY <1>6, <1>9
  <2>2. next \in RcvCall /\ next # Idle
    BY <1>3, <1>4, <1>5, <2>1 DEF RcvCall, Idle
  <2>3. RcvKnown(next) /\ RcvRows(next, touches[c])
    BY <1>5, <2>1 DEF RcvKnown, RcvRows, Confirming
  <2>4. Added(next) = Added(t) /\ Unbooked(next) = Unbooked(t)
    BY <1>1, <1>2, <1>3, <2>1 DEF Added, Unbooked
  <2>5. ASSUME RcvHolds PROVE RcvHeld(next)
    <3>1. RcvHeld(t)
      BY <1>2, <2>5 DEF RcvHolds
    <3>2. Fits(t) /\ receipts[r] = "DRAFT" /\ rows = LinesOf(r) /\ left \subseteq rows
      BY <1>1, <1>2, <1>3, <3>1 DEF RcvHeld, Confirming
    <3>3. \A j \in Added(next) : goods[j].accepted <= lines[goods[j].of].received
      BY <1>1, <1>2, <2>4, <3>1 DEF RcvHeld, Confirming
    <3>4. Fits(next)
      BY <2>4, <3>2 DEF Fits
    <3> QED BY <1>2, <2>1, <3>2, <3>3, <3>4 DEF RcvHeld, Confirming
  <2>6. RcvGoes(c, next)
    BY <1>1, <1>7, <2>2, <2>3 DEF RcvGoes
  <2> QED BY <1>2, <1>7, <2>2, <2>3, <2>4, <2>5, <2>6, RcvStill
<1> QED BY <1>8, <1>9

LEMMA WeighOrderKeeps ==
  ASSUME RcvKept, NEW c \in Call, WeighOrder(c)
  PROVE  RcvKept'
<1>1. RcvTyped /\ RowsTyped /\ call[c].pc = "receiving" /\ call[c] # Idle /\ call[c] \in RcvCall /\ call[c].left = {}
  BY DEF RcvKept, RcvTyped, WeighOrder, At, Idle
<1>2. PICK t, r, rows : t = call[c] /\ r = call[c].r /\ rows = call[c].of
  OBVIOUS
<1>3. /\ r \in DOMAIN receipts /\ r \in Nat /\ rows \subseteq DOMAIN goods /\ rows \in SUBSET Nat
      /\ {OrderRow, ReceiptRow(r)} \subseteq touches[c] /\ lines \in Seq(LineRow)
  BY <1>1, <1>2, RcvForms DEF RcvTyped, RowsTyped, RcvKnown, RcvRows, Confirming
<1>4. PICK full \in BOOLEAN : Await(c, [pc |-> "marking", r |-> r, of |-> rows, seen |-> lines, full |-> full])
  BY <1>2 DEF WeighOrder
<1>5. PICK next : next = [pc |-> "marking", r |-> r, of |-> rows, seen |-> lines, full |-> full]
  OBVIOUS
<1>6. Await(c, next) /\ UNCHANGED receivingVars
  BY <1>4, <1>5 DEF WeighOrder
<1>7. next \in RcvCall /\ next # Idle /\ RcvKnown(next) /\ RcvRows(next, touches[c])
  BY <1>3, <1>5 DEF RcvCall, Idle, RcvKnown, RcvRows, Confirming
<1>8. Added(next) = Added(t) /\ Unbooked(next) = Unbooked(t)
  BY <1>1, <1>2, <1>5 DEF Added, Unbooked
<1>9. ASSUME RcvHolds PROVE RcvHeld(next)
  <2>1. RcvHeld(t)
    BY <1>2, <1>9 DEF RcvHolds
  <2>2. Fits(t) /\ receipts[r] = "DRAFT" /\ rows = LinesOf(r)
    BY <1>1, <1>2, <2>1 DEF RcvHeld, Confirming
  <2>3. \A j \in Added(next) : goods[j].accepted <= lines[goods[j].of].received
    BY <1>1, <1>2, <1>8, <2>1 DEF RcvHeld, Confirming
  <2>4. Fits(next)
    BY <1>8, <2>2 DEF Fits
  <2> QED BY <1>5, <2>2, <2>3, <2>4 DEF RcvHeld, Confirming
<1>10. RcvGoes(c, next)
  BY <1>1, <1>6, <1>7 DEF RcvGoes
<1> QED BY <1>2, <1>6, <1>7, <1>8, <1>9, <1>10, RcvStill

LEMMA SkipLineKeeps ==
  ASSUME RcvKept, NEW c \in Call, NEW i \in DOMAIN goods, SkipLine(c, i)
  PROVE  RcvKept'
<1>1. RcvTyped /\ RowsTyped /\ call[c].pc = "booking" /\ call[c] # Idle /\ call[c] \in RcvCall
  BY DEF RcvKept, RcvTyped, SkipLine, At, Idle
<1>2. PICK t, next : t = call[c] /\ next = [t EXCEPT !.left = t.left \ {i}]
  OBVIOUS
<1>3. Falter(c, next) /\ UNCHANGED receivingVars
  BY <1>2 DEF SkipLine
<1>4. t \in [pc : {"booking"}, r : Nat, left : SUBSET Nat]
  BY <1>1, <1>2 DEF RcvCall, Idle
<1>5. /\ next.pc = "booking" /\ next.r = t.r /\ next.left = t.left \ {i}
      /\ next \in [pc : {"booking"}, r : Nat, left : SUBSET Nat]
  BY <1>2, <1>4
<1>6. next \in RcvCall /\ next # Idle
  BY <1>5 DEF RcvCall, Idle
<1>7. RcvKnown(t) /\ RcvRows(t, touches[c])
  BY <1>1, <1>2 DEF RcvTyped
<1>8. RcvKnown(next) /\ RcvRows(next, touches[c])
  BY <1>1, <1>2, <1>5, <1>7 DEF RcvKnown, RcvRows, Confirming
<1>9. RcvHolds => RcvHeld(next)
  <2>1. RcvHolds => RcvHeld(t)
    BY <1>2 DEF RcvHolds
  <2> QED BY <1>1, <1>2, <1>5, <2>1 DEF RcvHeld, Confirming
<1>10. RcvGoes(c, next)
  BY <1>1, <1>3, <1>6, <1>8 DEF RcvGoes
<1>11. faults' # 0
  BY <1>1, <1>3, <1>5, Faltering DEF RcvTyped
<1> QED BY <1>3, <1>6, <1>8, <1>9, <1>10, <1>11, RcvStill

LEMMA RcvEnds ==
  /\ Idle \in RcvCall /\ RcvKnown(Idle) /\ RcvHeld(Idle)
  /\ Added(Idle) = {} /\ Unbooked(Idle) = {}
BY DEF RcvCall, RcvKnown, RcvHeld, Idle, Confirming, Added, Unbooked

LEMMA EndConfirmKeeps ==
  ASSUME RcvKept, NEW c \in Call, EndConfirm(c)
  PROVE  RcvKept'
<1>1. call[c].pc = "booking" /\ call[c].left = {} /\ Answer(c) /\ UNCHANGED receivingVars
  BY DEF EndConfirm, At
<1>2. Added(call[c]) = {} /\ Unbooked(call[c]) = {}
  BY <1>1 DEF Added, Unbooked
<1>3. RcvGoes(c, Idle)
  BY <1>1 DEF RcvGoes
<1> QED BY <1>1, <1>2, <1>3, RcvEnds, RcvStill

LEMMA PerishInReceivingKeeps ==
  ASSUME RcvKept, NEW c \in Call, PerishInReceiving(c)
  PROVE  RcvKept'
<1>1. Perish(c) /\ UNCHANGED receivingVars
  BY DEF PerishInReceiving
<1>2. RcvGoes(c, Idle)
  BY <1>1 DEF RcvGoes
<1>3. faults' # 0
  BY <1>1, Perishing DEF RcvKept, RcvTyped
<1> QED BY <1>1, <1>2, <1>3, RcvEnds, RcvStill

-----------------------------------------------------------------------------
LEMMA CutLinesKeeps ==
  ASSUME RcvKept, NEW c \in Call, CutLines(c)
  PROVE  RcvKept'
<1>1. RcvTyped /\ RowsTyped /\ Apart /\ call[c].pc = "cutting" /\ call[c] # Idle /\ call[c] \in RcvCall
  BY DEF RcvKept, RcvTyped, CutLines, At, Idle
<1>2. PICK t, next : t = call[c] /\ next = [t EXCEPT !.pc = "lining"]
  OBVIOUS
<1>3. t \in [pc : {"cutting", "lining", "ordering"}, verb : DOMAIN OrderFrom, seen : PurchaseOrder]
  BY <1>1, <1>2 DEF RcvCall, Idle
<1>4. next \in RcvCall /\ next # Idle /\ next.pc = "lining" /\ next.verb = t.verb /\ next.seen = t.seen
  BY <1>2, <1>3 DEF RcvCall, Idle
<1>5. RcvKnown(t) /\ RcvRows(t, touches[c])
  BY <1>1, <1>2 DEF RcvTyped
<1>6. RcvKnown(next)' /\ RcvRows(next, touches[c]) /\ OrderRow \in touches[c]
  BY <1>1, <1>2, <1>4, <1>5 DEF RcvKnown, RcvRows, Confirming
<1>7. /\ lines' = [k \in DOMAIN lines |-> [lines[k] EXCEPT !.gone = TRUE]] /\ Await(c, next)
      /\ order' = order /\ receipts' = receipts /\ goods' = goods /\ booked' = booked /\ billed' = billed /\ lost' = lost
  BY <1>2 DEF CutLines
<1>8. /\ lines' \in Seq(LineRow) /\ DOMAIN lines' = DOMAIN lines
      /\ \A k \in DOMAIN lines : lines'[k].received = lines[k].received
  <2>1. \A k \in DOMAIN lines : lines[k] \in LineRow
    BY <1>1, RcvTerms
  <2>2. \A k \in DOMAIN lines : [lines[k] EXCEPT !.gone = TRUE] \in LineRow /\ [lines[k] EXCEPT !.gone = TRUE].received = lines[k].received
    BY <2>1 DEF LineRow
  <2>3. DOMAIN lines = 1 .. Len(lines) /\ Len(lines) \in Nat
    BY <1>1 DEF RowsTyped
  <2>4. PICK g, n : g = lines' /\ n = Len(lines)
    OBVIOUS
  <2>5. g \in [1 .. n -> LineRow] /\ n \in Nat
    BY <1>7, <2>2, <2>3, <2>4
  <2>6. g \in Seq(LineRow) /\ DOMAIN g = 1 .. n
    BY <2>5
  <2>7. \A k \in DOMAIN lines : lines'[k] = [lines[k] EXCEPT !.gone = TRUE]
    BY <1>7
  <2>8. \A k \in DOMAIN lines : lines'[k].received = lines[k].received
    BY <2>2, <2>7
  <2> QED BY <2>3, <2>4, <2>6, <2>8
<1>9. RowsTyped' /\ RcvGrown
  BY <1>1, <1>7, <1>8 DEF RowsTyped, RcvGrown
<1>10. RcvGoes(c, next)
  BY <1>1, <1>4, <1>6, <1>7 DEF RcvGoes
<1>11. /\ Apart' /\ Moved(c) /\ call'[c] = next /\ RcvRows(next, touches'[c])
       /\ OrderRow \in touches[c] /\ OrderRow \notin touches'[c] => next = Idle
  BY <1>1, <1>4, <1>10, RcvMoves
<1>12. Counted' = Counted
  BY <1>7 DEF Counted, Confirmed
<1>13. \A u : (Fits(u) => Fits(u)') /\ (Exact(u) => Exact(u)')
  <2>1. \A k, S : Tally(k, S)' = Tally(k, S)
    BY <1>7 DEF Tally, LineAmounts
  <2>2. \A u, k : Tally(k, Counted \union Added(u))' = Tally(k, Counted \union Added(u))
    BY <1>7, <1>12 DEF Tally, LineAmounts, Added
  <2>3. \A u : Fits(u) => Fits(u)'
    <3>1. SUFFICES ASSUME NEW u, Fits(u), NEW k \in DOMAIN lines' PROVE Tally(k, Counted \union Added(u))' <= lines'[k].received
      BY DEF Fits
    <3>2. k \in DOMAIN lines /\ lines'[k].received = lines[k].received
      BY <1>8
    <3>3. Tally(k, Counted \union Added(u)) <= lines[k].received
      BY <3>1, <3>2 DEF Fits
    <3> QED BY <2>2, <3>2, <3>3
  <2>4. ASSUME NEW u, Exact(u) PROVE Exact(u)'
    <3>1. ASSUME NEW k \in DOMAIN lines' PROVE Tally(k, Counted \union Added(u))' = lines'[k].received
      <4>1. k \in DOMAIN lines /\ lines'[k].received = lines[k].received
        BY <1>8
      <4>2. Tally(k, Counted \union Added(u)) = lines[k].received
        BY <2>4, <4>1 DEF Exact
      <4> QED BY <2>2, <4>1, <4>2
    <3>2. \A i \in DOMAIN goods' : booked'[i] = IF Confirmed(i)' /\ i \notin Unbooked(u)' THEN goods'[i].accepted ELSE 0
      BY <1>7, <2>4 DEF Exact, Unbooked, Confirmed
    <3> QED BY <3>1, <3>2 DEF Exact
  <2> QED BY <2>3, <2>4
<1>14. ASSUME RcvHolds PROVE RcvHeld(next)' /\ ReceiptsKept'
  <2>1. RcvHeld(t) /\ ReceiptsKept
    BY <1>2, <1>14 DEF RcvHolds
  <2>2. t.seen = order /\ order.status \in OrderFrom[t.verb] /\ t.verb = "editLines"
    BY <1>1, <1>2, <1>5, <2>1 DEF RcvHeld, RcvKnown
  <2>3. RcvHeld(next)'
    BY <1>4, <1>7, <2>2 DEF RcvHeld, Confirming
  <2>4. goods = <<>> /\ order.status \in Early
    BY <2>1, <2>2 DEF ReceiptsKept, OrderFrom, Early
  <2>5. goods' = <<>> /\ DOMAIN goods' = {}
    BY <1>7, <2>4
  <2> QED BY <1>7, <1>13, <2>1, <2>3, <2>4, <2>5 DEF ReceiptsKept
<1>15. ASSUME RcvHolds, disjoint', faults = 0 PROVE Exact(next)'
  <2>1. Exact(t)
    BY <1>1, <1>2, <1>4, <1>6, <1>10, <1>15, ExactBefore
  <2>2. Exact(next)
    BY <1>1, <1>2, <1>4, <2>1 DEF Exact, Added, Unbooked
  <2> QED BY <1>13, <2>2
<1> QED BY <1>4, <1>6, <1>7, <1>9, <1>11, <1>14, <1>15, RcvFrame

LEMMA InsertLinesKeeps ==
  ASSUME RcvKept, NEW c \in Call, InsertLines(c)
  PROVE  RcvKept'
<1>1. RcvTyped /\ RowsTyped /\ Apart /\ call[c].pc = "lining" /\ call[c] # Idle /\ call[c] \in RcvCall
  BY DEF RcvKept, RcvTyped, InsertLines, At, Idle
<1>2. PICK t, next : t = call[c] /\ next = [t EXCEPT !.pc = "ordering"]
  OBVIOUS
<1>3. t \in [pc : {"cutting", "lining", "ordering"}, verb : DOMAIN OrderFrom, seen : PurchaseOrder]
  BY <1>1, <1>2 DEF RcvCall, Idle
<1>4. next \in RcvCall /\ next # Idle /\ next.pc = "ordering" /\ next.verb = t.verb /\ next.seen = t.seen
  BY <1>2, <1>3 DEF RcvCall, Idle
<1>5. RcvKnown(t) /\ RcvRows(t, touches[c])
  BY <1>1, <1>2 DEF RcvTyped
<1>6. RcvKnown(next)' /\ RcvRows(next, touches[c]) /\ OrderRow \in touches[c]
  BY <1>1, <1>2, <1>4, <1>5 DEF RcvKnown, RcvRows, Confirming
<1>7. PICK m \in 0 .. (MaxLines - Len(lines)) : \E batch \in [1 .. m -> Quantities] : lines' = lines \o NewLines(batch)
  BY DEF InsertLines, Batches
<1>8. PICK batch \in [1 .. m -> Nat] : lines' = lines \o NewLines(batch)
  BY <1>7, ReceivingAssumption
<1>9. /\ Await(c, next)
      /\ order' = order /\ receipts' = receipts /\ goods' = goods /\ booked' = booked /\ billed' = billed /\ lost' = lost
  BY <1>2 DEF InsertLines
<1>10. /\ lines' \in Seq(LineRow) /\ DOMAIN lines \subseteq DOMAIN lines'
       /\ \A k \in DOMAIN lines : lines'[k] = lines[k]
       /\ \A k \in DOMAIN lines' \ DOMAIN lines : lines'[k].received = 0
  <2>1. PICK rows : rows = NewLines(batch)
    OBVIOUS
  <2>2. rows = [k \in 1 .. m |-> [quantity |-> batch[k], received |-> 0, gone |-> FALSE]] /\ m \in Nat
    BY <1>8, <2>1 DEF NewLines
  <2>3. \A k \in 1 .. m : rows[k] \in LineRow /\ rows[k].received = 0
    BY <1>8, <2>2 DEF LineRow
  <2>4. rows \in Seq(LineRow) /\ Len(rows) = m
    BY <2>2, <2>3
  <2>5. /\ lines' \in Seq(LineRow) /\ Len(lines') = Len(lines) + m /\ Len(lines) \in Nat
        /\ DOMAIN lines = 1 .. Len(lines) /\ DOMAIN lines' = 1 .. (Len(lines) + m)
    BY <1>1, <1>8, <2>1, <2>4, <2>2 DEF RowsTyped
  <2>6. \A k \in DOMAIN lines' : lines'[k] = IF k <= Len(lines) THEN lines[k] ELSE rows[k - Len(lines)]
    BY <1>1, <1>8, <2>1, <2>4, <2>5 DEF RowsTyped
  <2>7. \A k \in DOMAIN lines' \ DOMAIN lines : k - Len(lines) \in 1 .. m /\ ~ (k <= Len(lines))
    BY <2>2, <2>5
  <2>8. DOMAIN lines \subseteq DOMAIN lines' /\ \A k \in DOMAIN lines : lines'[k] = lines[k]
    <3>1. \A k \in DOMAIN lines : k <= Len(lines) /\ k \in DOMAIN lines'
      BY <2>2, <2>5
    <3> QED BY <2>6, <3>1
  <2> QED BY <2>3, <2>5, <2>6, <2>7, <2>8
<1>11. RowsTyped' /\ RcvGrown
  BY <1>1, <1>9, <1>10 DEF RowsTyped, RcvGrown
<1>12. RcvGoes(c, next)
  BY <1>1, <1>4, <1>6, <1>9 DEF RcvGoes
<1>13. /\ Apart' /\ Moved(c) /\ call'[c] = next /\ RcvRows(next, touches'[c])
       /\ OrderRow \in touches[c] /\ OrderRow \notin touches'[c] => next = Idle
  BY <1>1, <1>4, <1>12, RcvMoves
<1>14. ASSUME RcvHolds
       PROVE  /\ goods = <<>> /\ goods' = <<>> /\ DOMAIN goods = {} /\ order.status \in Early
              /\ t.seen = order /\ order.status \in OrderFrom[t.verb] /\ ReceiptsKept
              /\ \A k : Tally(k, Counted) = 0 /\ Tally(k, Counted)' = 0
  <2>1. RcvHeld(t) /\ ReceiptsKept
    BY <1>2, <1>14 DEF RcvHolds
  <2>2. t.seen = order /\ order.status \in OrderFrom[t.verb] /\ t.verb = "editLines"
    BY <1>1, <1>2, <1>5, <2>1 DEF RcvHeld, RcvKnown
  <2>3. order.status \in Early /\ goods = <<>>
    BY <2>1, <2>2 DEF ReceiptsKept, OrderFrom, Early
  <2>4. DOMAIN goods = {} /\ Counted = {} /\ Counted' = {}
    BY <1>9, <2>3 DEF Counted
  <2>5. \A k : Tally(k, {}) = 0 /\ Tally(k, {})' = 0
    BY SumEmpty DEF Tally
  <2>6. \A k : Tally(k, Counted)' = SumFunctionOnSet(LineAmounts(k)', Counted')
    BY DEF Tally
  <2>7. \A k : Tally(k, Counted)' = 0
    BY <2>4, <2>6, SumEmpty
  <2> QED BY <1>9, <2>1, <2>2, <2>3, <2>4, <2>5, <2>7
<1>15. ASSUME RcvHolds PROVE RcvHeld(next)' /\ ReceiptsKept'
  <2>1. RcvHeld(next)'
    BY <1>4, <1>9, <1>14, <1>15 DEF RcvHeld, Confirming
  <2>2. \A k \in DOMAIN lines' : lines'[k].received >= 0
    <3>1. \A k \in DOMAIN lines' : lines'[k] \in LineRow
      BY <1>10
    <3>2. \A k \in DOMAIN lines' : lines'[k].received \in Nat
      BY <3>1 DEF LineRow
    <3> QED BY <3>2
  <2>3. Fits(Idle)'
    <3>1. \A k : Tally(k, Counted \union Added(Idle))' = Tally(k, Counted)'
      BY RcvEnds DEF Tally, Added, Idle
    <3> QED BY <1>14, <1>15, <2>2, <3>1 DEF Fits
  <2> QED BY <1>9, <1>14, <1>15, <2>1, <2>3 DEF ReceiptsKept
<1>16. ASSUME RcvHolds, disjoint', faults = 0 PROVE Exact(next)'
  <2>1. Exact(t)
    BY <1>1, <1>2, <1>4, <1>6, <1>12, <1>16, ExactBefore
  <2>2. Added(t) = {} /\ Added(next) = {}
    BY <1>1, <1>2, <1>4 DEF Added
  <2>3. \A k \in DOMAIN lines : lines[k].received = 0
    BY <1>14, <1>16, <2>1, <2>2 DEF Exact
  <2>4. \A k \in DOMAIN lines' : lines'[k].received = 0
    BY <1>10, <2>3
  <2>5. \A k : Tally(k, Counted \union Added(next))' = Tally(k, Counted)'
    BY <2>2 DEF Tally, Added
  <2> QED BY <1>9, <1>14, <1>16, <2>4, <2>5 DEF Exact
<1> QED BY <1>4, <1>6, <1>9, <1>11, <1>13, <1>15, <1>16, RcvFrame

\* A step that leaves the records alone, but for the status of receipts no one confirms.
LEMMA SameRecords ==
  ASSUME RowsTyped, lines' = lines, goods' = goods, booked' = booked, billed' = billed, lost' = lost, Counted' = Counted,
         DOMAIN receipts \subseteq DOMAIN receipts',
         \A r \in DOMAIN receipts : receipts'[r] = "CONFIRMED" <=> receipts[r] = "CONFIRMED",
         order'.status \in Early => order.status \in Early /\ receipts' = receipts
  PROVE  ReceiptsKept => ReceiptsKept'
<1>1. Fits(Idle) => Fits(Idle)'
  BY SameSums
<1>2. \A i \in DOMAIN goods : Confirmed(i)' <=> Confirmed(i)
  BY DEF Counted
<1> QED BY <1>1, <1>2 DEF ReceiptsKept

LEMMA SaveOrderKeeps ==
  ASSUME RcvKept, NEW c \in Call, SaveOrder(c)
  PROVE  RcvKept'
<1>1. RcvTyped /\ RowsTyped /\ Apart /\ call[c].pc = "ordering" /\ call[c] # Idle /\ call[c] \in RcvCall
  BY DEF RcvKept, RcvTyped, SaveOrder, At, Idle
<1>2. PICK verb, seen : verb = call[c].verb /\ seen = call[c].seen
  OBVIOUS
<1>3. verb \in DOMAIN OrderFrom /\ seen \in PurchaseOrder
  BY <1>1, <1>2, RcvForms
<1>4. PICK n \in Nat : order' = OrderTo(verb, seen, n)
  BY <1>2, ReceivingAssumption DEF SaveOrder
<1>5. Answer(c) /\ lines' = lines /\ receipts' = receipts /\ goods' = goods /\ booked' = booked /\ billed' = billed /\ lost' = lost
  BY DEF SaveOrder
<1>6. order' \in PurchaseOrder /\ (order'.status \in Early /\ seen.status \in OrderFrom[verb] => seen.status \in Early)
  <2>1. verb \in {"edit", "editLines", "approve", "submit", "approveLevel", "reject", "release", "send", "cancel"}
    BY <1>3 DEF OrderFrom
  <2>2. seen.level \in Nat /\ seen.status \in OrderStatus /\ seen = [status |-> seen.status, level |-> seen.level]
    BY <1>3 DEF PurchaseOrder
  <2>3. CASE verb \in {"edit", "editLines"}
    BY <1>3, <1>4, <2>3 DEF OrderTo
  <2>4. CASE verb = "approve"
    BY <1>3, <1>4, <2>2, <2>4 DEF OrderTo, PurchaseOrder, OrderStatus, Early
  <2>5. CASE verb = "submit"
    BY <1>3, <1>4, <2>2, <2>5 DEF OrderTo, PurchaseOrder, OrderStatus, Early, OrderFrom
  <2>6. CASE verb = "approveLevel"
    BY <1>3, <1>4, <2>2, <2>6 DEF OrderTo, PurchaseOrder, OrderStatus, Early, OrderFrom
  <2>7. CASE verb = "reject"
    BY <1>3, <1>4, <2>2, <2>7 DEF OrderTo, PurchaseOrder, OrderStatus, Early, OrderFrom
  <2>8. CASE verb = "release"
    BY <1>3, <1>4, <2>2, <2>8 DEF OrderTo, PurchaseOrder, OrderStatus, Early
  <2>9. CASE verb = "send"
    BY <1>3, <1>4, <2>2, <2>9 DEF OrderTo, PurchaseOrder, OrderStatus, Early
  <2>10. CASE verb = "cancel"
    BY <1>3, <1>4, <2>2, <2>10 DEF OrderTo, PurchaseOrder, OrderStatus, Early
  <2> QED BY <2>1, <2>3, <2>4, <2>5, <2>6, <2>7, <2>8, <2>9, <2>10
<1>7. Idle \in RcvCall /\ RcvKnown(Idle)' /\ RcvHeld(Idle)' /\ RcvGoes(c, Idle) /\ Added(Idle) = {} /\ Unbooked(Idle) = {}
  BY <1>5 DEF RcvCall, RcvKnown, RcvHeld, Idle, Confirming, RcvGoes, Added, Unbooked
<1>8. Apart' /\ Moved(c) /\ call'[c] = Idle /\ RcvRows(Idle, touches'[c]) /\ OrderRow \in touches[c]
  BY <1>1, <1>7, RcvMoves DEF RcvTyped, RcvRows, Confirming
<1>9. RowsTyped' /\ RcvGrown /\ Counted' = Counted
  BY <1>1, <1>5, <1>6 DEF RowsTyped, RcvGrown, Counted, Confirmed
<1>10. ASSUME RcvHolds PROVE ReceiptsKept'
  <2>1. RcvHeld(call[c]) /\ ReceiptsKept
    BY <1>10 DEF RcvHolds
  <2>2. seen = order /\ order.status \in OrderFrom[verb]
    BY <1>1, <1>2, <2>1 DEF RcvHeld
  <2>3. order'.status \in Early => order.status \in Early /\ receipts' = receipts
    BY <1>5, <1>6, <2>2
  <2> QED BY <1>1, <1>5, <1>9, <2>1, <2>3, SameRecords
<1>11. ASSUME RcvHolds, disjoint', faults = 0 PROVE Exact(Idle)'
  <2>1. Exact(call[c])
    BY <1>1, <1>7, <1>8, <1>11, ExactBefore
  <2>2. Added(call[c]) = {} /\ Unbooked(call[c]) = {}
    BY <1>1 DEF Added, Unbooked
  <2>3. Exact(Idle)
    BY <1>7, <2>1, <2>2 DEF Exact
  <2> QED BY <1>5, <1>9, <2>3, SameSums
<1> QED BY <1>5, <1>7, <1>8, <1>9, <1>10, <1>11, RcvFrame

LEMMA SaveCancelledKeeps ==
  ASSUME RcvKept, NEW c \in Call, SaveCancelled(c)
  PROVE  RcvKept'
<1>1. RcvTyped /\ RowsTyped /\ Apart /\ call[c].pc = "withdrawing" /\ call[c] # Idle /\ call[c] \in RcvCall
  BY DEF RcvKept, RcvTyped, SaveCancelled, At, Idle
<1>2. PICK q \in DOMAIN receipts : q = call[c].r
  BY <1>1 DEF RcvTyped, RcvKnown
<1>3. ReceiptRow(q) \in touches[c]
  BY <1>1, <1>2 DEF RcvTyped, RcvRows
<1>4. /\ receipts' = [receipts EXCEPT ![q] = "CANCELLED"] /\ Answer(c)
      /\ order' = order /\ lines' = lines /\ goods' = goods /\ booked' = booked /\ billed' = billed /\ lost' = lost
  BY <1>2 DEF SaveCancelled
<1>5. /\ receipts' \in Seq({"DRAFT", "CANCELLED", "CONFIRMED"}) /\ DOMAIN receipts' = DOMAIN receipts
      /\ \A r \in DOMAIN receipts : r # q => receipts'[r] = receipts[r]
      /\ receipts'[q] = "CANCELLED"
  BY <1>1, <1>4 DEF RowsTyped
<1>6. Idle \in RcvCall /\ RcvKnown(Idle)' /\ RcvHeld(Idle)' /\ RcvGoes(c, Idle) /\ Added(Idle) = {} /\ Unbooked(Idle) = {}
  BY <1>4 DEF RcvCall, RcvKnown, RcvHeld, Idle, Confirming, RcvGoes, Added, Unbooked
<1>7. Apart' /\ Moved(c) /\ call'[c] = Idle /\ RcvRows(Idle, touches'[c])
  BY <1>1, <1>6, RcvMoves
<1>8. RcvGrown /\ RowsTyped'
  BY <1>1, <1>4, <1>5 DEF RcvGrown, RowsTyped
<1>9. ASSUME RcvHolds PROVE Counted' = Counted /\ OrderAlone /\ ReceiptsKept'
  <2>1. receipts[q] = "DRAFT" /\ ReceiptsKept
    BY <1>1, <1>2, <1>9 DEF RcvHolds, RcvHeld
  <2>2. \A r \in DOMAIN receipts : receipts'[r] = "CONFIRMED" <=> receipts[r] = "CONFIRMED"
    BY <1>5, <2>1
  <2>3. Counted' = Counted
    BY <1>1, <1>4, <2>2, SameCounted
  <2>4. OrderAlone
    BY <1>4, <1>5, <2>2 DEF OrderAlone
  <2>5. order'.status \in Early => order.status \in Early /\ receipts' = receipts
    BY <1>2, <1>4, <2>1 DEF ReceiptsKept
  <2> QED BY <1>1, <1>4, <1>5, <2>1, <2>2, <2>3, <2>4, <2>5, SameRecords
<1>10. ASSUME RcvHolds, disjoint', faults = 0, OrderRow \in touches[c] \union touches'[c] PROVE Exact(Idle)'
  <2>1. Exact(call[c])
    BY <1>1, <1>6, <1>10, ExactBefore
  <2>2. Added(call[c]) = {} /\ Unbooked(call[c]) = {}
    BY <1>1 DEF Added, Unbooked
  <2>3. Exact(Idle)
    BY <1>6, <2>1, <2>2 DEF Exact
  <2> QED BY <1>4, <1>9, <1>10, <2>3, SameSums
<1>11. \A r \in DOMAIN receipts : ReceiptRow(r) \notin touches[c] => receipts'[r] = receipts[r]
  BY <1>3, <1>5
<1> QED BY <1>4, <1>6, <1>7, <1>8, <1>9, <1>10, <1>11, RcvFrame

LEMMA MarkOrderKeeps ==
  ASSUME RcvKept, NEW c \in Call, MarkOrder(c)
  PROVE  RcvKept'
<1>1. RcvTyped /\ RowsTyped /\ Apart /\ call[c].pc = "marking" /\ call[c] # Idle /\ call[c] \in RcvCall
  BY DEF RcvKept, RcvTyped, MarkOrder, At, Idle
<1>2. PICK t, r, rows, seen : t = call[c] /\ r = call[c].r /\ rows = call[c].of /\ seen = call[c].seen
  OBVIOUS
<1>3. /\ r \in DOMAIN receipts /\ r \in Nat /\ rows \subseteq DOMAIN goods /\ rows \in SUBSET Nat
      /\ {OrderRow, ReceiptRow(r)} \subseteq touches[c] /\ seen \in Seq(LineRow)
  BY <1>1, <1>2, RcvForms DEF RcvTyped, RcvKnown, RcvRows, Confirming
<1>4. PICK next : next = [pc |-> "matching", r |-> r, of |-> rows, seen |-> seen]
  OBVIOUS
<1>5. PICK status \in {"RECEIVED", "PARTIALLY_RECEIVED"} : order' = [order EXCEPT !.status = status]
  BY DEF MarkOrder
<1>6. Await(c, next) /\ lines' = lines /\ receipts' = receipts /\ goods' = goods /\ booked' = booked /\ billed' = billed /\ lost' = lost
  BY <1>2, <1>4 DEF MarkOrder
<1>7. next \in RcvCall /\ next # Idle /\ RcvKnown(next)' /\ RcvRows(next, touches[c])
  BY <1>3, <1>4, <1>6 DEF RcvCall, Idle, RcvKnown, RcvRows, Confirming
<1>8. RcvGoes(c, next)
  BY <1>1, <1>6, <1>7 DEF RcvGoes
<1>9. /\ Apart' /\ Moved(c) /\ call'[c] = next /\ RcvRows(next, touches'[c])
      /\ OrderRow \in touches[c] /\ OrderRow \notin touches'[c] => next = Idle
  BY <1>1, <1>7, <1>8, RcvMoves
<1>10. order' \in PurchaseOrder /\ order'.status \notin Early
  BY <1>1, <1>5 DEF RowsTyped, PurchaseOrder, OrderStatus, Early
<1>11. RowsTyped' /\ RcvGrown /\ Counted' = Counted
  BY <1>1, <1>6, <1>10 DEF RowsTyped, RcvGrown, Counted, Confirmed
<1>12. Added(next) = Added(t) /\ Unbooked(next) = Unbooked(t) /\ Added(next)' = Added(t)
  BY <1>1, <1>2, <1>4 DEF Added, Unbooked
<1>13. ASSUME RcvHolds PROVE RcvHeld(next)' /\ ReceiptsKept'
  <2>1. RcvHeld(t) /\ ReceiptsKept
    BY <1>2, <1>13 DEF RcvHolds
  <2>2. Fits(t) /\ receipts[r] = "DRAFT" /\ rows = LinesOf(r) /\ seen = lines
    BY <1>1, <1>2, <2>1 DEF RcvHeld, Confirming
  <2>3. \A j \in Added(next) : goods[j].accepted <= lines[goods[j].of].received
    BY <1>1, <1>2, <1>12, <2>1 DEF RcvHeld, Confirming
  <2>4. Fits(next)'
    <3>1. Fits(next)
      BY <1>12, <2>2 DEF Fits
    <3> QED BY <1>6, <1>11, <3>1, SameSums
  <2>5. LinesOf(r)' = LinesOf(r) /\ Added(next)' = Added(next)
    BY <1>6, <1>12 DEF LinesOf
  <2>6. RcvHeld(next)'
    BY <1>4, <1>6, <2>2, <2>3, <2>4, <2>5 DEF RcvHeld, Confirming
  <2> QED BY <1>1, <1>6, <1>10, <1>11, <2>1, <2>6, SameRecords
<1>14. ASSUME RcvHolds, disjoint', faults = 0 PROVE Exact(next)'
  <2>1. Exact(t)
    BY <1>1, <1>2, <1>3, <1>7, <1>8, <1>14, ExactBefore
  <2>2. Exact(next)
    BY <1>12, <2>1 DEF Exact
  <2> QED BY <1>6, <1>11, <2>2, SameSums
<1> QED BY <1>6, <1>7, <1>9, <1>11, <1>13, <1>14, <1>3, RcvFrame

LEMMA SaveReceiptKeeps ==
  ASSUME RcvKept, NEW c \in Call, SaveReceipt(c)
  PROVE  RcvKept'
<1>1. RcvTyped /\ RowsTyped /\ Apart /\ call[c].pc = "drafting" /\ call[c] # Idle /\ call[c] \in RcvCall /\ OrderRow \in touches[c]
  BY DEF RcvKept, RcvTyped, SaveReceipt, At, Idle, RcvRows, Confirming
<1>2. PICK d \in Deliveries : d = call[c].delivery
  BY <1>1, RcvForms
<1>3. \A j \in DOMAIN d : d[j].of \in DOMAIN lines
  BY <1>1, <1>2 DEF RcvTyped, RcvKnown
<1>4. PICK n \in Nat : n = Len(receipts)
  BY <1>1, RcvTerms
<1>5. PICK next : next = [pc |-> "listing", r |-> Len(receipts'), delivery |-> d]
  OBVIOUS
<1>6. /\ receipts' = Append(receipts, "DRAFT") /\ Await(c, next)
      /\ order' = order /\ lines' = lines /\ goods' = goods /\ booked' = booked /\ billed' = billed /\ lost' = lost
  BY <1>2, <1>5 DEF SaveReceipt
<1>7. /\ receipts' \in Seq({"DRAFT", "CANCELLED", "CONFIRMED"}) /\ Len(receipts') = n + 1
      /\ DOMAIN receipts' = 1 .. (n + 1) /\ DOMAIN receipts = 1 .. n
      /\ \A r \in DOMAIN receipts : receipts'[r] = receipts[r]
      /\ receipts'[n + 1] = "DRAFT"
  BY <1>1, <1>4, <1>6 DEF RowsTyped
<1>8. next \in RcvCall /\ next # Idle /\ RcvKnown(next)' /\ RcvRows(next, touches[c])
  BY <1>1, <1>3, <1>4, <1>5, <1>6, <1>7 DEF RcvCall, Idle, RcvKnown, RcvRows, Confirming
<1>9. RcvGoes(c, next)
  BY <1>1, <1>6, <1>8 DEF RcvGoes
<1>10. /\ Apart' /\ Moved(c) /\ call'[c] = next /\ RcvRows(next, touches'[c])
       /\ OrderRow \in touches[c] /\ OrderRow \notin touches'[c] => next = Idle
  BY <1>1, <1>8, <1>9, RcvMoves
<1>11. DOMAIN receipts \subseteq DOMAIN receipts' /\ \A r \in DOMAIN receipts : receipts'[r] = receipts[r]
  BY <1>4, <1>7
<1>12. RowsTyped' /\ RcvGrown
  BY <1>1, <1>6, <1>7, <1>11 DEF RowsTyped, RcvGrown
<1>13. Counted' = Counted
  BY <1>1, <1>6, <1>11, SameCounted
<1>14. ASSUME RcvHolds PROVE RcvHeld(next)' /\ ReceiptsKept'
  <2>1. RcvHeld(call[c]) /\ ReceiptsKept
    BY <1>14 DEF RcvHolds
  <2>2. order.status \notin Early /\ \A j \in DOMAIN d : ~ lines[d[j].of].gone
    BY <1>1, <1>2, <2>1 DEF RcvHeld
  <2>3. RcvHeld(next)'
    BY <1>5, <1>6, <1>7, <2>2 DEF RcvHeld, Confirming
  <2>4. ReceiptsKept'
    BY <1>1, <1>6, <1>11, <1>13, <2>1, <2>2, SameRecords
  <2> QED BY <2>3, <2>4
<1>15. ASSUME RcvHolds, disjoint', faults = 0 PROVE Exact(next)'
  <2>1. Exact(call[c])
    BY <1>1, <1>8, <1>9, <1>15, ExactBefore
  <2>2. Added(next) = Added(call[c]) /\ Unbooked(next) = Unbooked(call[c])
    BY <1>1, <1>5 DEF Added, Unbooked
  <2>3. Exact(next)
    BY <2>1, <2>2 DEF Exact
  <2> QED BY <1>6, <1>13, <2>3, SameSums
<1> QED BY <1>1, <1>6, <1>8, <1>10, <1>11, <1>12, <1>14, <1>15, RcvFrame

LEMMA SaveReceiptLinesKeeps ==
  ASSUME RcvKept, NEW c \in Call, SaveReceiptLines(c)
  PROVE  RcvKept'
<1>1. RcvTyped /\ RowsTyped /\ Apart /\ call[c].pc = "listing" /\ call[c] # Idle /\ call[c] \in RcvCall /\ OrderRow \in touches[c]
  BY DEF RcvKept, RcvTyped, SaveReceiptLines, At, Idle, RcvRows, Confirming
<1>2. PICK d \in Deliveries, q \in DOMAIN receipts : d = call[c].delivery /\ q = call[c].r
  BY <1>1, RcvForms DEF RcvTyped, RcvKnown
<1>3. \A j \in DOMAIN d : d[j].of \in DOMAIN lines
  BY <1>1, <1>2 DEF RcvTyped, RcvKnown
<1>4. PICK rows, zeros : /\ rows = [j \in DOMAIN d |-> [grn |-> q, of |-> d[j].of, accepted |-> d[j].accepted]]
                         /\ zeros = [j \in DOMAIN d |-> 0]
  OBVIOUS
<1>5. /\ goods' = goods \o rows /\ booked' = booked \o zeros /\ Answer(c)
      /\ order' = order /\ lines' = lines /\ receipts' = receipts /\ billed' = billed /\ lost' = lost
  BY <1>2, <1>4 DEF SaveReceiptLines
<1>6. PICK n, m \in Nat : n = Len(goods) /\ m = Len(d) /\ DOMAIN d = 1 .. m
  <2>1. PICK S : S = [of : Nat, accepted : Nat]
    OBVIOUS
  <2>2. d \in Seq(S)
    BY <2>1 DEF Deliveries
  <2>3. Len(d) \in Nat /\ DOMAIN d = 1 .. Len(d) /\ Len(goods) \in Nat
    BY <1>1, <2>2, RcvTerms
  <2> QED BY <2>3
<1>7. rows \in Seq(GoodsRow) /\ Len(rows) = m /\ zeros \in Seq(Nat) /\ Len(zeros) = m
  <2>1. \A j \in 1 .. m : d[j] \in [of : Nat, accepted : Nat]
    <3>1. PICK S : S = [of : Nat, accepted : Nat]
      OBVIOUS
    <3>2. d \in Seq(S)
      BY <3>1 DEF Deliveries
    <3>3. \A j \in 1 .. m : d[j] \in S
      BY <1>6, <3>2
    <3> QED BY <3>1, <3>3
  <2>2. q \in Nat
    BY <1>1, RcvTerms
  <2>3. \A j \in 1 .. m : [grn |-> q, of |-> d[j].of, accepted |-> d[j].accepted] \in GoodsRow
    BY <2>1, <2>2 DEF GoodsRow
  <2>4. PICK S : S = GoodsRow
    OBVIOUS
  <2>5. rows \in [1 .. m -> S]
    BY <1>4, <1>6, <2>3, <2>4
  <2>6. rows \in Seq(S) /\ Len(rows) = m
    BY <2>5
  <2>7. zeros \in [1 .. m -> Nat]
    BY <1>4, <1>6
  <2>8. zeros \in Seq(Nat) /\ Len(zeros) = m
    BY <2>7
  <2> QED BY <2>4, <2>6, <2>8
<1>8. /\ goods' \in Seq(GoodsRow) /\ booked' \in Seq(Nat) /\ Len(booked') = Len(goods')
      /\ DOMAIN goods = 1 .. n /\ DOMAIN goods' = 1 .. (n + m) /\ DOMAIN booked' = 1 .. (n + m)
      /\ \A i \in 1 .. (n + m) : goods'[i] = IF i <= n THEN goods[i] ELSE rows[i - n]
      /\ \A i \in 1 .. (n + m) : booked'[i] = IF i <= n THEN booked[i] ELSE zeros[i - n]
  <2>1. goods \in Seq(GoodsRow) /\ booked \in Seq(Nat) /\ Len(booked) = n
    BY <1>1, <1>6 DEF RowsTyped
  <2>2. goods' \in Seq(GoodsRow) /\ Len(goods') = n + m /\ booked' \in Seq(Nat) /\ Len(booked') = n + m
    BY <1>5, <1>6, <1>7, <2>1
  <2>3. \A i \in 1 .. (n + m) : goods'[i] = IF i <= n THEN goods[i] ELSE rows[i - n]
    BY <1>5, <1>6, <1>7, <2>1
  <2>4. \A i \in 1 .. (n + m) : booked'[i] = IF i <= n THEN booked[i] ELSE zeros[i - n]
    BY <1>5, <1>6, <1>7, <2>1
  <2> QED BY <1>6, <2>1, <2>2, <2>3, <2>4
<1>9. \A i \in DOMAIN goods : i \in DOMAIN goods' /\ goods'[i] = goods[i] /\ booked'[i] = booked[i]
  <2>1. \A i \in 1 .. n : i \in 1 .. (n + m) /\ i <= n
    BY <1>6
  <2> QED BY <1>8, <2>1
<1>10. \A i \in DOMAIN goods' \ DOMAIN goods : i - n \in DOMAIN d /\ goods'[i] = rows[i - n] /\ booked'[i] = 0
  <2>1. \A i \in 1 .. (n + m) : i \notin 1 .. n => i - n \in 1 .. m /\ ~ (i <= n)
    BY <1>6
  <2> QED BY <1>4, <1>6, <1>8, <2>1
<1>11. \A i \in DOMAIN goods' \ DOMAIN goods : goods'[i].grn = q /\ goods'[i].of \in DOMAIN lines /\ goods'[i].of = d[i - n].of
  BY <1>3, <1>4, <1>10
<1>12. RowsTyped' /\ RcvGrown
  <2>1. \A i \in DOMAIN goods' : goods'[i].grn \in DOMAIN receipts /\ goods'[i].of \in DOMAIN lines
    BY <1>1, <1>2, <1>9, <1>11 DEF RowsTyped
  <2> QED BY <1>1, <1>5, <1>8, <1>9, <2>1 DEF RowsTyped, RcvGrown
<1>13. Idle \in RcvCall /\ RcvKnown(Idle)' /\ RcvHeld(Idle)' /\ RcvGoes(c, Idle) /\ Added(Idle) = {} /\ Unbooked(Idle) = {}
  BY <1>5 DEF RcvCall, RcvKnown, RcvHeld, Idle, Confirming, RcvGoes, Added, Unbooked
<1>14. Apart' /\ Moved(c) /\ call'[c] = Idle /\ RcvRows(Idle, touches'[c])
  BY <1>1, <1>13, RcvMoves
<1>15. ASSUME RcvHolds
       PROVE  /\ Counted' = Counted /\ ReceiptsKept /\ RcvHeld(call[c]) /\ receipts[q] # "CONFIRMED"
              /\ \A k : Tally(k, Counted \union Added(Idle))' = Tally(k, Counted)
  <2>1. RcvHeld(call[c]) /\ ReceiptsKept /\ receipts[q] # "CONFIRMED"
    BY <1>1, <1>2, <1>15 DEF RcvHolds, RcvHeld
  <2>2. \A i \in DOMAIN goods' : receipts'[goods'[i].grn] = "CONFIRMED" => i \in DOMAIN goods /\ goods'[i] = goods[i]
    BY <1>5, <1>9, <1>11, <2>1
  <2>3. Counted' = Counted
    BY <1>5, <1>9, <2>2 DEF Counted, Confirmed
  <2>4. ASSUME NEW k PROVE Tally(k, Counted \union Added(Idle))' = Tally(k, Counted)
    <3>1. PICK S : S = Counted
      OBVIOUS
    <3>2. S \subseteq DOMAIN goods /\ S \subseteq DOMAIN goods' /\ \A i \in S : goods'[i] = goods[i]
      BY <1>1, <1>9, <3>1, RcvTerms
    <3>3. Tally(k, S)' = Tally(k, S)
      BY <1>1, <3>2, TallyStays
    <3>4. Tally(k, Counted \union Added(Idle))' = Tally(k, S)'
      BY <1>13, <2>3, <3>1 DEF Tally, Added, Idle
    <3> QED BY <3>1, <3>3, <3>4
  <2> QED BY <2>1, <2>3, <2>4
<1>16. ASSUME RcvHolds PROVE ReceiptsKept'
  <2>1. order.status \notin Early /\ \A j \in DOMAIN d : ~ lines[d[j].of].gone
    BY <1>1, <1>2, <1>15, <1>16 DEF RcvHeld
  <2>2. \A i \in DOMAIN goods' : ~ lines'[goods'[i].of].gone
    BY <1>5, <1>9, <1>10, <1>11, <1>15, <1>16, <2>1 DEF ReceiptsKept
  <2>3. Fits(Idle)'
    <3>1. \A k \in DOMAIN lines : Tally(k, Counted) <= lines[k].received
      BY <1>13, <1>15, <1>16 DEF ReceiptsKept, Fits
    <3> QED BY <1>5, <1>15, <1>16, <3>1 DEF Fits
  <2>4. \A i \in DOMAIN goods' : goods'[i].grn \notin lost' => booked'[i] <= IF Confirmed(i)' THEN goods'[i].accepted ELSE 0
    <3>1. SUFFICES ASSUME NEW i \in DOMAIN goods', goods'[i].grn \notin lost'
                   PROVE  booked'[i] <= IF Confirmed(i)' THEN goods'[i].accepted ELSE 0
      OBVIOUS
    <3>2. CASE i \in DOMAIN goods
      BY <1>5, <1>9, <1>15, <1>16, <3>1, <3>2 DEF ReceiptsKept, Confirmed
    <3>3. CASE i \notin DOMAIN goods
      <4>1. booked'[i] = 0
        BY <1>10, <3>3
      <4>2. ~ Confirmed(i)'
        BY <1>5, <1>11, <1>15, <1>16, <3>3 DEF Confirmed
      <4> QED BY <4>1, <4>2
    <3> QED BY <3>2, <3>3
  <2>5. q \notin billed
    BY <1>15, <1>16 DEF ReceiptsKept
  <2>6. \A i \in DOMAIN goods' : goods'[i].grn \in billed => lines[goods'[i].of].received >= lines[goods'[i].of].quantity
    BY <1>9, <1>11, <1>15, <1>16, <2>5 DEF ReceiptsKept
  <2> QED BY <1>5, <1>15, <1>16, <2>1, <2>2, <2>3, <2>4, <2>6 DEF ReceiptsKept
<1>17. ASSUME RcvHolds, disjoint', faults = 0 PROVE Exact(Idle)'
  <2>1. Exact(call[c])
    BY <1>1, <1>13, <1>17, ExactBefore
  <2>2. Added(call[c]) = {} /\ Unbooked(call[c]) = {} /\ Unbooked(Idle)' = {}
    BY <1>1 DEF Added, Unbooked, Idle
  <2>3. \A k \in DOMAIN lines : Tally(k, Counted) = lines[k].received
    BY <2>1, <2>2 DEF Exact
  <2>4. \A i \in DOMAIN goods : booked[i] = IF Confirmed(i) THEN goods[i].accepted ELSE 0
    BY <2>1, <2>2 DEF Exact
  <2>5. ASSUME NEW i \in DOMAIN goods' PROVE booked'[i] = IF Confirmed(i)' THEN goods'[i].accepted ELSE 0
    <3>1. CASE i \in DOMAIN goods
      BY <1>5, <1>9, <2>4, <3>1 DEF Confirmed
    <3>2. CASE i \notin DOMAIN goods
      BY <1>5, <1>10, <1>11, <1>15, <1>17, <3>2 DEF Confirmed
    <3> QED BY <3>1, <3>2
  <2> QED BY <1>5, <1>15, <1>17, <2>2, <2>3, <2>5 DEF Exact
<1> QED BY <1>1, <1>5, <1>12, <1>13, <1>14, <1>16, <1>17, RcvFrame

LEMMA SaveLineKeeps ==
  ASSUME RcvKept, NEW c \in Call, SaveLine(c)
  PROVE  RcvKept'
<1>1. RcvTyped /\ RowsTyped /\ Apart /\ call[c].pc = "adding" /\ call[c] # Idle /\ call[c] \in RcvCall
  BY DEF RcvKept, RcvTyped, SaveLine, At, Idle
<1>2. PICK t, r, rows, left, i, seen : t = call[c] /\ r = t.r /\ rows = t.of /\ left = t.left /\ i = t.line /\ seen = t.seen
  OBVIOUS
<1>3. /\ r \in DOMAIN receipts /\ r \in Nat /\ rows \subseteq DOMAIN goods /\ rows \in SUBSET Nat
      /\ left \subseteq DOMAIN goods /\ left \in SUBSET Nat /\ i \in left /\ i \in DOMAIN goods
      /\ {OrderRow, ReceiptRow(r)} \subseteq touches[c] /\ seen \in LineRow
  BY <1>1, <1>2, RcvForms DEF RcvTyped, RcvKnown, RcvRows, Confirming
<1>4. PICK k, a : k = goods[i].of /\ a = goods[i].accepted
  OBVIOUS
<1>5. k \in DOMAIN lines /\ a \in Nat
  BY <1>1, <1>3, <1>4, RcvTerms DEF RowsTyped
<1>6. PICK row, next : row = [seen EXCEPT !.received = seen.received + a] /\ next = [pc |-> "receiving", r |-> r, of |-> rows, left |-> left \ {i}]
  OBVIOUS
<1>7. /\ lines' = [lines EXCEPT ![k] = row] /\ Await(c, next)
      /\ order' = order /\ receipts' = receipts /\ goods' = goods /\ booked' = booked /\ billed' = billed /\ lost' = lost
  BY <1>2, <1>4, <1>6 DEF SaveLine
<1>8. /\ row \in LineRow /\ row.received = seen.received + a /\ seen.received \in Nat
      /\ row.quantity = seen.quantity /\ row.gone = seen.gone
  <2>1. seen.received \in Nat
    BY <1>3 DEF LineRow
  <2>2. seen.received + a \in Nat
    BY <1>5, <2>1
  <2> QED BY <1>3, <1>6, <2>1, <2>2 DEF LineRow
<1>9. /\ lines' \in Seq(LineRow) /\ DOMAIN lines' = DOMAIN lines /\ lines'[k] = row
      /\ \A j \in DOMAIN lines : j # k => lines'[j] = lines[j]
  BY <1>1, <1>5, <1>7, <1>8 DEF RowsTyped
<1>10. RowsTyped' /\ RcvGrown /\ Counted' = Counted
  BY <1>1, <1>7, <1>9 DEF RowsTyped, RcvGrown, Counted, Confirmed
<1>11. next \in RcvCall /\ next # Idle /\ RcvKnown(next)' /\ RcvRows(next, touches[c])
  BY <1>3, <1>6, <1>7 DEF RcvCall, Idle, RcvKnown, RcvRows, Confirming
<1>12. RcvGoes(c, next)
  BY <1>1, <1>7, <1>11 DEF RcvGoes
<1>13. /\ Apart' /\ Moved(c) /\ call'[c] = next /\ RcvRows(next, touches'[c])
       /\ OrderRow \in touches[c] /\ OrderRow \notin touches'[c] => next = Idle
  BY <1>1, <1>11, <1>12, RcvMoves
<1>14. ASSUME RcvHolds
       PROVE  /\ ReceiptsKept /\ Fits(t) /\ receipts[r] = "DRAFT" /\ rows = LinesOf(r) /\ seen = lines[k] /\ left \subseteq rows
              /\ \A j \in Added(t) : goods[j].accepted <= lines[goods[j].of].received
              /\ Added(t) = rows \ left /\ Added(next) = Added(t) \union {i} /\ Added(next)' = Added(t) \union {i}
              /\ i \notin Counted \union Added(t) /\ Counted \union Added(t) \subseteq DOMAIN goods
  <2>1. RcvHeld(t) /\ ReceiptsKept
    BY <1>2, <1>14 DEF RcvHolds
  <2>2. /\ Fits(t) /\ receipts[r] = "DRAFT" /\ rows = LinesOf(r) /\ seen = lines[k] /\ left \subseteq rows
        /\ \A j \in Added(t) : goods[j].accepted <= lines[goods[j].of].received
    BY <1>1, <1>2, <1>4, <2>1 DEF RcvHeld, Confirming
  <2>3. Added(t) = rows \ left /\ Added(next) = rows \ (left \ {i}) /\ Added(next)' = rows \ (left \ {i})
    BY <1>1, <1>2, <1>6 DEF Added
  <2>4. rows \ (left \ {i}) = (rows \ left) \union {i}
    BY <1>3, <2>2
  <2>5. i \notin Counted
    BY <1>3, <2>2 DEF Counted, Confirmed, LinesOf
  <2> QED BY <1>1, <1>3, <2>1, <2>2, <2>3, <2>4, <2>5, RcvTerms
<1>15. ASSUME RcvHolds, NEW j \in DOMAIN lines
       PROVE  /\ Tally(j, Counted \union Added(next))' = (IF k = j THEN a ELSE 0) + Tally(j, Counted \union Added(t))
              /\ Tally(j, Counted \union Added(t)) \in Int /\ Tally(j, Counted) \in Int /\ Tally(j, Counted)' = Tally(j, Counted)
              /\ lines[j].received \in Nat /\ lines'[j].received = (IF k = j THEN a ELSE 0) + lines[j].received
              /\ lines'[j].quantity = lines[j].quantity /\ lines'[j].gone = lines[j].gone
  <2>1. PICK S : S = Counted \union Added(t)
    OBVIOUS
  <2>2. S \subseteq DOMAIN goods /\ i \in DOMAIN goods \ S
    BY <1>3, <1>14, <1>15, <2>1
  <2>3. Tally(j, S \union {i}) = (IF k = j THEN a ELSE 0) + Tally(j, S) /\ Tally(j, S) \in Int
    BY <1>1, <1>4, <2>2, TallyIs
  <2>4. (Counted \union Added(next))' = S \union {i}
    BY <1>10, <1>14, <1>15, <2>1
  <2>5. Tally(j, Counted \union Added(next))' = Tally(j, S \union {i})
    BY <1>7, <2>4 DEF Tally, LineAmounts
  <2>6. Tally(j, Counted)' = Tally(j, Counted) /\ Tally(j, Counted) \in Int
    BY <1>1, <1>7, <1>10, TallyIs, RcvTerms DEF Tally, LineAmounts
  <2>7. lines[j].received \in Nat
    BY <1>1, RcvTerms
  <2>8. /\ lines'[j].received = (IF k = j THEN a ELSE 0) + lines[j].received
        /\ lines'[j].quantity = lines[j].quantity /\ lines'[j].gone = lines[j].gone
    <3>1. CASE j = k
      BY <1>5, <1>8, <1>9, <1>14, <1>15, <3>1
    <3>2. CASE j # k
      BY <1>9, <2>7, <3>2
    <3> QED BY <3>1, <3>2
  <2> QED BY <2>1, <2>3, <2>5, <2>6, <2>7, <2>8
<1>16. ASSUME RcvHolds PROVE RcvHeld(next)' /\ ReceiptsKept'
  <2>1. \A j \in DOMAIN lines : lines'[j].received >= lines[j].received
    <3>1. SUFFICES ASSUME NEW j \in DOMAIN lines PROVE lines'[j].received >= lines[j].received
      OBVIOUS
    <3>2. lines[j].received \in Nat /\ lines'[j].received = (IF k = j THEN a ELSE 0) + lines[j].received
      BY <1>15, <1>16
    <3> QED BY <1>5, <3>2
  <2>2. Fits(next)'
    <3>1. SUFFICES ASSUME NEW j \in DOMAIN lines' PROVE Tally(j, Counted \union Added(next))' <= lines'[j].received
      BY DEF Fits
    <3>2. j \in DOMAIN lines
      BY <1>9
    <3>3. Tally(j, Counted \union Added(t)) <= lines[j].received
      BY <1>14, <1>16, <3>2 DEF Fits
    <3>4. PICK x, y, z, u : x = Tally(j, Counted \union Added(next))' /\ y = Tally(j, Counted \union Added(t)) /\ z = lines[j].received /\ u = lines'[j].received
      OBVIOUS
    <3>5. x = (IF k = j THEN a ELSE 0) + y /\ u = (IF k = j THEN a ELSE 0) + z /\ y \in Int /\ z \in Nat /\ y <= z
      BY <1>15, <1>16, <3>2, <3>3, <3>4
    <3>6. x <= u
      BY <1>5, <3>5
    <3> QED BY <3>4, <3>6
  <2>3. Fits(Idle)'
    <3>1. SUFFICES ASSUME NEW j \in DOMAIN lines' PROVE Tally(j, Counted \union Added(Idle))' <= lines'[j].received
      BY DEF Fits
    <3>2. j \in DOMAIN lines
      BY <1>9
    <3>3. Tally(j, Counted \union Added(Idle))' = Tally(j, Counted)' /\ Tally(j, Counted \union Added(Idle)) = Tally(j, Counted)
      BY DEF Tally, Added, Idle
    <3>4. Tally(j, Counted) <= lines[j].received
      BY <1>14, <1>16, <3>2, <3>3 DEF ReceiptsKept, Fits
    <3>5. PICK x, z, u : x = Tally(j, Counted)' /\ z = lines[j].received /\ u = lines'[j].received
      OBVIOUS
    <3>6. x \in Int /\ z \in Nat /\ x <= z /\ u = (IF k = j THEN a ELSE 0) + z
      BY <1>15, <1>16, <3>2, <3>4, <3>5
    <3>7. x <= u
      BY <1>5, <3>6
    <3> QED BY <3>3, <3>5, <3>7
  <2>4. \A j \in Added(next)' : goods'[j].accepted <= lines'[goods'[j].of].received
    <3>1. SUFFICES ASSUME NEW j \in Added(t) \union {i} PROVE goods[j].accepted <= lines'[goods[j].of].received
      BY <1>7, <1>14, <1>16
    <3>2. j \in DOMAIN goods /\ goods[j].of \in DOMAIN lines /\ goods[j].accepted \in Nat
      BY <1>1, <1>3, <1>14, <1>16, <3>1, RcvTerms DEF RowsTyped
    <3>3. CASE j = i
      BY <1>4, <1>5, <1>8, <1>9, <3>3
    <3>4. CASE j # i
      <4>1. goods[j].accepted <= lines[goods[j].of].received
        BY <1>14, <1>16, <3>1, <3>4
      <4>2. PICK y, z, u : y = goods[j].accepted /\ z = lines[goods[j].of].received /\ u = lines'[goods[j].of].received
        OBVIOUS
      <4>3. y \in Nat /\ z \in Nat /\ u = (IF k = goods[j].of THEN a ELSE 0) + z /\ y <= z
        BY <1>15, <1>16, <3>2, <4>1, <4>2
      <4>4. y <= u
        BY <1>5, <4>3
      <4> QED BY <4>2, <4>4
    <3> QED BY <3>3, <3>4
  <2>5. RcvHeld(next)'
    <3>1. LinesOf(r)' = LinesOf(r)
      BY <1>7 DEF LinesOf
    <3>2. left \ {i} \subseteq rows
      BY <1>14, <1>16
    <3> QED BY <1>6, <1>7, <1>14, <1>16, <2>2, <2>4, <3>1, <3>2 DEF RcvHeld, Confirming
  <2>6. \A g \in DOMAIN goods : ~ lines'[goods[g].of].gone
    BY <1>1, <1>14, <1>15, <1>16 DEF ReceiptsKept, RowsTyped
  <2>7. \A g \in DOMAIN goods : goods[g].grn \in billed => lines'[goods[g].of].received >= lines'[goods[g].of].quantity
    <3>1. SUFFICES ASSUME NEW g \in DOMAIN goods, goods[g].grn \in billed PROVE lines'[goods[g].of].received >= lines'[goods[g].of].quantity
      OBVIOUS
    <3>2. PICK j \in DOMAIN lines : j = goods[g].of
      BY <1>1 DEF RowsTyped
    <3>3. lines[j].received >= lines[j].quantity /\ lines[j].quantity \in Nat
      BY <1>1, <1>14, <1>16, <3>1, <3>2, RcvTerms DEF ReceiptsKept
    <3>4. PICK y, z, u : y = lines[j].quantity /\ z = lines[j].received /\ u = lines'[j].received
      OBVIOUS
    <3>5. y \in Nat /\ z \in Nat /\ u = (IF k = j THEN a ELSE 0) + z /\ z >= y /\ lines'[j].quantity = y
      BY <1>15, <1>16, <3>3, <3>4
    <3>6. u >= y
      BY <1>5, <3>5
    <3> QED BY <3>2, <3>4, <3>5, <3>6
  <2>8. ReceiptsKept'
    BY <1>7, <1>14, <1>16, <2>3, <2>6, <2>7 DEF ReceiptsKept, Confirmed
  <2> QED BY <2>5, <2>8
<1>17. ASSUME RcvHolds, disjoint', faults = 0 PROVE Exact(next)'
  <2>1. Exact(t)
    BY <1>1, <1>2, <1>3, <1>11, <1>12, <1>17, ExactBefore
  <2>2. ASSUME NEW j \in DOMAIN lines' PROVE Tally(j, Counted \union Added(next))' = lines'[j].received
    <3>1. j \in DOMAIN lines
      BY <1>9
    <3>2. Tally(j, Counted \union Added(t)) = lines[j].received
      BY <2>1, <3>1 DEF Exact
    <3> QED BY <1>15, <1>17, <3>1, <3>2
  <2>3. Unbooked(t) = {} /\ Unbooked(next)' = {}
    BY <1>1, <1>2, <1>6 DEF Unbooked
  <2>4. \A g \in DOMAIN goods' : booked'[g] = IF Confirmed(g)' /\ g \notin Unbooked(next)' THEN goods'[g].accepted ELSE 0
    BY <1>7, <2>1, <2>3 DEF Exact, Confirmed
  <2> QED BY <2>2, <2>4 DEF Exact
<1> QED BY <1>3, <1>7, <1>10, <1>11, <1>13, <1>16, <1>17, RcvFrame

LEMMA ToBookIs ==
  ASSUME RowsTyped, NEW r \in DOMAIN receipts, NEW next, next = ToBook(r)
  PROVE  /\ next \in RcvCall /\ next # Idle /\ next.pc = "booking" /\ next.r = r
         /\ next.left \subseteq DOMAIN goods /\ next.left = {i \in LinesOf(r) : goods[i].accepted > 0}
<1>1. PICK left : left = {i \in LinesOf(r) : goods[i].accepted > 0}
  OBVIOUS
<1>2. left \subseteq DOMAIN goods /\ left \in SUBSET Nat /\ r \in Nat
  BY <1>1, RcvTerms
<1>3. next = [pc |-> "booking", r |-> r, left |-> left]
  BY <1>1 DEF ToBook
<1> QED BY <1>1, <1>2, <1>3 DEF RcvCall, Idle

LEMMA CommitReceiptKeeps ==
  ASSUME RcvKept, NEW c \in Call, CommitReceipt(c)
  PROVE  RcvKept'
<1>1. RcvTyped /\ RowsTyped /\ Apart /\ call[c].pc = "matching" /\ call[c] # Idle /\ call[c] \in RcvCall
  BY DEF RcvKept, RcvTyped, CommitReceipt, At, Idle
<1>2. PICK t, r, rows, seen : t = call[c] /\ r = t.r /\ rows = t.of /\ seen = t.seen
  OBVIOUS
<1>3. /\ r \in DOMAIN receipts /\ r \in Nat /\ rows \subseteq DOMAIN goods
      /\ {OrderRow, ReceiptRow(r)} \subseteq touches[c]
  BY <1>1, <1>2, RcvForms DEF RcvTyped, RcvKnown, RcvRows, Confirming
<1>4. PICK next : next = ToBook(r)
  OBVIOUS
<1>5. /\ next \in RcvCall /\ next # Idle /\ next.pc = "booking" /\ next.r = r
      /\ next.left \subseteq DOMAIN goods /\ next.left = {i \in LinesOf(r) : goods[i].accepted > 0}
  BY <1>1, <1>3, <1>4, ToBookIs
<1>6. /\ receipts' = [receipts EXCEPT ![r] = "CONFIRMED"] /\ Await(c, next)
      /\ billed' = billed \/ (Covers(rows, seen) /\ billed' = billed \union {r})
      /\ order' = order /\ lines' = lines /\ goods' = goods /\ booked' = booked /\ lost' = lost
  BY <1>2, <1>4 DEF CommitReceipt
<1>7. /\ receipts' \in Seq({"DRAFT", "CANCELLED", "CONFIRMED"}) /\ DOMAIN receipts' = DOMAIN receipts
      /\ receipts'[r] = "CONFIRMED" /\ \A q \in DOMAIN receipts : q # r => receipts'[q] = receipts[q]
  BY <1>1, <1>3, <1>6 DEF RowsTyped
<1>8. RowsTyped' /\ RcvGrown
  BY <1>1, <1>6, <1>7 DEF RowsTyped, RcvGrown
<1>9. RcvKnown(next)' /\ RcvRows(next, touches[c])
  BY <1>3, <1>5, <1>6, <1>7 DEF RcvKnown, RcvRows, Confirming
<1>10. RcvGoes(c, next)
  BY <1>1, <1>5, <1>6, <1>9 DEF RcvGoes
<1>11. /\ Apart' /\ Moved(c) /\ call'[c] = next /\ RcvRows(next, touches'[c])
       /\ OrderRow \in touches[c] /\ OrderRow \notin touches'[c] => next = Idle
  BY <1>1, <1>5, <1>10, RcvMoves
<1>12. \A q \in DOMAIN receipts : ReceiptRow(q) \notin touches[c] => receipts'[q] = receipts[q]
  BY <1>3, <1>7
<1>13. ASSUME RcvHolds
       PROVE  /\ ReceiptsKept /\ Fits(t) /\ receipts[r] = "DRAFT" /\ rows = LinesOf(r) /\ seen = lines
              /\ \A i \in rows : goods[i].accepted <= lines[goods[i].of].received
              /\ Counted' = Counted \union Added(t) /\ Added(next)' = {} /\ Added(Idle)' = {}
              /\ \A i \in DOMAIN goods : Confirmed(i)' <=> Confirmed(i) \/ i \in rows
              /\ \A i \in rows : ~ Confirmed(i)
  <2>1. RcvHeld(t) /\ ReceiptsKept
    BY <1>2, <1>13 DEF RcvHolds
  <2>2. Added(t) = rows /\ Added(next)' = {} /\ Added(Idle)' = {}
    BY <1>1, <1>2, <1>5 DEF Added, Idle
  <2>3. Fits(t) /\ receipts[r] = "DRAFT" /\ rows = LinesOf(r) /\ seen = lines /\ \A i \in rows : goods[i].accepted <= lines[goods[i].of].received
    BY <1>1, <1>2, <2>1, <2>2 DEF RcvHeld, Confirming
  <2>4. \A i \in DOMAIN goods : goods[i].grn \in DOMAIN receipts /\ (i \in rows <=> goods[i].grn = r)
    BY <1>1, <2>3 DEF RowsTyped, LinesOf
  <2>5. \A i \in DOMAIN goods : Confirmed(i)' <=> Confirmed(i) \/ i \in rows
    BY <1>6, <1>7, <2>4 DEF Confirmed
  <2>6. Counted' = Counted \union rows
    BY <1>3, <1>6, <2>5 DEF Counted
  <2>7. \A i \in rows : ~ Confirmed(i)
    BY <1>3, <2>3, <2>4 DEF Confirmed
  <2> QED BY <2>1, <2>2, <2>3, <2>5, <2>6, <2>7
<1>14. ASSUME RcvHolds, NEW k PROVE Tally(k, Counted \union Added(Idle))' = Tally(k, Counted \union Added(t)) /\ Tally(k, Counted \union Added(next))' = Tally(k, Counted \union Added(t))
  BY <1>6, <1>13, <1>14 DEF Tally, LineAmounts
<1>15. ASSUME RcvHolds PROVE \A i \in rows : goods[i].grn = r /\ (r \notin lost => booked[i] = 0)
  <2>1. SUFFICES ASSUME NEW i \in rows, r \notin lost PROVE booked[i] = 0
    BY <1>13, <1>15 DEF LinesOf
  <2>2. goods[i].grn = r /\ i \in DOMAIN goods /\ ~ Confirmed(i) /\ booked[i] \in Nat
    BY <1>1, <1>3, <1>13, <1>15, <2>1, RcvTerms DEF LinesOf
  <2>3. booked[i] <= 0
    BY <1>13, <1>15, <2>1, <2>2 DEF ReceiptsKept
  <2> QED BY <2>2, <2>3
<1>16. ASSUME RcvHolds PROVE RcvHeld(next)' /\ ReceiptsKept'
  <2>1. LinesOf(r)' = LinesOf(r) /\ next.left \subseteq rows
    BY <1>5, <1>6, <1>13, <1>16 DEF LinesOf
  <2>2. RcvHeld(next)'
    BY <1>5, <1>6, <1>7, <1>13, <1>15, <1>16, <2>1 DEF RcvHeld, Confirming
  <2>3. Fits(Idle)'
    BY <1>6, <1>13, <1>14, <1>16 DEF Fits
  <2>4. \A i \in DOMAIN goods : goods[i].grn \notin lost => booked[i] <= IF Confirmed(i)' THEN goods[i].accepted ELSE 0
    <3>1. SUFFICES ASSUME NEW i \in DOMAIN goods, goods[i].grn \notin lost PROVE booked[i] <= IF Confirmed(i)' THEN goods[i].accepted ELSE 0
      OBVIOUS
    <3>2. CASE i \in rows
      <4>1. Confirmed(i)' /\ booked[i] = 0 /\ goods[i].accepted \in Nat
        BY <1>1, <1>13, <1>15, <1>16, <3>1, <3>2, RcvTerms
      <4> QED BY <4>1
    <3>3. CASE i \notin rows
      <4>1. booked[i] <= IF Confirmed(i) THEN goods[i].accepted ELSE 0
        BY <1>13, <1>16, <3>1 DEF ReceiptsKept
      <4>2. Confirmed(i)' <=> Confirmed(i)
        BY <1>13, <1>16, <3>1, <3>3
      <4> QED BY <4>1, <4>2
    <3> QED BY <3>2, <3>3
  <2>5. \A q \in billed' : q \in DOMAIN receipts' /\ receipts'[q] = "CONFIRMED"
    <3>1. \A q \in billed' : q \in billed \/ q = r
      BY <1>6
    <3>2. \A q \in billed : q \in DOMAIN receipts' /\ receipts'[q] = "CONFIRMED"
      BY <1>7, <1>13, <1>16 DEF ReceiptsKept
    <3> QED BY <1>3, <1>7, <3>1, <3>2
  <2>6. \A i \in DOMAIN goods : goods[i].grn \in billed' => lines[goods[i].of].received >= lines[goods[i].of].quantity
    <3>1. SUFFICES ASSUME NEW i \in DOMAIN goods, goods[i].grn \in billed' PROVE lines[goods[i].of].received >= lines[goods[i].of].quantity
      OBVIOUS
    <3>2. CASE goods[i].grn \in billed
      BY <1>13, <1>16, <3>2 DEF ReceiptsKept
    <3>3. CASE goods[i].grn \notin billed
      <4>1. Covers(rows, seen) /\ i \in rows
        BY <1>6, <1>13, <1>16, <3>1, <3>3 DEF LinesOf
      <4>2. goods[i].accepted >= lines[goods[i].of].quantity /\ goods[i].accepted <= lines[goods[i].of].received
        BY <1>13, <1>16, <4>1 DEF Covers
      <4>3. PICK x, y, z : x = goods[i].accepted /\ y = lines[goods[i].of].quantity /\ z = lines[goods[i].of].received
        OBVIOUS
      <4>4. x \in Nat /\ y \in Nat /\ z \in Nat
        BY <1>1, <4>3, RcvTerms DEF RowsTyped
      <4>5. z >= y
        BY <4>2, <4>3, <4>4
      <4> QED BY <4>3, <4>5
    <3> QED BY <3>2, <3>3
  <2>7. order.status \in Early => receipts' = <<>>
    BY <1>3, <1>13, <1>16 DEF ReceiptsKept
  <2>8. ReceiptsKept'
    BY <1>6, <1>13, <1>16, <2>3, <2>4, <2>5, <2>6, <2>7 DEF ReceiptsKept
  <2> QED BY <2>2, <2>8
<1>17. ASSUME RcvHolds, disjoint', faults = 0 PROVE Exact(next)'
  <2>1. Exact(t)
    BY <1>1, <1>2, <1>3, <1>5, <1>10, <1>17, ExactBefore
  <2>2. \A k \in DOMAIN lines' : Tally(k, Counted \union Added(next))' = lines'[k].received
    BY <1>6, <1>14, <1>17, <2>1 DEF Exact
  <2>3. ASSUME NEW i \in DOMAIN goods PROVE booked[i] = IF Confirmed(i)' /\ i \notin next.left THEN goods[i].accepted ELSE 0
    <3>1. booked[i] = IF Confirmed(i) THEN goods[i].accepted ELSE 0
      BY <1>1, <1>2, <2>1 DEF Exact, Unbooked
    <3>2. CASE i \in rows
      <4>1. Confirmed(i)' /\ ~ Confirmed(i) /\ goods[i].accepted \in Nat /\ (i \in next.left <=> goods[i].accepted > 0)
        BY <1>1, <1>5, <1>13, <1>17, <3>2, RcvTerms
      <4> QED BY <3>1, <4>1
    <3>3. CASE i \notin rows
      <4>1. i \notin next.left /\ (Confirmed(i)' <=> Confirmed(i))
        BY <1>5, <1>13, <1>17, <3>3
      <4> QED BY <3>1, <4>1
    <3> QED BY <3>2, <3>3
  <2>4. Unbooked(next)' = next.left
    BY <1>5 DEF Unbooked
  <2>5. \A i \in DOMAIN goods' : booked'[i] = IF Confirmed(i)' /\ i \notin Unbooked(next)' THEN goods'[i].accepted ELSE 0
    BY <1>6, <2>3, <2>4
  <2> QED BY <2>2, <2>5 DEF Exact
<1> QED BY <1>3, <1>5, <1>6, <1>8, <1>9, <1>11, <1>12, <1>16, <1>17, RcvFrame

LEMMA LoseReceiptKeeps ==
  ASSUME RcvKept, NEW c \in Call, LoseReceipt(c)
  PROVE  RcvKept'
<1>1. RcvTyped /\ RowsTyped /\ Apart /\ call[c].pc = "matching" /\ call[c] # Idle /\ call[c] \in RcvCall
  BY DEF RcvKept, RcvTyped, LoseReceipt, At, Idle
<1>2. PICK r : r = call[c].r
  OBVIOUS
<1>3. r \in DOMAIN receipts /\ OrderRow \in touches[c]
  BY <1>1, <1>2 DEF RcvTyped, RcvKnown, RcvRows, Confirming
<1>4. PICK next : next = ToBook(r)
  OBVIOUS
<1>5. /\ next \in RcvCall /\ next # Idle /\ next.pc = "booking" /\ next.r = r
      /\ next.left \subseteq DOMAIN goods /\ next.left = {i \in LinesOf(r) : goods[i].accepted > 0}
  BY <1>1, <1>3, <1>4, ToBookIs
<1>6. /\ lost' = lost \union {r} /\ Falter(c, next)
      /\ order' = order /\ lines' = lines /\ receipts' = receipts /\ goods' = goods /\ booked' = booked /\ billed' = billed
  BY <1>2, <1>4 DEF LoseReceipt
<1>7. RcvKnown(next)' /\ RcvRows(next, touches[c])
  BY <1>3, <1>5, <1>6 DEF RcvKnown, RcvRows, Confirming
<1>8. RcvGoes(c, next)
  BY <1>1, <1>5, <1>6, <1>7 DEF RcvGoes
<1>9. /\ Apart' /\ Moved(c) /\ call'[c] = next /\ RcvRows(next, touches'[c])
      /\ OrderRow \in touches[c] /\ OrderRow \notin touches'[c] => next = Idle
  BY <1>1, <1>5, <1>8, RcvMoves
<1>10. faults' # 0
  <2>1. next.pc # "idle"
    BY <1>5
  <2> QED BY <1>1, <1>6, <2>1, Faltering
<1>11. RowsTyped' /\ RcvGrown /\ Counted' = Counted
  BY <1>1, <1>6 DEF RowsTyped, RcvGrown, Counted, Confirmed
<1>12. ASSUME RcvHolds PROVE RcvHeld(next)' /\ ReceiptsKept'
  <2>1. ReceiptsKept
    BY <1>12 DEF RcvHolds
  <2>2. Fits(Idle)'
    BY <1>6, <1>11, <2>1, SameSums DEF ReceiptsKept
  <2>3. ReceiptsKept'
    BY <1>6, <2>1, <2>2 DEF ReceiptsKept, Confirmed
  <2>4. next.left \subseteq LinesOf(r)' /\ r \in lost'
    BY <1>5, <1>6 DEF LinesOf
  <2>5. RcvHeld(next)'
    BY <1>5, <2>4 DEF RcvHeld, Confirming
  <2> QED BY <2>3, <2>5
<1>13. \A q \in DOMAIN receipts : receipts'[q] = receipts[q]
  BY <1>6
<1> QED BY <1>3, <1>5, <1>7, <1>9, <1>10, <1>11, <1>12, <1>13, RcvFrame

LEMMA BookLineKeeps ==
  ASSUME RcvKept, NEW c \in Call, NEW i \in DOMAIN goods, BookLine(c, i)
  PROVE  RcvKept'
<1>1. RcvTyped /\ RowsTyped /\ Apart /\ call[c].pc = "booking" /\ call[c] # Idle /\ call[c] \in RcvCall /\ i \in call[c].left
  BY DEF RcvKept, RcvTyped, BookLine, At, Idle
<1>2. PICK t, a, next : t = call[c] /\ a = goods[i].accepted /\ next = [t EXCEPT !.left = t.left \ {i}]
  OBVIOUS
<1>3. /\ booked' = [booked EXCEPT ![i] = booked[i] + a] /\ Await(c, next)
      /\ order' = order /\ lines' = lines /\ receipts' = receipts /\ goods' = goods /\ billed' = billed /\ lost' = lost
  BY <1>2 DEF BookLine
<1>4. t \in [pc : {"booking"}, r : Nat, left : SUBSET Nat]
  BY <1>1, <1>2 DEF RcvCall, Idle
<1>5. /\ next.pc = "booking" /\ next.r = t.r /\ next.left = t.left \ {i}
      /\ next \in [pc : {"booking"}, r : Nat, left : SUBSET Nat]
  BY <1>2, <1>4
<1>6. next \in RcvCall /\ next # Idle
  BY <1>5 DEF RcvCall, Idle
<1>7. RcvKnown(t) /\ RcvRows(t, touches[c])
  BY <1>1, <1>2 DEF RcvTyped
<1>8. RcvKnown(next)' /\ RcvRows(next, touches[c]) /\ OrderRow \in touches[c]
  BY <1>1, <1>2, <1>3, <1>5, <1>7 DEF RcvKnown, RcvRows, Confirming
<1>9. RcvGoes(c, next)
  BY <1>1, <1>3, <1>6, <1>8 DEF RcvGoes
<1>10. /\ Apart' /\ Moved(c) /\ call'[c] = next /\ RcvRows(next, touches'[c])
       /\ OrderRow \in touches[c] /\ OrderRow \notin touches'[c] => next = Idle
  BY <1>1, <1>6, <1>9, RcvMoves
<1>11. /\ a \in Nat /\ booked[i] \in Nat /\ booked' \in Seq(Nat) /\ Len(booked') = Len(booked)
       /\ booked'[i] = booked[i] + a /\ \A j \in DOMAIN goods : j # i => booked'[j] = booked[j]
  <2>1. a \in Nat /\ booked[i] \in Nat /\ i \in DOMAIN booked /\ DOMAIN booked = DOMAIN goods
    BY <1>1, <1>2, RcvTerms
  <2>2. booked \in Seq(Nat) /\ booked[i] + a \in Nat
    BY <1>1, <2>1 DEF RowsTyped
  <2> QED BY <1>3, <2>1, <2>2
<1>12. RowsTyped' /\ RcvGrown /\ Counted' = Counted
  BY <1>1, <1>3, <1>11 DEF RowsTyped, RcvGrown, Counted, Confirmed
<1>13. ASSUME RcvHolds
       PROVE  /\ ReceiptsKept /\ t.left \subseteq LinesOf(t.r) /\ goods[i].grn = t.r
              /\ t.r \in lost \/ receipts[t.r] = "CONFIRMED"
              /\ t.r \notin lost => \A j \in t.left : booked[j] = 0
  <2>1. RcvHeld(t) /\ ReceiptsKept
    BY <1>2, <1>13 DEF RcvHolds
  <2> QED BY <1>1, <1>2, <2>1 DEF RcvHeld, LinesOf
<1>14. ASSUME RcvHolds PROVE RcvHeld(next)' /\ ReceiptsKept'
  <2>1. \A j \in next.left : j \in t.left /\ j # i /\ j \in DOMAIN goods
    BY <1>1, <1>2, <1>5, <1>7 DEF RcvKnown
  <2>2. t.r \notin lost => \A j \in next.left : booked'[j] = 0
    BY <1>11, <1>13, <1>14, <2>1
  <2>3. next.left \subseteq LinesOf(t.r)'
    BY <1>3, <1>13, <1>14, <2>1 DEF LinesOf
  <2>4. RcvHeld(next)'
    BY <1>3, <1>5, <1>13, <1>14, <2>2, <2>3 DEF RcvHeld, Confirming
  <2>5. ASSUME NEW j \in DOMAIN goods, goods[j].grn \notin lost
        PROVE  booked'[j] <= IF Confirmed(j) THEN goods[j].accepted ELSE 0
    <3>1. CASE j = i
      <4>1. Confirmed(i) /\ booked[i] = 0
        BY <1>1, <1>2, <1>13, <1>14, <2>5, <3>1 DEF Confirmed
      <4>2. booked'[i] = a
        BY <1>11, <4>1
      <4> QED BY <1>2, <1>11, <3>1, <4>1, <4>2
    <3>2. CASE j # i
      BY <1>11, <1>13, <1>14, <2>5, <3>2 DEF ReceiptsKept
    <3> QED BY <3>1, <3>2
  <2>6. Fits(Idle)'
    BY <1>3, <1>12, <1>13, <1>14, SameSums DEF ReceiptsKept
  <2>7. \A j \in DOMAIN goods : Confirmed(j)' <=> Confirmed(j)
    BY <1>3 DEF Confirmed
  <2>8. ReceiptsKept'
    BY <1>3, <1>13, <1>14, <2>5, <2>6, <2>7 DEF ReceiptsKept
  <2> QED BY <2>4, <2>8
<1>15. ASSUME RcvHolds, disjoint', faults = 0 PROVE Exact(next)'
  <2>1. Exact(t) /\ lost = {}
    BY <1>1, <1>2, <1>6, <1>8, <1>9, <1>15, ExactBefore DEF RcvTyped
  <2>2. Added(t) = {} /\ Added(next) = {} /\ Added(next)' = {} /\ Unbooked(t) = t.left /\ Unbooked(next)' = t.left \ {i}
    BY <1>1, <1>2, <1>5 DEF Added, Unbooked
  <2>3. ASSUME NEW j \in DOMAIN goods PROVE booked'[j] = IF Confirmed(j) /\ j \notin t.left \ {i} THEN goods[j].accepted ELSE 0
    <3>1. CASE j = i
      <4>1. Confirmed(i) /\ booked[i] = 0
        BY <1>1, <1>2, <1>13, <1>15, <2>1 DEF Confirmed
      <4>2. booked'[i] = a
        BY <1>11, <4>1
      <4> QED BY <1>2, <3>1, <4>1, <4>2
    <3>2. CASE j # i
      <4>1. booked[j] = IF Confirmed(j) /\ j \notin t.left THEN goods[j].accepted ELSE 0
        BY <2>1, <2>2 DEF Exact
      <4> QED BY <1>11, <3>2, <4>1
    <3> QED BY <3>1, <3>2
  <2>4. ASSUME NEW k \in DOMAIN lines' PROVE Tally(k, Counted \union Added(next))' = lines'[k].received
    <3>1. k \in DOMAIN lines /\ Tally(k, Counted \union Added(t)) = lines[k].received
      BY <1>3, <2>1 DEF Exact
    <3>2. Tally(k, Counted \union Added(next))' = Tally(k, Counted \union Added(t))
      BY <1>3, <1>12, <2>2 DEF Tally, LineAmounts
    <3> QED BY <1>3, <3>1, <3>2
  <2>5. \A j \in DOMAIN goods' : booked'[j] = IF Confirmed(j)' /\ j \notin Unbooked(next)' THEN goods'[j].accepted ELSE 0
    BY <1>3, <2>2, <2>3 DEF Confirmed
  <2> QED BY <2>4, <2>5 DEF Exact
<1>16. \A q \in DOMAIN receipts : receipts'[q] = receipts[q]
  BY <1>3
<1> QED BY <1>3, <1>6, <1>8, <1>10, <1>12, <1>14, <1>15, <1>16, RcvFrame

-----------------------------------------------------------------------------
LEMMA ReceivingStarts == ReceivingInit => RcvKept
<1> SUFFICES ASSUME ReceivingInit PROVE RcvKept
  OBVIOUS
<1>1. /\ RequestsInit /\ order = [status |-> "DRAFT", level |-> 0] /\ receipts = <<>> /\ goods = <<>> /\ booked = <<>>
      /\ billed = {} /\ lost = {} /\ \A c \in Call : call[c] = Idle /\ touches[c] = {}
  BY DEF ReceivingInit, RequestsInit
<1>2. PICK m \in 0 .. MaxLines : \E batch \in [1 .. m -> Quantities] : lines = NewLines(batch)
  BY DEF ReceivingInit, Batches
<1>3. PICK batch \in [1 .. m -> Nat] : lines = NewLines(batch)
  BY <1>2, ReceivingAssumption
<1>4. lines \in Seq(LineRow) /\ \A k \in DOMAIN lines : lines[k].received = 0
  <2>1. PICK S : S = LineRow
    OBVIOUS
  <2>2. lines = [k \in 1 .. m |-> [quantity |-> batch[k], received |-> 0, gone |-> FALSE]] /\ m \in Nat
    BY <1>3, ReceivingAssumption DEF NewLines
  <2>3. \A k \in 1 .. m : [quantity |-> batch[k], received |-> 0, gone |-> FALSE] \in S
    BY <1>3, <2>1 DEF LineRow
  <2>4. lines \in [1 .. m -> S]
    BY <2>2, <2>3
  <2>5. lines \in Seq(S)
    BY <2>2, <2>4
  <2> QED BY <2>1, <2>2, <2>5
<1>5. RowsTyped
  BY <1>1, <1>4 DEF RowsTyped, PurchaseOrder, OrderStatus, Early
<1>6. RcvTyped
  <2>1. call \in [Call -> RcvCall]
    BY DEF ReceivingInit, RequestsInit, RcvCall
  <2>2. \A c \in Call : RcvKnown(call[c]) /\ RcvRows(call[c], touches[c])
    BY <1>1 DEF RcvKnown, RcvRows, Idle, Confirming
  <2> QED BY <1>1, <1>5, <2>1, <2>2, ApartStarts DEF RcvTyped
<1>7. \A c \in Call : RcvHeld(call[c])
  BY <1>1 DEF RcvHeld, Idle, Confirming
<1>8. \A k : Tally(k, Counted \union Added(Idle)) = 0
  <2>1. Counted \union Added(Idle) = {}
    BY <1>1, RcvEnds DEF Counted
  <2> QED BY <2>1, SumEmpty DEF Tally
<1>9. Fits(Idle) /\ Exact(Idle)
  <2>1. DOMAIN goods = {}
    BY <1>1
  <2>2. \A k \in DOMAIN lines : Tally(k, Counted \union Added(Idle)) = lines[k].received /\ lines[k].received = 0
    BY <1>4, <1>8
  <2>3. \A k \in DOMAIN lines : Tally(k, Counted \union Added(Idle)) <= lines[k].received
    <3>1. SUFFICES ASSUME NEW k \in DOMAIN lines PROVE Tally(k, Counted \union Added(Idle)) <= lines[k].received
      OBVIOUS
    <3>2. PICK x, y : x = Tally(k, Counted \union Added(Idle)) /\ y = lines[k].received
      OBVIOUS
    <3>3. x = 0 /\ y = 0
      BY <2>2, <3>2
    <3>4. x <= y
      BY <3>3
    <3> QED BY <3>2, <3>4
  <2> QED BY <2>1, <2>2, <2>3 DEF Fits, Exact
<1>10. ReceiptsKept /\ InStep
  BY <1>1, <1>9 DEF ReceiptsKept, InStep
<1> QED BY <1>6, <1>7, <1>10 DEF RcvKept, RcvHolds

\* Every step keeps what the proof carries along.
LEMMA ReceivingSteps == RcvKept /\ [ReceivingNext]_<<receivingVars, requestVars>> => RcvKept'
<1> SUFFICES ASSUME RcvKept, [ReceivingNext]_<<receivingVars, requestVars>> PROVE RcvKept'
  OBVIOUS
<1>1. CASE UNCHANGED <<receivingVars, requestVars>>
  <2>1. /\ order' = order /\ lines' = lines /\ receipts' = receipts /\ goods' = goods /\ booked' = booked
        /\ billed' = billed /\ lost' = lost
        /\ call' = call /\ touches' = touches /\ disjoint' = disjoint /\ faults' = faults
    BY <1>1 DEF receivingVars, requestVars
  <2>2. RcvTyped'
    BY <1>1, <2>1, ApartStays DEF RcvKept, RcvTyped, RowsTyped, RcvKnown, RcvRows
  <2>3. Counted' = Counted
    BY <2>1 DEF Counted, Confirmed
  <2>4. \A k, u : Tally(k, Counted \union Added(u))' = Tally(k, Counted \union Added(u))
    BY <2>1, <2>3 DEF Tally, LineAmounts, Added
  <2>5. \A u : (Fits(u)' <=> Fits(u)) /\ (Exact(u)' <=> Exact(u))
    BY <2>1, <2>4 DEF Fits, Exact, Confirmed, Unbooked
  <2>6. \A c \in Call : RcvHeld(call[c]) => RcvHeld(call[c])'
    BY <2>1, <2>5 DEF RcvHeld, LinesOf, Added, Fits, Tally
  <2>7. ReceiptsKept => ReceiptsKept'
    BY <2>1, <2>5 DEF ReceiptsKept, Confirmed
  <2>8. InStep => InStep'
    BY <2>1, <2>5 DEF InStep, Exact, Tally, Unbooked, Added
  <2> QED BY <2>1, <2>2, <2>6, <2>7, <2>8 DEF RcvKept, RcvHolds
<1>2. ASSUME NEW c \in Call, NEW verb \in DOMAIN OrderFrom, ReadOrder(c, verb) PROVE RcvKept'
  BY <1>2, ReadOrderKeeps
<1>3. ASSUME NEW c \in Call, CutLines(c) PROVE RcvKept'
  BY <1>3, CutLinesKeeps
<1>4. ASSUME NEW c \in Call, InsertLines(c) PROVE RcvKept'
  BY <1>4, InsertLinesKeeps
<1>5. ASSUME NEW c \in Call, SaveOrder(c) PROVE RcvKept'
  BY <1>5, SaveOrderKeeps
<1>6. ASSUME NEW c \in Call, NEW m \in 1 .. (MaxListed - Len(goods)), NEW d \in Delivery(m), BeginReceipt(c, d) PROVE RcvKept'
  <2>1. m \in Nat
    BY RcvTerms, ReceivingAssumption DEF RcvKept, RcvTyped
  <2> QED BY <1>6, <2>1, BeginReceiptKeeps
<1>7. ASSUME NEW c \in Call, SaveReceipt(c) PROVE RcvKept'
  BY <1>7, SaveReceiptKeeps
<1>8. ASSUME NEW c \in Call, SaveReceiptLines(c) PROVE RcvKept'
  BY <1>8, SaveReceiptLinesKeeps
<1>9. ASSUME NEW c \in Call, NEW r \in DOMAIN receipts, CancelReceipt(c, r) PROVE RcvKept'
  BY <1>9, CancelReceiptKeeps
<1>10. ASSUME NEW c \in Call, NEW r \in DOMAIN receipts, BeginConfirm(c, r) PROVE RcvKept'
  BY <1>10, BeginConfirmKeeps
<1>11. ASSUME NEW c \in Call, SaveCancelled(c) PROVE RcvKept'
  BY <1>11, SaveCancelledKeeps
<1>12. ASSUME NEW c \in Call, NEW i \in DOMAIN goods, ReadLine(c, i) PROVE RcvKept'
  BY <1>12, ReadLineKeeps
<1>13. ASSUME NEW c \in Call, SaveLine(c) PROVE RcvKept'
  BY <1>13, SaveLineKeeps
<1>14. ASSUME NEW c \in Call, WeighOrder(c) PROVE RcvKept'
  BY <1>14, WeighOrderKeeps
<1>15. ASSUME NEW c \in Call, MarkOrder(c) PROVE RcvKept'
  BY <1>15, MarkOrderKeeps
<1>16. ASSUME NEW c \in Call, CommitReceipt(c) PROVE RcvKept'
  BY <1>16, CommitReceiptKeeps
<1>17. ASSUME NEW c \in Call, LoseReceipt(c) PROVE RcvKept'
  BY <1>17, LoseReceiptKeeps
<1>18. ASSUME NEW c \in Call, NEW i \in DOMAIN goods, BookLine(c, i) PROVE RcvKept'
  BY <1>18, BookLineKeeps
<1>19. ASSUME NEW c \in Call, NEW i \in DOMAIN goods, SkipLine(c, i) PROVE RcvKept'
  BY <1>19, SkipLineKeeps
<1>20. ASSUME NEW c \in Call, EndConfirm(c) PROVE RcvKept'
  BY <1>20, EndConfirmKeeps
<1>21. ASSUME NEW c \in Call, PerishInReceiving(c) PROVE RcvKept'
  BY <1>21, PerishInReceivingKeeps
<1> QED BY <1>1, <1>2, <1>3, <1>4, <1>5, <1>6, <1>7, <1>8, <1>9, <1>10, <1>11, <1>12, <1>13, <1>14, <1>15, <1>16, <1>17, <1>18,
           <1>19, <1>20, <1>21 DEF ReceivingNext

LEMMA ReceivingAgrees == RcvKept => ReceiptsAgree
<1> SUFFICES ASSUME RcvKept PROVE ReceiptsAgree
  OBVIOUS
<1>1. RcvTyped /\ RowsTyped
  BY DEF RcvKept, RcvTyped
<1>2. \A k : Tally(k, Counted \union Added(Idle)) = AcceptedOf(k)
  <2>1. Counted \union Added(Idle) = Counted
    BY RcvEnds
  <2> QED BY <2>1 DEF Tally, AcceptedOf
<1>3. ASSUME disjoint
      PROVE  /\ \A k \in DOMAIN lines : AcceptedOf(k) <= lines[k].received
             /\ \A i \in DOMAIN goods : goods[i].grn \notin lost => booked[i] <= IF Confirmed(i) THEN goods[i].accepted ELSE 0
             /\ \A i \in DOMAIN goods : goods[i].grn \in billed =>
                  Confirmed(i) /\ lines[goods[i].of].received >= lines[goods[i].of].quantity
  <2>1. ReceiptsKept
    BY <1>3 DEF RcvKept, RcvHolds
  <2> QED BY <1>2, <2>1 DEF ReceiptsKept, Fits, Confirmed
<1>4. ASSUME Undisturbed, Quiet
      PROVE  /\ \A k \in DOMAIN lines : AcceptedOf(k) = lines[k].received
             /\ \A i \in DOMAIN goods : booked[i] = IF Confirmed(i) THEN goods[i].accepted ELSE 0
  <2>1. \A c \in Call : OrderRow \notin touches[c]
    BY <1>1, <1>4 DEF RcvTyped, Apart, Quiet
  <2>2. Exact(Idle)
    BY <1>4, <2>1 DEF RcvKept, RcvHolds, InStep, Undisturbed
  <2> QED BY <1>2, <2>2, RcvEnds DEF Exact
<1> QED BY <1>3, <1>4 DEF ReceiptsAgree

\* The lines of the order, the confirmed receipts and the clearing account tell the
\* same of what was received as far as requests for the order do not overlap, and a
\* receipt that bills the order is confirmed and covers the lines it names: for any
\* quantities, levels of approval, receipts, edits and requests, some of which die
\* or lose a transaction unnoticed (confirmGrn, updateLineQuantityReceived,
\* createGrEntry, threeWayMatchInternal).
THEOREM ReceiptsAlwaysAgree == ReceivingSpec => []ReceiptsAgree
BY ReceivingStarts, ReceivingSteps, ReceivingAgrees, PTL DEF ReceivingSpec
=============================================================================
