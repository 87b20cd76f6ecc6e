---------------------------- MODULE SumProofs ----------------------------
(***************************************************************************)
(* Induction, and what it proves of recursive functions and of sums.       *)
(*                                                                         *)
(* SumFunctionOnSet of the community modules is a recursive function on the*)
(* subsets of the set it sums over; the balances of all accounts, and what *)
(* all orders of an account still sell, are such sums.  The loops of the   *)
(* price list are recursive functions of the number of rounds.  What either*)
(* amounts to is proved by induction over a set: one of the subsets of a   *)
(* finite set that has all it has to have is all of them, and so is a set  *)
(* of numbers.                                                             *)
(***************************************************************************)
EXTENDS Functions, FiniteSetTheorems, WellFoundedInduction, TLAPS

LEMMA LeastSubset ==
  ASSUME NEW S, IsFiniteSet(S), NEW F, F \subseteq SUBSET S, F # {}
  PROVE  \E T \in F : \A U \in F : ~(U \subseteq T /\ U # T)
<1>1. IsWellFoundedOn(StrictSubsetOrdering(S), FiniteSubsetsOf(S))
  BY FS_StrictSubsetOrderingWellFounded
<1>2. F \subseteq FiniteSubsetsOf(S)
  BY FS_Subset DEF FiniteSubsetsOf
<1>3. PICK T \in F : \A U \in F : ~ (<<U, T>> \in StrictSubsetOrdering(S))
  BY <1>1, <1>2, WFMin, Zenon
<1> QED BY <1>3 DEF StrictSubsetOrdering

(* Induction over the subsets of a finite set.  The property is given as   *)
(* the set of subsets that have it.                                        *)
LEMMA SubsetInduction ==
  ASSUME NEW S, IsFiniteSet(S), NEW Good,
         \A T \in SUBSET S : (\A U \in SUBSET T : U # T => U \in Good) => T \in Good
  PROVE  SUBSET S \subseteq Good
<1>1. SUFFICES ASSUME (SUBSET S) \ Good # {} PROVE FALSE
  OBVIOUS
<1>2. PICK Bad : Bad = (SUBSET S) \ Good
  OBVIOUS
<1>3. PICK T \in Bad : \A U \in Bad : ~(U \subseteq T /\ U # T)
  <2>1. Bad \subseteq SUBSET S /\ Bad # {}
    BY <1>1, <1>2
  <2> QED BY <2>1, LeastSubset
<1> QED BY <1>2, <1>3

(* The same for one element at a time, as a recursion over sets removes    *)
(* them.                                                                   *)
Chosen(s) == CHOOSE x \in s : TRUE

LEMMA ChosenIn == \A s : s # {} => Chosen(s) \in s
  BY DEF Chosen

LEMMA ChosenInduction ==
  ASSUME NEW S, IsFiniteSet(S), NEW Good, {} \in Good,
         \A T \in SUBSET S : T # {} /\ T \ {Chosen(T)} \in Good => T \in Good
  PROVE  S \in Good
<1>1. ASSUME NEW T \in SUBSET S, \A U \in SUBSET T : U # T => U \in Good
      PROVE  T \in Good
  <2>1. CASE T = {}
    BY <2>1
  <2>2. CASE T # {}
    <3>1. T \ {Chosen(T)} \in SUBSET T /\ T \ {Chosen(T)} # T
      BY <2>2, ChosenIn
    <3> QED BY <1>1, <2>2, <3>1
  <2> QED BY <2>1, <2>2
<1>2. SUBSET S \subseteq Good
  BY <1>1, SubsetInduction
<1> QED BY <1>2

(* Induction over the natural numbers; the property is given as a set. *)
LEMMA CountingUp ==
  ASSUME NEW Good, 0 \in Good, \A n \in Nat : n \in Good => n + 1 \in Good
  PROVE  Nat \subseteq Good
<1> SUFFICES ASSUME NEW m \in Nat, m \notin Good PROVE FALSE
  OBVIOUS
<1> DEFINE S == 0 .. m
           F == {0 .. n : n \in S \ Good}
<1>1. IsFiniteSet(S) /\ F \subseteq SUBSET S
  <2>1. IsFiniteSet(S)
    BY FS_Interval
  <2>2. F \subseteq SUBSET S
    OBVIOUS
  <2> QED BY <2>1, <2>2
<1>2. S \in F
  OBVIOUS
<1>3. PICK T \in F : \A U \in F : ~(U \subseteq T /\ U # T)
  <2> HIDE DEF F, S
  <2> QED BY <1>1, <1>2, LeastSubset
<1>4. PICK n \in S \ Good : T = 0 .. n
  BY <1>3
<1>5. n # 0 /\ n - 1 \in Nat /\ n - 1 \in S \ Good
  BY <1>4
<1>6. 0 .. (n - 1) \in F /\ 0 .. (n - 1) \subseteq T
  BY <1>4, <1>5
<1>7. n \in T /\ n \notin 0 .. (n - 1)
  BY <1>4, <1>5
<1> QED BY <1>3, <1>6, <1>7

(* The least of a set of natural numbers. *)
LEMMA LeastNumber ==
  ASSUME NEW N, N \subseteq Nat, N # {}
  PROVE  \E n \in N : \A m \in N : n <= m
<1> SUFFICES ASSUME \A n \in N : \E m \in N : m < n PROVE FALSE
  OBVIOUS
<1> DEFINE Good == {n \in Nat : \A m \in 0 .. n : m \notin N}
<1>1. 0 \in Good
  OBVIOUS
<1>2. ASSUME NEW n \in Nat, n \in Good PROVE n + 1 \in Good
  BY <1>2
<1> HIDE DEF Good
<1>3. Nat \subseteq Good
  BY <1>1, <1>2, CountingUp
<1>4. PICK n \in N : TRUE
  OBVIOUS
<1>5. n \in Good
  BY <1>3
<1> QED BY <1>4, <1>5 DEF Good

(* What is defined from one number to the next is defined: there is a      *)
(* function that starts with x and takes step n to n + 1.                  *)
Steps(f, x, step, m) == f[0] = x /\ \A n \in 0 .. (m - 1) : f[n + 1] = step[n][f[n]]

Moves(step, S) == step \in [Nat -> [S -> S]]
Iterates(f, S, x, step) ==
  f \in [Nat -> S] /\ f[0] = x /\ \A n \in Nat : f[n + 1] = step[n][f[n]]

LEMMA RecursionExists ==
  ASSUME NEW S, NEW x \in S, NEW step, Moves(step, S)
  PROVE  \E f : Iterates(f, S, x, step)
<1>0. step \in [Nat -> [S -> S]]
  BY DEF Moves
<1> DEFINE Good == {m \in Nat : \E g \in [0 .. m -> S] : Steps(g, x, step, m)}
<1>1. 0 \in Good
  <2> DEFINE g == [n \in 0 .. 0 |-> x]
  <2>1. g \in [0 .. 0 -> S] /\ Steps(g, x, step, 0)
    BY DEF Steps
  <2> QED BY <2>1
<1>2. ASSUME NEW m \in Nat, m \in Good PROVE m + 1 \in Good
  <2>1. PICK g \in [0 .. m -> S] : Steps(g, x, step, m)
    BY <1>2
  <2> DEFINE h == [n \in 0 .. (m + 1) |-> IF n = m + 1 THEN step[m][g[m]] ELSE g[n]]
  <2>2. h \in [0 .. (m + 1) -> S]
    BY <1>0
  <2>3. Steps(h, x, step, m + 1)
    BY <2>1 DEF Steps
  <2> HIDE DEF h
  <2> QED BY <2>2, <2>3
<1>3. Nat \subseteq Good
  <2> HIDE DEF Good
  <2> QED BY <1>1, <1>2, CountingUp
<1> DEFINE G(m) == CHOOSE g \in [0 .. m -> S] : Steps(g, x, step, m)
<1>4. ASSUME NEW m \in Nat PROVE G(m) \in [0 .. m -> S] /\ Steps(G(m), x, step, m)
  BY <1>3
<1> HIDE DEF G
<1>5. ASSUME NEW m \in Nat PROVE G(m + 1)[m] = G(m)[m]
  <2> DEFINE Same == {n \in Nat : n <= m => G(m + 1)[n] = G(m)[n]}
  <2>1. Steps(G(m), x, step, m) /\ Steps(G(m + 1), x, step, m + 1)
    BY <1>4
  <2>2. 0 \in Same
    BY <2>1 DEF Steps
  <2>3. ASSUME NEW n \in Nat, n \in Same PROVE n + 1 \in Same
    BY <2>1, <2>3 DEF Steps
  <2>4. Nat \subseteq Same
    <3> HIDE DEF Same
    <3> QED BY <2>2, <2>3, CountingUp
  <2> QED BY <2>4
<1> DEFINE f == [n \in Nat |-> G(n)[n]]
<1>6. f \in [Nat -> S]
  BY <1>4
<1>7. f[0] = x
  BY <1>4 DEF Steps
<1>8. ASSUME NEW n \in Nat PROVE f[n + 1] = step[n][f[n]]
  <2>1. G(n + 1)[n + 1] = step[n][G(n + 1)[n]]
    BY <1>4 DEF Steps
  <2> QED BY <1>5, <2>1
<1> HIDE DEF f
<1> QED BY <1>6, <1>7, <1>8 DEF Iterates

-----------------------------------------------------------------------------
(* The recursion of a sum *)

Adds(iter, f, S) ==
  iter = [s \in SUBSET S |-> IF s = {} THEN 0 ELSE f[Chosen(s)] + iter[s \ {Chosen(s)}]]
Adding(f, S) == CHOOSE iter : Adds(iter, f, S)

LEMMA SumIsAdding == \A f, S : SumFunctionOnSet(f, S) = Adding(f, S)[S]
  BY DEF SumFunctionOnSet, FoldFunctionOnSet, MapThenFoldSet, Adding, Adds, Chosen

(* Two functions that obey it, for different sets, agree where both are    *)
(* defined.                                                                *)
LEMMA AddingAgree ==
  ASSUME NEW f, NEW S, IsFiniteSet(S), NEW T, S \subseteq T, NEW g, NEW h,
         Adds(g, f, S), Adds(h, f, T)
  PROVE  g[S] = h[S]
<1> DEFINE Good == {s \in SUBSET S : g[s] = h[s]}
<1>1. {} \in Good
  BY DEF Adds
<1>2. ASSUME NEW s \in SUBSET S, s # {}, s \ {Chosen(s)} \in Good
      PROVE  s \in Good
  BY <1>2 DEF Adds
<1> HIDE DEF Good
<1>3. S \in Good
  BY <1>1, <1>2, ChosenInduction
<1> QED BY <1>3 DEF Good

(* There is such a function, so the sum obeys it.                          *)
LEMMA AddingExists ==
  ASSUME NEW f, NEW S, IsFiniteSet(S)
  PROVE  Adds(Adding(f, S), f, S)
<1> DEFINE Good == {T \in SUBSET S : Adds(Adding(f, T), f, T)}
<1>1. ASSUME NEW T \in SUBSET S, \A U \in SUBSET T : U # T => U \in Good
      PROVE  T \in Good
  <2> DEFINE Rest(s) == s \ {Chosen(s)}
             g == [s \in SUBSET T |-> IF s = {} THEN 0
                      ELSE f[Chosen(s)] + Adding(f, Rest(s))[Rest(s)]]
  <2>1. ASSUME NEW s \in SUBSET T, s # {}
        PROVE  g[Rest(s)] = Adding(f, Rest(s))[Rest(s)]
    <3> DEFINE r == Rest(s)
               q == Rest(r)
    <3>1. r \subseteq T /\ r # T
      BY <2>1, ChosenIn
    <3>2. Adds(Adding(f, r), f, r)
      BY <1>1, <3>1
    <3>3. CASE r = {}
      BY <3>1, <3>2, <3>3 DEF Adds
    <3>4. CASE r # {}
      <4>1. q \subseteq r /\ q # T /\ q \subseteq T
        BY <3>1, <3>4, ChosenIn
      <4>2. Adds(Adding(f, q), f, q)
        BY <1>1, <4>1
      <4>3. IsFiniteSet(q)
        BY <4>1, FS_Subset
      <4>4. Adding(f, q)[q] = Adding(f, r)[q]
        <5> HIDE DEF q, r
        <5> QED BY <3>2, <4>1, <4>2, <4>3, AddingAgree
      <4>5. Adding(f, r)[r] = f[Chosen(r)] + Adding(f, r)[q]
        BY <3>2, <3>4 DEF Adds
      <4>6. g[r] = f[Chosen(r)] + Adding(f, q)[q]
        BY <3>1, <3>4
      <4> QED BY <4>4, <4>5, <4>6
    <3> QED BY <3>3, <3>4
  <2>2. Adds(g, f, T)
    BY <2>1 DEF Adds
  <2> QED BY <2>2 DEF Adding
<1> HIDE DEF Good
<1>2. SUBSET S \subseteq Good
  BY <1>1, SubsetInduction
<1> QED BY <1>2 DEF Good

LEMMA SumOfNone == \A f : SumFunctionOnSet(f, {}) = 0
<1> TAKE f
<1>1. Adds(Adding(f, {}), f, {})
  BY AddingExists, FS_EmptySet
<1> QED BY <1>1, SumIsAdding DEF Adds

LEMMA SumOfChosen ==
  ASSUME NEW f, NEW S, IsFiniteSet(S), S # {}
  PROVE  SumFunctionOnSet(f, S)
           = f[Chosen(S)] + SumFunctionOnSet(f, S \ {Chosen(S)})
<1> DEFINE R == S \ {Chosen(S)}
<1>1. IsFiniteSet(R)
  BY FS_Subset
<1>2. Adds(Adding(f, S), f, S) /\ Adds(Adding(f, R), f, R)
  BY <1>1, AddingExists
<1>3. Adding(f, R)[R] = Adding(f, S)[R]
  <2>1. R \subseteq S
    OBVIOUS
  <2> HIDE DEF R
  <2> QED BY <1>1, <1>2, <2>1, AddingAgree
<1>4. Adding(f, S)[S] = f[Chosen(S)] + Adding(f, S)[R]
  BY <1>2 DEF Adds
<1> QED BY <1>3, <1>4, SumIsAdding

-----------------------------------------------------------------------------
(* What sums are *)

LEMMA SumType ==
  ASSUME NEW S, IsFiniteSet(S), NEW N \in {Nat, Int}, NEW f, \A x \in S : f[x] \in N
  PROVE  SumFunctionOnSet(f, S) \in N
<1> DEFINE Good == {T \in SUBSET S : SumFunctionOnSet(f, T) \in N}
<1>1. {} \in Good
  BY SumOfNone
<1>2. ASSUME NEW T \in SUBSET S, T # {}, T \ {Chosen(T)} \in Good
      PROVE  T \in Good
  <2>1. Chosen(T) \in S /\ IsFiniteSet(T)
    BY <1>2, ChosenIn, FS_Subset
  <2>2. SumFunctionOnSet(f, T) = f[Chosen(T)] + SumFunctionOnSet(f, T \ {Chosen(T)})
    BY <1>2, <2>1, SumOfChosen
  <2>3. \A x, y \in N : x + y \in N
    OBVIOUS
  <2> QED BY <1>2, <2>1, <2>2, <2>3
<1> HIDE DEF Good
<1>3. S \in Good
  BY <1>1, <1>2, ChosenInduction
<1> QED BY <1>3 DEF Good

(* A sum looks at no value but those of the set.                           *)
LEMMA SumSame ==
  ASSUME NEW S, IsFiniteSet(S), NEW f, NEW g, \A x \in S : f[x] = g[x]
  PROVE  SumFunctionOnSet(f, S) = SumFunctionOnSet(g, S)
<1> DEFINE Good == {T \in SUBSET S : SumFunctionOnSet(f, T) = SumFunctionOnSet(g, T)}
<1>1. {} \in Good
  BY SumOfNone
<1>2. ASSUME NEW T \in SUBSET S, T # {}, T \ {Chosen(T)} \in Good
      PROVE  T \in Good
  <2>1. Chosen(T) \in S /\ IsFiniteSet(T)
    BY <1>2, ChosenIn, FS_Subset
  <2> QED BY <1>2, <2>1, SumOfChosen
<1> HIDE DEF Good
<1>3. S \in Good
  BY <1>1, <1>2, ChosenInduction
<1> QED BY <1>3 DEF Good

LEMMA SumOfZeros ==
  ASSUME NEW S, IsFiniteSet(S), NEW f, \A x \in S : f[x] = 0
  PROVE  SumFunctionOnSet(f, S) = 0
<1> DEFINE Good == {T \in SUBSET S : SumFunctionOnSet(f, T) = 0}
<1>1. {} \in Good
  BY SumOfNone
<1>2. ASSUME NEW T \in SUBSET S, T # {}, T \ {Chosen(T)} \in Good
      PROVE  T \in Good
  <2>1. Chosen(T) \in S /\ IsFiniteSet(T)
    BY <1>2, ChosenIn, FS_Subset
  <2> QED BY <1>2, <2>1, SumOfChosen
<1> HIDE DEF Good
<1>3. S \in Good
  BY <1>1, <1>2, ChosenInduction
<1> QED BY <1>3 DEF Good

(* The order of the summands does not matter: any may be taken out first.  *)
LEMMA SumRemove ==
  ASSUME NEW S, IsFiniteSet(S), NEW f, \A x \in S : f[x] \in Int, NEW e \in S
  PROVE  SumFunctionOnSet(f, S) = f[e] + SumFunctionOnSet(f, S \ {e})
<1> DEFINE Good == {T \in SUBSET S : \A x \in T :
                      SumFunctionOnSet(f, T) = f[x] + SumFunctionOnSet(f, T \ {x})}
<1>1. ASSUME NEW T \in SUBSET S, \A U \in SUBSET T : U # T => U \in Good
      PROVE  T \in Good
  <2>1. SUFFICES ASSUME NEW x \in T
                 PROVE  SumFunctionOnSet(f, T) = f[x] + SumFunctionOnSet(f, T \ {x})
    OBVIOUS
  <2>2. PICK c : c = Chosen(T)
    OBVIOUS
  <2>3. c \in T /\ IsFiniteSet(T) /\ IsFiniteSet((T \ {c}) \ {x})
    BY <2>2, ChosenIn, FS_Subset
  <2>4. SumFunctionOnSet(f, T) = f[c] + SumFunctionOnSet(f, T \ {c})
    BY <2>2, <2>3, SumOfChosen
  <2>5. CASE c = x
    BY <2>4, <2>5
  <2>6. CASE c # x
    <3>1. T \ {c} \in Good /\ T \ {x} \in Good /\ (T \ {x}) \ {c} = (T \ {c}) \ {x}
      BY <1>1, <2>3
    <3>2. SumFunctionOnSet(f, T \ {c}) = f[x] + SumFunctionOnSet(f, (T \ {c}) \ {x})
      BY <2>6, <3>1
    <3>3. SumFunctionOnSet(f, T \ {x}) = f[c] + SumFunctionOnSet(f, (T \ {c}) \ {x})
      BY <2>3, <2>6, <3>1
    <3>4. f[x] \in Int /\ f[c] \in Int
      BY <2>3
    <3>5. SumFunctionOnSet(f, (T \ {c}) \ {x}) \in Int
      BY <2>3, SumType
    <3> QED BY <2>4, <3>2, <3>3, <3>4, <3>5
  <2> QED BY <2>5, <2>6
<1> HIDE DEF Good
<1>2. SUBSET S \subseteq Good
  BY <1>1, SubsetInduction
<1> QED BY <1>2 DEF Good

(* When one value changes, the sum changes by as much.                     *)
LEMMA SumChangeOne ==
  ASSUME NEW S, IsFiniteSet(S), NEW f, NEW g, NEW e \in S,
         \A x \in S : f[x] \in Int /\ g[x] \in Int,
         \A x \in S \ {e} : f[x] = g[x]
  PROVE  SumFunctionOnSet(g, S) = SumFunctionOnSet(f, S) + (g[e] - f[e])
<1>1. IsFiniteSet(S \ {e})
  BY FS_Subset
<1>2. SumFunctionOnSet(f, S \ {e}) = SumFunctionOnSet(g, S \ {e})
  BY <1>1, SumSame
<1>3. SumFunctionOnSet(f, S \ {e}) \in Int
  BY <1>1, SumType
<1>4. /\ SumFunctionOnSet(f, S) = f[e] + SumFunctionOnSet(f, S \ {e})
      /\ SumFunctionOnSet(g, S) = g[e] + SumFunctionOnSet(g, S \ {e})
  BY SumRemove
<1> QED BY <1>2, <1>3, <1>4

(* No two summands together exceed a sum of natural numbers.               *)
LEMMA SumCovers ==
  ASSUME NEW S, IsFiniteSet(S), NEW f, \A x \in S : f[x] \in Nat,
         NEW d \in S, NEW e \in S
  PROVE  /\ f[d] <= SumFunctionOnSet(f, S)
         /\ d # e => f[d] + f[e] <= SumFunctionOnSet(f, S)
<1>1. IsFiniteSet(S \ {d}) /\ IsFiniteSet((S \ {d}) \ {e})
  BY FS_Subset
<1>2. SumFunctionOnSet(f, S \ {d}) \in Nat /\ SumFunctionOnSet(f, (S \ {d}) \ {e}) \in Nat
  BY <1>1, SumType
<1>3. SumFunctionOnSet(f, S) = f[d] + SumFunctionOnSet(f, S \ {d})
  BY SumRemove
<1>4. d # e => SumFunctionOnSet(f, S \ {d}) = f[e] + SumFunctionOnSet(f, (S \ {d}) \ {e})
  BY <1>1, SumRemove
<1> QED BY <1>2, <1>3, <1>4

(* What adds nothing need not be summed. *)
LEMMA SumOfSupport ==
  ASSUME NEW S, IsFiniteSet(S), NEW T, T \subseteq S, NEW f, \A x \in S : f[x] \in Int,
         \A x \in S \ T : f[x] = 0
  PROVE  SumFunctionOnSet(f, S) = SumFunctionOnSet(f, T)
<1> DEFINE Good == {U \in SUBSET (S \ T) : SumFunctionOnSet(f, T \cup U) = SumFunctionOnSet(f, T)}
<1>1. {} \in Good
  <2>1. T \cup {} = T
    OBVIOUS
  <2> QED BY <2>1
<1>2. ASSUME NEW U \in SUBSET (S \ T), U # {} /\ U \ {Chosen(U)} \in Good
      PROVE  U \in Good
  <2> DEFINE c == Chosen(U)
  <2>1. c \in U
    BY <1>2, ChosenIn
  <2> HIDE DEF c
  <2>2. IsFiniteSet(T \cup U) /\ \A x \in T \cup U : f[x] \in Int
    BY FS_Subset
  <2>3. SumFunctionOnSet(f, T \cup U) = f[c] + SumFunctionOnSet(f, (T \cup U) \ {c})
    BY <2>1, <2>2, SumRemove
  <2>4. (T \cup U) \ {c} = T \cup (U \ {c}) /\ f[c] = 0
    BY <2>1
  <2>5. SumFunctionOnSet(f, T \cup (U \ {c})) = SumFunctionOnSet(f, T)
    BY <1>2 DEF c
  <2>6. IsFiniteSet(T)
    BY FS_Subset
  <2>7. SumFunctionOnSet(f, T) \in Int
    BY <2>6, SumType
  <2>8. SumFunctionOnSet(f, T \cup U) = SumFunctionOnSet(f, T)
    <3>1. SumFunctionOnSet(f, T \cup U) = f[c] + SumFunctionOnSet(f, T \cup (U \ {c}))
      BY ONLY <2>3, <2>4
    <3>2. \A x \in Int : 0 + x = x
      OBVIOUS
    <3> QED BY ONLY <2>4, <2>5, <2>7, <3>1, <3>2
  <2> QED BY <2>8
<1>3. IsFiniteSet(S \ T)
  BY FS_Subset
<1>4. S \ T \in Good
  <2> HIDE DEF Good
  <2> QED BY <1>1, <1>2, <1>3, ChosenInduction
<1>5. T \cup (S \ T) = S
  OBVIOUS
<1> QED BY <1>4, <1>5

(* A sum with one summand more. *)
LEMMA SumWithOne ==
  ASSUME NEW S, IsFiniteSet(S), NEW e, e \notin S, NEW f, NEW g,
         \A x \in S : f[x] = g[x], \A x \in S \cup {e} : g[x] \in Int
  PROVE  SumFunctionOnSet(g, S \cup {e}) = SumFunctionOnSet(f, S) + g[e]
<1>1. IsFiniteSet(S \cup {e})
  BY FS_AddElement
<1>2. SumFunctionOnSet(g, S \cup {e}) = g[e] + SumFunctionOnSet(g, S)
  <2>1. SumFunctionOnSet(g, S \cup {e}) = g[e] + SumFunctionOnSet(g, (S \cup {e}) \ {e})
    BY <1>1, SumRemove
  <2>2. (S \cup {e}) \ {e} = S
    OBVIOUS
  <2> QED BY ONLY <2>1, <2>2
<1>3. SumFunctionOnSet(f, S) = SumFunctionOnSet(g, S)
  BY SumSame
<1>4. SumFunctionOnSet(g, S) \in Int /\ g[e] \in Int
  BY SumType
<1> QED BY ONLY <1>2, <1>3, <1>4
==========================================================================
