---------------------------- MODULE StoreProofs ----------------------------
(***************************************************************************)
(* Lemmas for the proofs of every component that moves money: about the    *)
(* helpers of Store and JobQueue, and about sums over the rows of a table. *)
(***************************************************************************)
EXTENDS Store, JobQueue, Functions, FiniteSetTheorems, TLAPS

(* Failures and stalls are counted, and a job then waits or has failed.    *)
LEMMA EndIsCounted ==
  ASSUME NEW x \in JobRecord
  PROVE  /\ x.attempts \in Nat /\ x.stalled \in Nat
         /\ Failed(x).attempts = x.attempts + 1 /\ Failed(x).stalled = x.stalled
         /\ Stalled(x).attempts = x.attempts /\ Stalled(x).stalled = x.stalled + 1
         /\ Completed(x).attempts = x.attempts /\ Completed(x).stalled = x.stalled
         /\ Started(x).attempts = x.attempts /\ Started(x).stalled = x.stalled
         /\ Added(x).attempts = x.attempts /\ Added(x).stalled = x.stalled
         /\ Failed(x).state \in {"waiting", "failed"} /\ Stalled(x).state \in {"waiting", "failed"}
         /\ Completed(x).state = "completed"
  BY QueueAssumption DEF JobRecord, Failed, Stalled, Completed, Started, Added

(* What queue.add, the end of a run and a stall do to a job record.        *)
LEMMA JobIsRecord ==
  ASSUME NEW x \in JobRecord
  PROVE  /\ Added(x) \in JobRecord
         /\ Started(x) \in JobRecord
         /\ Completed(x) \in JobRecord
         /\ x.attempts < MaxAttempts => Failed(x) \in JobRecord
         /\ x.stalled <= MaxStalled => Stalled(x) \in JobRecord
  <1>1. Added(x) \in JobRecord
    BY DEF JobRecord, Added
  <1>2. Started(x) \in JobRecord /\ Completed(x) \in JobRecord
    BY DEF JobRecord, Started, Completed
  <1>3. ASSUME x.attempts < MaxAttempts PROVE Failed(x) \in JobRecord
    <2>1. x.attempts + 1 \in 0 .. MaxAttempts
      BY <1>3, QueueAssumption DEF JobRecord
    <2> QED
      BY <2>1 DEF JobRecord, Failed
  <1>4. ASSUME x.stalled <= MaxStalled PROVE Stalled(x) \in JobRecord
    <2>1. x.stalled + 1 \in 0 .. MaxStalled + 1
      BY <1>4, QueueAssumption DEF JobRecord
    <2> QED
      BY <2>1 DEF JobRecord, Stalled
  <1> QED
    BY <1>1, <1>2, <1>3, <1>4

LEMMA RowIsMoved ==
  ASSUME NEW row \in BalanceRow, NEW a \in Int, NEW b \in Int
  PROVE  /\ Moved(row, a, b) \in BalanceRow
         /\ Moved(row, a, b).version = row.version + 1
         /\ Moved(row, a, b).available = row.available + a
  BY DEF Moved, BalanceRow

-----------------------------------------------------------------------------
(* Sums.  SumFunctionOnSet is a fold: a recursive function on the subsets  *)
(* of a finite set, which takes out a chosen element at every step.  That  *)
(* this function exists, and what it computes, is shown by contradiction   *)
(* from a smallest subset for which it fails.                              *)

(* Induction: a set of subsets of a finite set has a smallest member.      *)
LEMMA SmallestSubset ==
  ASSUME NEW S, IsFiniteSet(S), NEW B \in SUBSET (SUBSET S), B # {}
  PROVE  \E T \in B : \A U \in B : U \subseteq T => U = T
  <1>1. IsWellFoundedOn(StrictSubsetOrdering(S), SUBSET S)
    BY FS_FiniteSubsetsOfFinite, FS_StrictSubsetOrderingWellFounded
  <1>2. \E T \in B : \A U \in B : ~ (<<U, T>> \in StrictSubsetOrdering(S))
    BY <1>1, WFMin
  <1>3. \A T \in B, U \in B : U \subseteq T /\ U # T => <<U, T>> \in StrictSubsetOrdering(S)
    BY DEF StrictSubsetOrdering
  <1> QED
    BY <1>2, <1>3

Chosen(s) == CHOOSE x \in s : TRUE

(* g sums the values of f over every subset of S.                          *)
Sums(g, f, S) ==
  g = [s \in SUBSET S |-> IF s = {} THEN 0 ELSE f[Chosen(s)] + g[s \ {Chosen(s)}]]

LEMMA SumsAt ==
  ASSUME NEW g, NEW f, NEW S, Sums(g, f, S), NEW T \in SUBSET S
  PROVE  g[T] = IF T = {} THEN 0 ELSE f[Chosen(T)] + g[T \ {Chosen(T)}]
  <1> DEFINE body(s) == IF s = {} THEN 0 ELSE f[Chosen(s)] + g[s \ {Chosen(s)}]
  <1>1. g = [s \in SUBSET S |-> body(s)]
    BY DEF Sums
  <1> HIDE DEF body
  <1>2. g[T] = body(T)
    BY <1>1
  <1> QED
    BY <1>2 DEF body

LEMMA SumsAgree ==
  ASSUME NEW f, NEW S, NEW T, NEW g, NEW h, Sums(g, f, S), Sums(h, f, T),
         NEW U, IsFiniteSet(U), U \subseteq S, U \subseteq T
  PROVE  g[U] = h[U]
  <1> DEFINE B == {V \in SUBSET U : g[V] # h[V]}
  <1> SUFFICES ASSUME B # {} PROVE FALSE
    OBVIOUS
  <1>1. B \in SUBSET (SUBSET U)
    OBVIOUS
  <1> HIDE DEF B
  <1>2. PICK V \in B : \A W \in B : W \subseteq V => W = V
    BY <1>1, SmallestSubset
  <1>3. V \in SUBSET U /\ V \in SUBSET S /\ V \in SUBSET T /\ g[V] # h[V]
    BY <1>2 DEF B
  <1>4. V # {}
    BY <1>3, SumsAt
  <1> DEFINE W == V \ {Chosen(V)}
  <1>5. W \subseteq V /\ W # V /\ W \in SUBSET U
    BY <1>3, <1>4 DEF Chosen
  <1>6. g[W] = h[W]
    BY <1>2, <1>5 DEF B
  <1> QED
    BY <1>3, <1>4, <1>6, SumsAt

LEMMA SumsExist ==
  ASSUME NEW f, NEW S, IsFiniteSet(S)
  PROVE  \E g : Sums(g, f, S)
  <1> DEFINE B == {T \in SUBSET S : ~ \E g : Sums(g, f, T)}
  <1> SUFFICES ASSUME B # {} PROVE FALSE
    OBVIOUS
  <1>1. B \in SUBSET (SUBSET S)
    OBVIOUS
  <1> HIDE DEF B
  <1>2. PICK T \in B : \A U \in B : U \subseteq T => U = T
    BY <1>1, SmallestSubset
  <1>3. T \in SUBSET S /\ ~ \E g : Sums(g, f, T)
    BY <1>2 DEF B
  <1>4. ASSUME NEW U \in SUBSET T, U # T PROVE (\E g : Sums(g, f, U)) /\ IsFiniteSet(U)
    BY <1>2, <1>3, <1>4, FS_Subset DEF B
  <1> DEFINE of(U) == CHOOSE g : Sums(g, f, U)
             body(g, s) == IF s = {} THEN 0 ELSE f[Chosen(s)] + g[s \ {Chosen(s)}]
             value(s) == IF s = {} THEN 0
                         ELSE f[Chosen(s)] + of(s \ {Chosen(s)})[s \ {Chosen(s)}]
             total == [s \in SUBSET T |-> value(s)]
  <1>5. ASSUME NEW U \in SUBSET T, U # T PROVE Sums(of(U), f, U)
    BY <1>4, <1>5
  <1> HIDE DEF of
  <1>6. ASSUME NEW s \in SUBSET T, s # {}
        PROVE  total[s \ {Chosen(s)}] = of(s \ {Chosen(s)})[s \ {Chosen(s)}]
    <2> DEFINE U == s \ {Chosen(s)}
    <2>1. U \in SUBSET T /\ U # T /\ total[U] = value(U)
      BY <1>6 DEF Chosen
    <2>2. Sums(of(U), f, U)
      BY <1>5, <2>1
    <2> HIDE DEF U
    <2>3. of(U)[U] = IF U = {} THEN 0 ELSE f[Chosen(U)] + of(U)[U \ {Chosen(U)}]
      <3>1. U \in SUBSET U
        OBVIOUS
      <3> QED
        BY <2>2, <3>1, SumsAt
    <2>4. CASE U = {}
      BY <2>1, <2>3, <2>4 DEF U
    <2>5. CASE U # {}
      <3> DEFINE V == U \ {Chosen(U)}
      <3>1. V \in SUBSET T /\ V # T /\ V \subseteq U
        BY <2>1, <2>5 DEF Chosen
      <3>2. Sums(of(V), f, V) /\ IsFiniteSet(V)
        BY <1>4, <1>5, <3>1
      <3>3. of(V)[V] = of(U)[V]
        BY <2>2, <3>1, <3>2, SumsAgree
      <3> QED
        BY <2>1, <2>3, <2>5, <3>3 DEF U
    <2> QED
      BY <2>4, <2>5
  <1>7. \A s \in SUBSET T : value(s) = body(total, s)
    <2> HIDE DEF total
    <2> QED
      BY <1>6
  <1>8. total = [s \in SUBSET T |-> body(total, s)]
    BY <1>7
  <1>9. Sums(total, f, T)
    <2> HIDE DEF total
    <2> QED
      BY <1>8 DEF Sums
  <1> QED
    BY <1>3, <1>9

(* The equation of SumFunctionOnSet.                                       *)
LEMMA SumEquation ==
  ASSUME NEW f, NEW S, IsFiniteSet(S)
  PROVE  /\ SumFunctionOnSet(f, {}) = 0
         /\ S # {} => SumFunctionOnSet(f, S)
                        = f[Chosen(S)] + SumFunctionOnSet(f, S \ {Chosen(S)})
  <1> DEFINE of(U) == CHOOSE g : Sums(g, f, U)
  <1>1. ASSUME NEW U PROVE SumFunctionOnSet(f, U) = of(U)[U]
    BY DEF SumFunctionOnSet, FoldFunctionOnSet, MapThenFoldSet, Sums, Chosen
  <1>2. ASSUME NEW U, IsFiniteSet(U) PROVE Sums(of(U), f, U)
    BY <1>2, SumsExist
  <1> HIDE DEF of
  <1>3. SumFunctionOnSet(f, {}) = 0
    BY <1>1, <1>2, FS_EmptySet, SumsAt
  <1>4. ASSUME S # {}
        PROVE  SumFunctionOnSet(f, S) = f[Chosen(S)] + SumFunctionOnSet(f, S \ {Chosen(S)})
    <2> DEFINE U == S \ {Chosen(S)}
    <2>1. IsFiniteSet(U)
      BY FS_Subset
    <2>2. of(U)[U] = of(S)[U]
      BY <1>2, <2>1, SumsAgree
    <2>3. of(S)[S] = f[Chosen(S)] + of(S)[U]
      BY <1>2, <1>4, SumsAt
    <2> QED
      BY <1>1, <2>2, <2>3
  <1> QED
    BY <1>3, <1>4

LEMMA SumIsInt ==
  ASSUME NEW f, NEW S, IsFiniteSet(S), \A x \in S : f[x] \in Int
  PROVE  SumFunctionOnSet(f, S) \in Int
  <1> DEFINE B == {T \in SUBSET S : SumFunctionOnSet(f, T) \notin Int}
  <1> SUFFICES ASSUME B # {} PROVE FALSE
    OBVIOUS
  <1>1. B \in SUBSET (SUBSET S)
    OBVIOUS
  <1> HIDE DEF B
  <1>2. PICK T \in B : \A U \in B : U \subseteq T => U = T
    BY <1>1, SmallestSubset
  <1>3. T \in SUBSET S /\ SumFunctionOnSet(f, T) \notin Int /\ IsFiniteSet(T)
    BY <1>2, FS_Subset DEF B
  <1>4. T # {}
    BY <1>3, SumEquation
  <1> DEFINE U == T \ {Chosen(T)}
  <1>5. U \subseteq T /\ U # T /\ U \in SUBSET S /\ Chosen(T) \in S
    BY <1>3, <1>4 DEF Chosen
  <1>6. SumFunctionOnSet(f, U) \in Int
    BY <1>2, <1>5 DEF B
  <1>7. SumFunctionOnSet(f, T) = f[Chosen(T)] + SumFunctionOnSet(f, U)
    BY <1>3, <1>4, SumEquation
  <1> QED
    BY <1>3, <1>5, <1>6, <1>7

(* Any element may be taken out first.                                     *)
LEMMA SumTakesOut ==
  ASSUME NEW f, NEW S, IsFiniteSet(S), \A x \in S : f[x] \in Int, NEW x \in S
  PROVE  SumFunctionOnSet(f, S) = f[x] + SumFunctionOnSet(f, S \ {x})
  <1> DEFINE Out(T, y) == SumFunctionOnSet(f, T) = f[y] + SumFunctionOnSet(f, T \ {y})
             B == {T \in SUBSET S : \E y \in T : ~Out(T, y)}
  <1> SUFFICES ASSUME B # {} PROVE FALSE
    OBVIOUS
  <1>1. B \in SUBSET (SUBSET S)
    OBVIOUS
  <1> HIDE DEF B
  <1>2. PICK T \in B : \A U \in B : U \subseteq T => U = T
    BY <1>1, SmallestSubset
  <1>3. PICK y \in T : ~Out(T, y)
    BY <1>2 DEF B
  <1> DEFINE c == Chosen(T)
  <1>4. /\ T \in SUBSET S /\ IsFiniteSet(T) /\ c \in T /\ y \in S /\ c \in S
        /\ f[y] \in Int /\ f[c] \in Int
    BY <1>2, FS_Subset DEF B, Chosen
  <1>5. SumFunctionOnSet(f, T) = f[c] + SumFunctionOnSet(f, T \ {c})
    BY <1>4, SumEquation
  <1> HIDE DEF c
  <1>6. y # c
    BY <1>3, <1>5
  <1>7. /\ T \ {c} \in SUBSET S /\ T \ {c} \subseteq T /\ T \ {c} # T /\ y \in T \ {c}
        /\ T \ {y} \in SUBSET S /\ T \ {y} \subseteq T /\ T \ {y} # T /\ c \in T \ {y}
        /\ (T \ {y}) \ {c} = (T \ {c}) \ {y}
    BY <1>4, <1>6
  <1>8. Out(T \ {c}, y) /\ Out(T \ {y}, c)
    <2>1. T \ {c} \notin B /\ T \ {y} \notin B
      BY <1>2, <1>7
    <2> HIDE DEF Out
    <2> QED
      BY <1>7, <2>1 DEF B
  <1>9. PICK rest \in Int : rest = SumFunctionOnSet(f, (T \ {c}) \ {y})
    <2>1. IsFiniteSet((T \ {c}) \ {y}) /\ (T \ {c}) \ {y} \subseteq S
      BY <1>4, FS_Subset
    <2> QED
      BY <2>1, SumIsInt
  <1>10. SumFunctionOnSet(f, T) = f[c] + (f[y] + rest)
    BY <1>5, <1>8, <1>9
  <1>11. SumFunctionOnSet(f, T \ {y}) = f[c] + rest
    BY <1>7, <1>8, <1>9
  <1> QED
    BY <1>3, <1>4, <1>10, <1>11

LEMMA SumPutsIn ==
  ASSUME NEW f, NEW S, IsFiniteSet(S), NEW x, x \notin S, \A y \in S \cup {x} : f[y] \in Int
  PROVE  SumFunctionOnSet(f, S \cup {x}) = SumFunctionOnSet(f, S) + f[x]
  <1>1. IsFiniteSet(S \cup {x}) /\ (S \cup {x}) \ {x} = S
    BY FS_AddElement
  <1>2. SumFunctionOnSet(f, S \cup {x}) = f[x] + SumFunctionOnSet(f, S)
    BY <1>1, SumTakesOut
  <1>3. SumFunctionOnSet(f, S) \in Int /\ f[x] \in Int
    BY SumIsInt
  <1> QED
    BY <1>2, <1>3

(* Only the values on the set matter.                                      *)
LEMMA SumOfSame ==
  ASSUME NEW f, NEW g, NEW S, IsFiniteSet(S), \A x \in S : f[x] = g[x]
  PROVE  SumFunctionOnSet(f, S) = SumFunctionOnSet(g, S)
  <1> DEFINE B == {T \in SUBSET S : SumFunctionOnSet(f, T) # SumFunctionOnSet(g, T)}
  <1> SUFFICES ASSUME B # {} PROVE FALSE
    OBVIOUS
  <1>1. B \in SUBSET (SUBSET S)
    OBVIOUS
  <1> HIDE DEF B
  <1>2. PICK T \in B : \A U \in B : U \subseteq T => U = T
    BY <1>1, SmallestSubset
  <1>3. /\ T \in SUBSET S /\ IsFiniteSet(T)
        /\ SumFunctionOnSet(f, T) # SumFunctionOnSet(g, T)
    BY <1>2, FS_Subset DEF B
  <1>4. T # {}
    BY <1>3, SumEquation
  <1>5. Chosen(T) \in T
    BY <1>4 DEF Chosen
  <1>6. SumFunctionOnSet(f, T \ {Chosen(T)}) = SumFunctionOnSet(g, T \ {Chosen(T)})
    BY <1>2, <1>3, <1>5 DEF B
  <1> QED
    BY <1>3, <1>4, <1>5, <1>6, SumEquation

(* A larger set, and larger values, have a larger sum.                     *)
LEMMA SumIsMonotone ==
  ASSUME NEW f, NEW g, NEW S, NEW T, IsFiniteSet(T), S \subseteq T,
         \A x \in S : f[x] \in Int /\ f[x] <= g[x],
         \A x \in T : g[x] \in Int,
         \A x \in T \ S : 0 <= g[x]
  PROVE  SumFunctionOnSet(f, S) <= SumFunctionOnSet(g, T)
  <1> DEFINE Below(U) == SumFunctionOnSet(f, S \cap U) <= SumFunctionOnSet(g, U)
             B == {U \in SUBSET T : ~Below(U)}
  <1>0. T \in SUBSET T /\ S \cap T = S
    OBVIOUS
  <1> SUFFICES ASSUME B # {} PROVE FALSE
    BY <1>0
  <1>1. B \in SUBSET (SUBSET T)
    OBVIOUS
  <1> HIDE DEF B
  <1>2. PICK U \in B : \A V \in B : V \subseteq U => V = U
    BY <1>1, SmallestSubset
  <1>3. U \in SUBSET T /\ IsFiniteSet(U) /\ IsFiniteSet(S \cap U) /\ ~Below(U)
    BY <1>2, FS_Subset DEF B
  <1>4. U # {}
    <2>1. SumFunctionOnSet(f, {}) = 0 /\ SumFunctionOnSet(g, {}) = 0
      BY FS_EmptySet, SumEquation
    <2>2. S \cap {} = {}
      OBVIOUS
    <2>3. Below({})
      BY <2>1, <2>2
    <2> QED
      BY <1>3, <2>3
  <1>5. PICK x \in U : TRUE
    BY <1>4
  <1> DEFINE V == U \ {x}
  <1>6. V \subseteq U /\ V # U /\ V \in SUBSET T /\ IsFiniteSet(V)
    BY <1>3, <1>5, FS_Subset
  <1>7. Below(V)
    BY <1>2, <1>6 DEF B
  <1>8. /\ SumFunctionOnSet(g, U) = g[x] + SumFunctionOnSet(g, V)
        /\ SumFunctionOnSet(g, V) \in Int /\ g[x] \in Int
    BY <1>3, <1>5, <1>6, SumTakesOut, SumIsInt
  <1>9. IsFiniteSet(S \cap V) /\ SumFunctionOnSet(f, S \cap V) \in Int
    <2>1. IsFiniteSet(S \cap V)
      BY <1>6, FS_Subset
    <2> QED
      BY <2>1, SumIsInt
  <1>10. CASE x \in S
    <2>1. (S \cap U) \ {x} = S \cap V /\ x \in S \cap U
      BY <1>10
    <2>2. SumFunctionOnSet(f, S \cap U) = f[x] + SumFunctionOnSet(f, S \cap V)
      BY <1>3, <2>1, SumTakesOut
    <2>3. f[x] \in Int /\ f[x] <= g[x]
      BY <1>10
    <2> QED
      BY <1>3, <1>7, <1>8, <1>9, <2>2, <2>3
  <1>11. CASE x \notin S
    <2>1. S \cap U = S \cap V /\ 0 <= g[x]
      BY <1>3, <1>5, <1>11
    <2> QED
      BY <1>3, <1>7, <1>8, <1>9, <2>1
  <1> QED
    BY <1>10, <1>11

(* Products grow with their factors.                                      *)
LEMMA Products ==
  /\ \A m \in Nat, t \in Nat : m * t \in Nat
  /\ \A m \in Nat, n \in Nat, t \in Nat : m <= n => m * t <= n * t
  /\ \A m \in Nat, n \in Nat, t \in Nat : m + 1 <= n => m * t + t <= n * t
  <1>1. ASSUME NEW m \in Nat, NEW n \in Nat, NEW t \in Nat, m <= n PROVE m * t <= n * t
    <2>1. PICK d \in Nat : n = m + d
      <3>1. n - m \in Nat /\ n = m + (n - m)
        BY <1>1
      <3> QED
        BY <3>1
    <2>2. n * t = m * t + d * t /\ d * t >= 0 /\ m * t \in Int
      BY <2>1
    <2> QED
      BY <2>2
  <1>2. ASSUME NEW m \in Nat, NEW n \in Nat, NEW t \in Nat, m + 1 <= n PROVE m * t + t <= n * t
    <2>1. m + 1 \in Nat /\ (m + 1) * t = m * t + t
      OBVIOUS
    <2> QED
      BY <1>1, <1>2, <2>1
  <1> QED
    BY <1>1, <1>2

(* The form the specifications use: the sum of all values of a function.   *)
LEMMA SumsOfEqual ==
  ASSUME NEW f, NEW g, IsFiniteSet(DOMAIN f), DOMAIN g = DOMAIN f,
         \A x \in DOMAIN f : f[x] = g[x]
  PROVE  SumFunction(f) = SumFunction(g)
  BY SumOfSame DEF SumFunction

LEMMA SumOfInts ==
  ASSUME NEW f, IsFiniteSet(DOMAIN f), \A x \in DOMAIN f : f[x] \in Int
  PROVE  SumFunction(f) \in Int
  BY SumIsInt DEF SumFunction

(* One more element.                                                       *)
LEMMA SumGrows ==
  ASSUME NEW f, NEW g, NEW x, IsFiniteSet(DOMAIN f), x \notin DOMAIN f,
         DOMAIN g = DOMAIN f \cup {x}, g[x] \in Int,
         \A y \in DOMAIN f : f[y] \in Int /\ g[y] = f[y]
  PROVE  SumFunction(g) = SumFunction(f) + g[x]
  <1>1. SumFunctionOnSet(g, DOMAIN f \cup {x}) = SumFunctionOnSet(g, DOMAIN f) + g[x]
    BY SumPutsIn
  <1>2. SumFunctionOnSet(g, DOMAIN f) = SumFunctionOnSet(f, DOMAIN f)
    BY SumOfSame
  <1> QED
    BY <1>1, <1>2 DEF SumFunction

(* One element changes its value.                                          *)
LEMMA SumMoves ==
  ASSUME NEW f, NEW g, NEW x \in DOMAIN f, IsFiniteSet(DOMAIN f), DOMAIN g = DOMAIN f,
         \A y \in DOMAIN f : f[y] \in Int /\ g[y] \in Int /\ (y # x => g[y] = f[y])
  PROVE  SumFunction(g) = SumFunction(f) + (g[x] - f[x])
  <1> DEFINE S == DOMAIN f
  <1>1. /\ SumFunctionOnSet(f, S) = f[x] + SumFunctionOnSet(f, S \ {x})
        /\ SumFunctionOnSet(g, S) = g[x] + SumFunctionOnSet(g, S \ {x})
    BY SumTakesOut
  <1>2. IsFiniteSet(S \ {x})
    BY FS_Subset
  <1>3. SumFunctionOnSet(f, S \ {x}) = SumFunctionOnSet(g, S \ {x})
    BY <1>2, SumOfSame
  <1>4. SumFunctionOnSet(f, S \ {x}) \in Int /\ f[x] \in Int /\ g[x] \in Int
    BY <1>2, SumIsInt
  <1> QED
    BY <1>1, <1>3, <1>4 DEF SumFunction

LEMMA SumIsBelow ==
  ASSUME NEW f, NEW g, IsFiniteSet(DOMAIN g), DOMAIN f \subseteq DOMAIN g,
         \A x \in DOMAIN f : f[x] \in Int /\ f[x] <= g[x],
         \A x \in DOMAIN g : g[x] \in Int,
         \A x \in DOMAIN g \ DOMAIN f : 0 <= g[x]
  PROVE  SumFunction(f) <= SumFunction(g)
  BY SumIsMonotone DEF SumFunction

(* Every element of f is covered by an element of g of its own.            *)
LEMMA SumIsCovered ==
  ASSUME NEW f, NEW g, NEW h, IsFiniteSet(DOMAIN f), IsFiniteSet(DOMAIN g),
         \A x \in DOMAIN g : g[x] \in Nat,
         \A x \in DOMAIN f : h[x] \in DOMAIN g /\ f[x] \in Int /\ f[x] <= g[h[x]],
         \A x, y \in DOMAIN f : h[x] = h[y] => x = y
  PROVE  SumFunction(f) <= SumFunction(g)
  <1> DEFINE Image(U) == {h[x] : x \in U}
             Covered(U) == SumFunctionOnSet(f, U) <= SumFunctionOnSet(g, Image(U))
             B == {U \in SUBSET DOMAIN f : ~Covered(U)}
  <1>1. B = {}
    <2> SUFFICES ASSUME B # {} PROVE FALSE
      OBVIOUS
    <2>1. B \in SUBSET (SUBSET DOMAIN f)
      OBVIOUS
    <2> HIDE DEF B
    <2>2. PICK U \in B : \A V \in B : V \subseteq U => V = U
      BY <2>1, SmallestSubset
    <2>3. U \in SUBSET DOMAIN f /\ IsFiniteSet(U) /\ ~Covered(U)
      BY <2>2, FS_Subset DEF B
    <2>4. U # {}
      <3>1. Image({}) = {}
        OBVIOUS
      <3>2. SumFunctionOnSet(f, {}) = 0 /\ SumFunctionOnSet(g, Image({})) = 0
        BY <3>1, FS_EmptySet, SumEquation
      <3> QED
        BY <2>3, <3>2
    <2>5. PICK x \in U : TRUE
      BY <2>4
    <2> DEFINE V == U \ {x}
    <2>6. V \subseteq U /\ V # U /\ V \in SUBSET DOMAIN f /\ IsFiniteSet(V)
      BY <2>3, <2>5, FS_Subset
    <2>7. Covered(V)
      BY <2>2, <2>6 DEF B
    <2>8. /\ Image(U) \ {h[x]} = Image(V) /\ h[x] \in Image(U)
          /\ Image(U) \subseteq DOMAIN g /\ Image(V) \subseteq DOMAIN g
      BY <2>3, <2>5
    <2>9. IsFiniteSet(Image(U)) /\ IsFiniteSet(Image(V))
      BY <2>8, FS_Subset
    <2> HIDE DEF Image, V
    <2>10. /\ SumFunctionOnSet(f, U) = f[x] + SumFunctionOnSet(f, V)
           /\ SumFunctionOnSet(f, V) \in Int
      BY <2>3, <2>5, <2>6, SumTakesOut, SumIsInt DEF V
    <2>11. /\ SumFunctionOnSet(g, Image(U)) = g[h[x]] + SumFunctionOnSet(g, Image(V))
           /\ SumFunctionOnSet(g, Image(V)) \in Int
      <3>1. SumFunctionOnSet(g, Image(U)) = g[h[x]] + SumFunctionOnSet(g, Image(U) \ {h[x]})
        BY <2>8, <2>9, SumTakesOut
      <3>2. SumFunctionOnSet(g, Image(U)) = g[h[x]] + SumFunctionOnSet(g, Image(V))
        BY <2>8, <3>1
      <3>3. \A y \in Image(V) : g[y] \in Int
        BY <2>8
      <3>4. SumFunctionOnSet(g, Image(V)) \in Int
        BY <2>9, <3>3, SumIsInt
      <3> QED
        BY <3>2, <3>4
    <2>12. f[x] \in Int /\ g[h[x]] \in Int /\ f[x] <= g[h[x]]
      BY <2>3, <2>5
    <2> QED
      BY <2>3, <2>7, <2>10, <2>11, <2>12
  <1>2. Covered(DOMAIN f)
    BY <1>1
  <1>3. SumFunctionOnSet(g, Image(DOMAIN f)) <= SumFunctionOnSet(g, DOMAIN g)
    <2>1. Image(DOMAIN f) \subseteq DOMAIN g
      OBVIOUS
    <2> HIDE DEF Image
    <2> QED
      BY <2>1, SumIsMonotone
  <1>4. /\ SumFunctionOnSet(g, Image(DOMAIN f)) \in Int
        /\ SumFunctionOnSet(g, DOMAIN g) \in Int
        /\ SumFunctionOnSet(f, DOMAIN f) \in Int
    <2>1. Image(DOMAIN f) \subseteq DOMAIN g
      OBVIOUS
    <2> HIDE DEF Image
    <2>2. IsFiniteSet(Image(DOMAIN f))
      BY <2>1, FS_Subset
    <2> QED
      BY <2>1, <2>2, SumIsInt
  <1> QED
    BY <1>2, <1>3, <1>4 DEF SumFunction

(* One element takes the place of another, with the same value.            *)
LEMMA SumSwaps ==
  ASSUME NEW f, NEW g, NEW x \in DOMAIN f, NEW y, IsFiniteSet(DOMAIN f),
         y \notin DOMAIN f \ {x}, DOMAIN g = (DOMAIN f \ {x}) \cup {y},
         \A z \in DOMAIN f : f[z] \in Int,
         \A z \in DOMAIN f \ {x} : g[z] = f[z],
         g[y] = f[x]
  PROVE  SumFunction(g) = SumFunction(f)
  <1> DEFINE rest == [z \in DOMAIN f \ {x} |-> f[z]]
  <1>1. /\ DOMAIN rest = DOMAIN f \ {x} /\ IsFiniteSet(DOMAIN rest)
        /\ \A z \in DOMAIN rest : rest[z] = f[z]
    BY FS_Subset
  <1> HIDE DEF rest
  <1>2. SumFunction(f) = SumFunction(rest) + f[x]
    <2>1. DOMAIN f = DOMAIN rest \cup {x} /\ x \notin DOMAIN rest /\ f[x] \in Int
      BY <1>1
    <2>2. \A z \in DOMAIN rest : rest[z] \in Int /\ f[z] = rest[z]
      BY <1>1
    <2>3. IsFiniteSet(DOMAIN rest)
      BY <1>1
    <2> QED
      BY <2>1, <2>2, <2>3, SumGrows
  <1>3. SumFunction(g) = SumFunction(rest) + g[y]
    <2>1. DOMAIN g = DOMAIN rest \cup {y} /\ y \notin DOMAIN rest /\ g[y] \in Int
      BY <1>1
    <2>2. \A z \in DOMAIN rest : rest[z] \in Int /\ g[z] = rest[z]
      BY <1>1
    <2>3. IsFiniteSet(DOMAIN rest)
      BY <1>1
    <2> QED
      BY <2>1, <2>2, <2>3, SumGrows
  <1> QED
    BY <1>2, <1>3

-----------------------------------------------------------------------------
(* No step of a worker fails: calls are answered, statements commit and    *)
(* queues accept.  The API may still die between two steps of a request.   *)
NoWorkerFault == Faults \subseteq {"apiCrash"}

(* The image of a finite set is finite.                                    *)
LEMMA ImageIsFinite ==
  ASSUME NEW f, IsFiniteSet(DOMAIN f)
  PROVE  IsFiniteSet({f[x] : x \in DOMAIN f})
  <1> DEFINE T == {f[x] : x \in DOMAIN f}
             g == [x \in DOMAIN f |-> f[x]]
  <1>1. g \in Surjection(DOMAIN f, T)
    BY DEF Surjection
  <1> HIDE DEF g, T
  <1>2. IsFiniteSet(T)
    BY <1>1, FS_Surjection
  <1> QED
    BY <1>2 DEF T

(* What all users hold together, by a balances table b.                    *)
Held(b) == SumFunction([u \in Users |-> b[u].available + b[u].reserved])

LEMMA HeldIsInt ==
  ASSUME NEW b \in [Users -> BalanceRow]
  PROVE  Held(b) \in Int
  <1> DEFINE f == [u \in Users |-> b[u].available + b[u].reserved]
  <1>1. IsFiniteSet(DOMAIN f) /\ \A u \in DOMAIN f : f[u] \in Int
    BY StoreAssumption DEF BalanceRow
  <1> HIDE DEF f
  <1>2. SumFunction(f) \in Int
    BY <1>1, SumOfInts
  <1> QED
    BY <1>2 DEF Held, f

(* One row of balances is moved: so is the total.                          *)
LEMMA HeldMoves ==
  ASSUME NEW b \in [Users -> BalanceRow], NEW u \in Users, NEW x \in Int, NEW y \in Int
  PROVE  Held([b EXCEPT ![u] = Moved(b[u], x, y)]) = Held(b) + (x + y)
  <1> DEFINE new == [b EXCEPT ![u] = Moved(b[u], x, y)]
             f == [v \in Users |-> b[v].available + b[v].reserved]
             g == [v \in Users |-> new[v].available + new[v].reserved]
  <1>1. /\ Moved(b[u], x, y).available = b[u].available + x
        /\ Moved(b[u], x, y).reserved = b[u].reserved + y
    BY DEF Moved
  <1>2. \A v \in Users : b[v].available \in Int /\ b[v].reserved \in Int
    BY DEF BalanceRow
  <1>3. new[u] = Moved(b[u], x, y) /\ \A v \in Users \ {u} : new[v] = b[v]
    OBVIOUS
  <1> HIDE DEF new
  <1>4. /\ DOMAIN f = Users /\ DOMAIN g = Users
        /\ \A v \in Users : f[v] \in Int /\ g[v] \in Int /\ (v # u => g[v] = f[v])
        /\ g[u] - f[u] = x + y
    BY <1>1, <1>2, <1>3
  <1> HIDE DEF f, g
  <1>5. SumFunction(g) = SumFunction(f) + (g[u] - f[u])
    BY <1>4, StoreAssumption, SumMoves
  <1>6. SumFunction(g) = Held(new) /\ SumFunction(f) = Held(b)
    BY DEF f, g, Held
  <1> QED
    BY <1>4, <1>5, <1>6 DEF new
=============================================================================
