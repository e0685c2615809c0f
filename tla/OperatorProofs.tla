--------------------------- MODULE OperatorProofs ---------------------------
(***************************************************************************)
(* Facts about the operators that the models are built from: sums of a     *)
(* function over a finite set, for any set, and the waterfall, for every   *)
(* payment, every debt and every allocation order.                         *)
(***************************************************************************)
EXTENDS Waterfall, Functions, FiniteSetTheorems, TLAPS

(* Induction over the subsets of a finite set: a set T of subsets holds    *)
(* them all if it holds each one whose proper subsets it holds.            *)
LEMMA SubsetInduction ==
    ASSUME NEW S, IsFiniteSet(S), NEW T,
           \A X \in SUBSET S : (\A Y \in SUBSET X : Y # X => Y \in T) => X \in T
    PROVE  SUBSET S \subseteq T
<1> DEFINE Bad == (SUBSET S) \ T
           Less == StrictSubsetOrdering(S)
<1>1. IsWellFoundedOn(Less, SUBSET S)
  BY FS_StrictSubsetOrderingWellFounded, FS_FiniteSubsetsOfFinite
<1>2. SUFFICES ASSUME Bad # {} PROVE FALSE
  OBVIOUS
<1>3. Bad \subseteq SUBSET S
  OBVIOUS
<1> HIDE DEF Less, Bad
<1>4. PICK X \in Bad : \A Y \in Bad : <<Y, X>> \notin Less
  BY <1>1, <1>2, <1>3, WFMin
<1>5. ASSUME NEW Y \in SUBSET X, Y # X PROVE Y \in T
  <2>1. X \in SUBSET S /\ Y \in SUBSET S
    BY <1>3, <1>4
  <2>2. <<Y, X>> \in Less
    BY <1>5, <2>1 DEF Less, StrictSubsetOrdering
  <2>3. Y \notin Bad
    BY <1>4, <2>2
  <2> QED BY <2>1, <2>3 DEF Bad
<1>6. X \in SUBSET S /\ X \notin T
  BY <1>4 DEF Bad
<1> QED BY <1>5, <1>6

-----------------------------------------------------------------------------
(* Sums of a function over finite sets.                                    *)

Pick(s) == CHOOSE x \in s : TRUE

(* h gives every subset of S its sum, as the fold takes it.                *)
Sums(h, f, S) ==
    h = [s \in SUBSET S |-> IF s = {} THEN 0 ELSE f[Pick(s)] + h[s \ {Pick(s)}]]

LEMMA SumIsFold ==
    ASSUME NEW f, NEW S
    PROVE  SumFunctionOnSet(f, S) = (CHOOSE h : Sums(h, f, S))[S]
BY DEF SumFunctionOnSet, FoldFunctionOnSet, MapThenFoldSet, Sums, Pick

LEMMA PickIn == \A s : s # {} => Pick(s) \in s
BY DEF Pick

LEMMA SumsAt ==
    ASSUME NEW f, NEW S, NEW h, Sums(h, f, S)
    PROVE  /\ h[{}] = 0
           /\ \A s \in SUBSET S : s # {} => h[s] = f[Pick(s)] + h[s \ {Pick(s)}]
<1>1. \A s \in SUBSET S : h[s] = IF s = {} THEN 0 ELSE f[Pick(s)] + h[s \ {Pick(s)}]
  <2> DEFINE e(s) == IF s = {} THEN 0 ELSE f[Pick(s)] + h[s \ {Pick(s)}]
  <2>1. h = [s \in SUBSET S |-> e(s)]
    BY DEF Sums
  <2> HIDE DEF e
  <2>2. \A s \in SUBSET S : h[s] = e(s)
    BY <2>1
  <2> QED BY <2>2 DEF e
<1>2. {} \in SUBSET S
  OBVIOUS
<1> QED BY <1>1, <1>2

(* Two such functions agree on the sets that both know.                    *)
LEMMA SumsAgree ==
    ASSUME NEW f, NEW S, NEW R, IsFiniteSet(S), NEW g, NEW h,
           Sums(g, f, S), Sums(h, f, R), S \subseteq R
    PROVE  \A s \in SUBSET S : g[s] = h[s]
<1> DEFINE T == {s \in SUBSET S : g[s] = h[s]}
<1>1. ASSUME NEW X \in SUBSET S, \A Y \in SUBSET X : Y # X => Y \in T
      PROVE  X \in T
  <2>1. CASE X = {}
    BY <2>1, SumsAt
  <2>2. CASE X # {}
    <3> DEFINE Y == X \ {Pick(X)}
    <3>1. Y \in SUBSET X /\ Y # X
      BY <2>2, PickIn
    <3>2. g[Y] = h[Y]
      BY <1>1, <3>1
    <3>3. g[X] = f[Pick(X)] + g[Y]
      BY <2>2, SumsAt
    <3>4. h[X] = f[Pick(X)] + h[Y]
      <4>1. X \in SUBSET R
        OBVIOUS
      <4> QED BY <2>2, <4>1, SumsAt
    <3> QED BY <3>2, <3>3, <3>4
  <2> QED BY <2>1, <2>2
<1> HIDE DEF T
<1>2. SUBSET S \subseteq T
  BY <1>1, SubsetInduction
<1> QED BY <1>2 DEF T

LEMMA SumsExist ==
    ASSUME NEW f, NEW S, IsFiniteSet(S)
    PROVE  \E h : Sums(h, f, S)
<1> DEFINE T == {X \in SUBSET S : \E h : Sums(h, f, X)}
<1>1. ASSUME NEW X \in SUBSET S, \A Y \in SUBSET X : Y # X => Y \in T
      PROVE  X \in T
  <2> DEFINE H(Y) == CHOOSE h : Sums(h, f, Y)
             below(s) == H(s)[s]
             e(s) == IF s = {} THEN 0 ELSE f[Pick(s)] + below(s \ {Pick(s)})
             h == [s \in SUBSET X |-> e(s)]
  <2>1. ASSUME NEW Y \in SUBSET X, Y # X PROVE Sums(H(Y), f, Y) /\ IsFiniteSet(Y)
    <3>1. Y \in T /\ Y \in SUBSET S
      BY <1>1, <2>1
    <3> QED BY <3>1, FS_Subset DEF T
  <2> HIDE DEF H
  <2>2. ASSUME NEW s \in SUBSET X, s # X PROVE below(s) = e(s)
    <3>1. Sums(H(s), f, s)
      BY <2>1, <2>2
    <3>2. CASE s = {}
      BY <3>1, <3>2, SumsAt
    <3>3. CASE s # {}
      <4> DEFINE r == s \ {Pick(s)}
      <4>1. r \in SUBSET X /\ r # X /\ r \subseteq s /\ r \in SUBSET r
        BY <2>2, <3>3, PickIn
      <4> HIDE DEF r
      <4>2. Sums(H(r), f, r) /\ IsFiniteSet(r)
        BY <2>1, <4>1
      <4>3. H(r)[r] = H(s)[r]
        BY <3>1, <4>1, <4>2, SumsAgree
      <4>4. H(s)[s] = f[Pick(s)] + H(s)[r]
        BY <3>1, <3>3, SumsAt DEF r
      <4> QED BY <3>3, <4>3, <4>4 DEF r
    <3> QED BY <3>2, <3>3
  <2> HIDE DEF below
  <2>3. \A s \in SUBSET X : s # {} => s \ {Pick(s)} \in SUBSET X /\ s \ {Pick(s)} # X
    BY PickIn
  <2>4. \A s \in SUBSET X : h[s] = e(s)
    OBVIOUS
  <2>5. \A s \in SUBSET X : s # {} => h[s \ {Pick(s)}] = below(s \ {Pick(s)})
    BY <2>2, <2>3, <2>4
  <2>6. \A s \in SUBSET X : e(s) = IF s = {} THEN 0 ELSE f[Pick(s)] + h[s \ {Pick(s)}]
    BY <2>5
  <2> HIDE DEF e
  <2>7. h = [s \in SUBSET X |-> IF s = {} THEN 0 ELSE f[Pick(s)] + h[s \ {Pick(s)}]]
    <3> HIDE DEF h
    <3>1. h = [s \in SUBSET X |-> e(s)]
      BY DEF h
    <3> QED BY <2>6, <3>1
  <2> HIDE DEF h
  <2>8. Sums(h, f, X)
    BY <2>7 DEF Sums
  <2> QED BY <2>8
<1>2. SUBSET S \subseteq T
  <2> HIDE DEF T
  <2> QED BY <1>1, SubsetInduction
<1> QED BY <1>2

LEMMA SumIsSums ==
    ASSUME NEW f, NEW S, IsFiniteSet(S), NEW R \in SUBSET S, NEW h, Sums(h, f, S)
    PROVE  SumFunctionOnSet(f, R) = h[R]
<1>1. IsFiniteSet(R)
  BY FS_Subset
<1> DEFINE g == CHOOSE g : Sums(g, f, R)
<1>2. Sums(g, f, R)
  BY <1>1, SumsExist
<1> HIDE DEF g
<1>3. g[R] = h[R]
  BY <1>1, <1>2, SumsAgree
<1>4. SumFunctionOnSet(f, R) = g[R]
  BY SumIsFold DEF g
<1> QED BY <1>3, <1>4

(* The sum of nothing is zero; any other set has an element to take first. *)
LEMMA SumEmpty == ASSUME NEW f PROVE SumFunctionOnSet(f, {}) = 0
<1>1. PICK h : Sums(h, f, {})
  BY SumsExist, FS_EmptySet
<1> QED BY <1>1, SumIsSums, SumsAt, FS_EmptySet

LEMMA SumFirst ==
    ASSUME NEW f, NEW S, IsFiniteSet(S), S # {}
    PROVE  \E p \in S : SumFunctionOnSet(f, S) = f[p] + SumFunctionOnSet(f, S \ {p})
<1>1. PICK h : Sums(h, f, S)
  BY SumsExist
<1> DEFINE p == Pick(S)
<1>2. p \in S /\ h[S] = f[p] + h[S \ {p}]
  BY <1>1, PickIn, SumsAt
<1> HIDE DEF p
<1>3. SumFunctionOnSet(f, S) = h[S] /\ SumFunctionOnSet(f, S \ {p}) = h[S \ {p}]
  BY <1>1, SumIsSums
<1> QED BY <1>2, <1>3

(* The same element is taken first from whatever function is summed.       *)
LEMMA SumFirstOfTwo ==
    ASSUME NEW f, NEW g, NEW S, IsFiniteSet(S), S # {}
    PROVE  \E p \in S :
              /\ SumFunctionOnSet(f, S) = f[p] + SumFunctionOnSet(f, S \ {p})
              /\ SumFunctionOnSet(g, S) = g[p] + SumFunctionOnSet(g, S \ {p})
<1> DEFINE p == Pick(S)
<1>1. ASSUME NEW k
      PROVE  SumFunctionOnSet(k, S) = k[p] + SumFunctionOnSet(k, S \ {p})
  <2>1. PICK h : Sums(h, k, S)
    BY SumsExist
  <2>2. p \in S /\ h[S] = k[p] + h[S \ {p}]
    BY <2>1, PickIn, SumsAt
  <2> HIDE DEF p
  <2>3. SumFunctionOnSet(k, S) = h[S] /\ SumFunctionOnSet(k, S \ {p}) = h[S \ {p}]
    BY <2>1, SumIsSums
  <2> QED BY <2>2, <2>3
<1>2. p \in S
  BY PickIn
<1> HIDE DEF p
<1> QED BY <1>1, <1>2

(* The sum of integers is one, and any element can be taken out of it.     *)
THEOREM SumOfIntegers ==
    ASSUME NEW f, NEW S, IsFiniteSet(S), \A x \in S : f[x] \in Int
    PROVE  /\ SumFunctionOnSet(f, S) \in Int
           /\ \A a \in S : SumFunctionOnSet(f, S) = f[a] + SumFunctionOnSet(f, S \ {a})
<1> DEFINE h(X) == SumFunctionOnSet(f, X)
           T == {X \in SUBSET S : h(X) \in Int /\ \A a \in X : h(X) = f[a] + h(X \ {a})}
<1>1. h({}) = 0
  BY SumEmpty
<1>2. ASSUME NEW X \in SUBSET S, X # {} PROVE \E p \in X : h(X) = f[p] + h(X \ {p})
  BY <1>2, SumFirst, FS_Subset
<1> HIDE DEF h
<1>3. ASSUME NEW X \in SUBSET S, \A Y \in SUBSET X : Y # X => Y \in T
      PROVE  X \in T
  <2>1. CASE X = {}
    BY <1>1, <2>1
  <2>2. CASE X # {}
    <3>1. PICK p \in X : h(X) = f[p] + h(X \ {p})
      BY <1>2, <2>2
    <3>2. \A a \in X : X \ {a} \in T
      BY <1>3
    <3>3. h(X) \in Int
      BY <3>1, <3>2
    <3>4. ASSUME NEW a \in X, a # p PROVE h(X) = f[a] + h(X \ {a})
      <4> DEFINE rest == h((X \ {p}) \ {a})
      <4>1. (X \ {p}) \ {a} = (X \ {a}) \ {p}
        OBVIOUS
      <4>2. h(X \ {p}) = f[a] + rest
        BY <3>1, <3>2, <3>4
      <4>3. h(X \ {a}) = f[p] + rest
        BY <3>1, <3>2, <3>4, <4>1
      <4>4. rest \in Int
        <5>1. (X \ {p}) \ {a} \in T
          BY <1>3, <3>1
        <5> QED BY <5>1
      <4>5. f[a] \in Int /\ f[p] \in Int
        BY <3>1
      <4> HIDE DEF rest
      <4> QED BY <3>1, <4>2, <4>3, <4>4, <4>5
    <3> QED BY <3>1, <3>3, <3>4
  <2> QED BY <2>1, <2>2
<1>4. SUBSET S \subseteq T
  <2> HIDE DEF T
  <2> QED BY <1>3, SubsetInduction
<1>5. S \in T
  BY <1>4
<1> QED BY <1>5 DEF h

(* One element more adds its value.                                        *)
LEMMA SumAdds ==
    ASSUME NEW f, NEW S, IsFiniteSet(S), NEW a, a \notin S,
           \A x \in S \cup {a} : f[x] \in Int
    PROVE  SumFunctionOnSet(f, S \cup {a}) = SumFunctionOnSet(f, S) + f[a]
<1>1. IsFiniteSet(S \cup {a}) /\ (S \cup {a}) \ {a} = S
  BY FS_AddElement
<1>2. SumFunctionOnSet(f, S) \in Int /\ f[a] \in Int
  BY SumOfIntegers
<1>3. SumFunctionOnSet(f, S \cup {a}) = f[a] + SumFunctionOnSet(f, (S \cup {a}) \ {a})
  BY <1>1, SumOfIntegers
<1>4. SumFunctionOnSet(f, S \cup {a}) = f[a] + SumFunctionOnSet(f, S)
  BY <1>1, <1>3
<1> DEFINE sum == SumFunctionOnSet(f, S)
<1> HIDE DEF sum
<1>5. sum \in Int
  BY <1>2 DEF sum
<1>6. f[a] + sum = sum + f[a]
  BY <1>2, <1>5
<1> QED BY <1>4, <1>6 DEF sum

(* Functions that agree on a set have one sum on it.                       *)
LEMMA SumExtensional ==
    ASSUME NEW f, NEW g, NEW S, IsFiniteSet(S), \A x \in S : f[x] = g[x]
    PROVE  SumFunctionOnSet(f, S) = SumFunctionOnSet(g, S)
<1> DEFINE h(X) == SumFunctionOnSet(f, X)
           k(X) == SumFunctionOnSet(g, X)
           T == {X \in SUBSET S : h(X) = k(X)}
<1>1. h({}) = 0 /\ k({}) = 0
  BY SumEmpty
<1>2. ASSUME NEW X \in SUBSET S, X # {}
      PROVE  \E p \in X : h(X) = f[p] + h(X \ {p}) /\ k(X) = g[p] + k(X \ {p})
  BY <1>2, SumFirstOfTwo, FS_Subset
<1> HIDE DEF h, k
<1>3. ASSUME NEW X \in SUBSET S, \A Y \in SUBSET X : Y # X => Y \in T
      PROVE  X \in T
  <2>1. CASE X = {}
    BY <1>1, <2>1
  <2>2. CASE X # {}
    <3>1. PICK p \in X : h(X) = f[p] + h(X \ {p}) /\ k(X) = g[p] + k(X \ {p})
      BY <1>2, <2>2
    <3>2. h(X \ {p}) = k(X \ {p})
      BY <1>3, <3>1
    <3>3. f[p] = g[p]
      BY <3>1
    <3> QED BY <3>1, <3>2, <3>3
  <2> QED BY <2>1, <2>2
<1>4. SUBSET S \subseteq T
  <2> HIDE DEF T
  <2> QED BY <1>3, SubsetInduction
<1>5. h(S) = k(S)
  BY <1>4
<1> QED BY <1>5 DEF h, k

(* A sum of numbers that are not negative is none that is.                 *)
LEMMA SumOfNaturals ==
    ASSUME NEW f, NEW S, IsFiniteSet(S), \A x \in S : f[x] \in Nat
    PROVE  SumFunctionOnSet(f, S) \in Nat
<1> DEFINE h(X) == SumFunctionOnSet(f, X)
           T == {X \in SUBSET S : h(X) \in Nat}
<1>1. h({}) = 0
  BY SumEmpty
<1>2. ASSUME NEW X \in SUBSET S, X # {} PROVE \E p \in X : h(X) = f[p] + h(X \ {p})
  BY <1>2, SumFirst, FS_Subset
<1> HIDE DEF h
<1>3. ASSUME NEW X \in SUBSET S, \A Y \in SUBSET X : Y # X => Y \in T
      PROVE  X \in T
  <2>1. CASE X = {}
    BY <1>1, <2>1
  <2>2. CASE X # {}
    <3>1. PICK p \in X : h(X) = f[p] + h(X \ {p})
      BY <1>2, <2>2
    <3>2. h(X \ {p}) \in Nat
      BY <1>3, <3>1
    <3> QED BY <3>1, <3>2
  <2> QED BY <2>1, <2>2
<1>4. SUBSET S \subseteq T
  <2> HIDE DEF T
  <2> QED BY <1>3, SubsetInduction
<1> QED BY <1>4 DEF h

-----------------------------------------------------------------------------
(* The waterfall.                                                          *)

Partial == [rem : Nat, alloc : [Components -> Nat]]

(* What a partial allocation has distributed and what it has left.         *)
Distributed(s) == Allocated(s) + s.rem

(* One turn of the loop moves money and neither makes nor loses any.       *)
LEMMA TakeConserves ==
    ASSUME NEW s \in Partial, NEW c, NEW due \in [Components -> Nat]
    PROVE  /\ Take(s, c, due) \in Partial
           /\ Distributed(Take(s, c, due)) = Distributed(s)
<1> DEFINE t == Take(s, c, due)
<1>1. CASE c \notin Components
  BY <1>1 DEF Take
<1>2. CASE c \in Components
  <2> DEFINE pay == Smaller(s.rem, due[c])
  <2>1. pay \in Nat /\ pay <= s.rem /\ s.rem \in Nat /\ s.alloc \in [Components -> Nat]
    BY <1>2 DEF Smaller, Partial
  <2>2. t = [rem |-> s.rem - pay, alloc |-> [s.alloc EXCEPT ![c] = @ + pay]]
    BY <1>2 DEF Take
  <2> HIDE DEF pay, t
  <2>3. t \in Partial
    BY <1>2, <2>1, <2>2 DEF Partial
  <2>4. Distributed(t) = Distributed(s)
    BY <1>2, <2>1, <2>2 DEF Distributed, Allocated, Components
  <2> QED BY <2>3, <2>4 DEF t
<1> QED BY <1>1, <1>2

(* The final sweep into the principal conserves money, too.                *)
LEMMA SweepConserves ==
    ASSUME NEW s \in Partial, NEW due \in [Components -> Nat]
    PROVE  /\ Sweep(s, due) \in Partial
           /\ Distributed(Sweep(s, due)) = Distributed(s)
<1> DEFINE extra == Smaller(s.rem, Larger(0, due["principal"] - s.alloc["principal"]))
           t == Sweep(s, due)
<1>1. /\ extra \in Nat /\ extra <= s.rem /\ s.rem \in Nat
      /\ s.alloc \in [Components -> Nat]
  BY DEF Smaller, Larger, Partial, Components
<1>2. t = [rem |-> s.rem - extra, alloc |-> [s.alloc EXCEPT !["principal"] = @ + extra]]
  BY DEF Sweep
<1> HIDE DEF extra, t
<1>3. t \in Partial
  BY <1>1, <1>2 DEF Partial, Components
<1>4. Distributed(t) = Distributed(s)
  BY <1>1, <1>2 DEF Distributed, Allocated, Components
<1> QED BY <1>3, <1>4 DEF t

(* A payment is credited to components or left over, to the last cent,     *)
(* whatever is due and whatever the order names.                           *)
THEOREM WaterfallConserves ==
    ASSUME NEW a \in Nat, NEW due \in [Components -> Nat], NEW order \in Orders
    PROVE  /\ Allocate(a, due, order) \in Partial
           /\ Distributed(Allocate(a, due, order)) = a
<1> DEFINE s0 == [rem |-> a, alloc |-> Nothing]
           s1 == Take(s0, order[1], due)
           s2 == Take(s1, order[2], due)
           s3 == Take(s2, order[3], due)
           s4 == Take(s3, order[4], due)
<1>0. s0 \in Partial /\ Distributed(s0) = a
  BY DEF Partial, Nothing, Distributed, Allocated, Components
<1> HIDE DEF s0
<1>1. s1 \in Partial /\ Distributed(s1) = a
  BY <1>0, TakeConserves
<1> HIDE DEF s1
<1>2. s2 \in Partial /\ Distributed(s2) = a
  BY <1>1, TakeConserves
<1> HIDE DEF s2
<1>3. s3 \in Partial /\ Distributed(s3) = a
  BY <1>2, TakeConserves
<1> HIDE DEF s3
<1>4. s4 \in Partial /\ Distributed(s4) = a
  BY <1>3, TakeConserves
<1> HIDE DEF s4
<1>5. Allocate(a, due, order) = Sweep(s4, due)
  BY DEF Allocate, s4, s3, s2, s1, s0
<1> QED BY <1>4, <1>5, SweepConserves

-----------------------------------------------------------------------------
(* How much of a payment goes to the principal.                            *)

(* Only a turn for the principal changes what the principal was given, and *)
(* the first such turn gives it no more than is due.                       *)
LEMMA TakePrincipal ==
    ASSUME NEW s \in Partial, NEW c, NEW due \in [Components -> Nat]
    PROVE  /\ c # "principal" =>
                 Take(s, c, due).alloc["principal"] = s.alloc["principal"]
           /\ c = "principal" /\ s.alloc["principal"] = 0 =>
                 Take(s, c, due).alloc["principal"] <= due["principal"]
BY DEF Take, Partial, Smaller, Components

(* The sweep gives the principal what it lacks: money is left over only    *)
(* where all of the principal that is due was covered.                     *)
LEMMA SweepPrincipal ==
    ASSUME NEW s \in Partial, NEW due \in [Components -> Nat]
    PROVE  LET t == Sweep(s, due) IN
           /\ s.alloc["principal"] <= due["principal"] =>
                 t.alloc["principal"] <= due["principal"]
           /\ t.rem > 0 => t.alloc["principal"] >= due["principal"]
<1> DEFINE left == Larger(0, due["principal"] - s.alloc["principal"])
<1>1. /\ s.rem \in Nat
      /\ s.alloc["principal"] \in Nat
      /\ due["principal"] \in Nat
      /\ "principal" \in Components
      /\ s.alloc \in [Components -> Nat]
  BY DEF Partial, Components
<1>2. left \in Nat /\ Smaller(s.rem, left) \in Nat
  BY <1>1 DEF Larger, Smaller
<1>3. /\ Sweep(s, due).rem = s.rem - Smaller(s.rem, left)
      /\ Sweep(s, due).alloc["principal"] = s.alloc["principal"] + Smaller(s.rem, left)
  BY <1>1 DEF Sweep
<1> QED BY <1>1, <1>2, <1>3 DEF Larger, Smaller

(* The principal is credited with no more than is owed, by any order that  *)
(* does not repeat a component; and by any order at all money is left over *)
(* only where the principal was covered.                                   *)
THEOREM WaterfallPrincipal ==
    ASSUME NEW a \in Nat, NEW due \in [Components -> Nat], NEW order \in Orders
    PROVE  LET s == Allocate(a, due, order) IN
           /\ NoRepeats(order) => s.alloc["principal"] <= due["principal"]
           /\ s.rem > 0 => s.alloc["principal"] >= due["principal"]
<1> DEFINE s0 == [rem |-> a, alloc |-> Nothing]
           s1 == Take(s0, order[1], due)
           s2 == Take(s1, order[2], due)
           s3 == Take(s2, order[3], due)
           s4 == Take(s3, order[4], due)
           P(s) == s.alloc["principal"]
<1>0. s0 \in Partial /\ P(s0) = 0
  BY DEF Partial, Nothing, Components
<1> HIDE DEF s0
<1>1. /\ s1 \in Partial
      /\ order[1] # "principal" => P(s1) = P(s0)
      /\ order[1] = "principal" /\ P(s0) = 0 => P(s1) <= due["principal"]
  BY <1>0, TakeConserves, TakePrincipal
<1> HIDE DEF s1
<1>2. /\ s2 \in Partial
      /\ order[2] # "principal" => P(s2) = P(s1)
      /\ order[2] = "principal" /\ P(s1) = 0 => P(s2) <= due["principal"]
  BY <1>1, TakeConserves, TakePrincipal
<1> HIDE DEF s2
<1>3. /\ s3 \in Partial
      /\ order[3] # "principal" => P(s3) = P(s2)
      /\ order[3] = "principal" /\ P(s2) = 0 => P(s3) <= due["principal"]
  BY <1>2, TakeConserves, TakePrincipal
<1> HIDE DEF s3
<1>4. /\ s4 \in Partial
      /\ order[4] # "principal" => P(s4) = P(s3)
      /\ order[4] = "principal" /\ P(s3) = 0 => P(s4) <= due["principal"]
  BY <1>3, TakeConserves, TakePrincipal
<1> HIDE DEF s4
<1>5. Allocate(a, due, order) = Sweep(s4, due)
  BY DEF Allocate, s4, s3, s2, s1, s0
<1>6. ASSUME NoRepeats(order)
      PROVE  P(s4) <= due["principal"]
  <2>1. \A i, j \in 1..4 : order[i] = "principal" /\ order[j] = "principal" => i = j
    BY <1>6 DEF NoRepeats
  <2>2. /\ ~(order[1] = "principal" /\ order[2] = "principal")
        /\ ~(order[1] = "principal" /\ order[3] = "principal")
        /\ ~(order[1] = "principal" /\ order[4] = "principal")
        /\ ~(order[2] = "principal" /\ order[3] = "principal")
        /\ ~(order[2] = "principal" /\ order[4] = "principal")
        /\ ~(order[3] = "principal" /\ order[4] = "principal")
    BY <2>1
  <2>3. due["principal"] \in Nat
    BY DEF Components
  <2> QED BY <2>2, <2>3, <1>0, <1>1, <1>2, <1>3, <1>4
<1> QED BY <1>4, <1>5, <1>6, SweepPrincipal

=============================================================================
