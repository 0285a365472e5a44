------------------------ MODULE CerebrasBudget_proofs ------------------------
(***************************************************************************)
(* Proofs about the throttle of CerebrasBudget, for any callers, widths,   *)
(* ceilings, prompts, answers and bounds: its types, that in no minute and *)
(* in no day more requests go out than the settings allow, and that a call *)
(* let through fits with all the ledger knows of.  The ledger's sums are   *)
(* folds; what they come to is shown first, for any function on a finite   *)
(* set.                                                                    *)
(***************************************************************************)
EXTENDS CerebrasBudget, FiniteSetTheorems, WellFoundedInduction, TLAPS

-----------------------------------------------------------------------------
(* Sums *)

(* A fold takes the elements one by one, the chosen one first.             *)
First(s) == CHOOSE x \in s : TRUE
Summing(it, f, S) ==
    it = [s \in SUBSET S |-> IF s = {} THEN 0 ELSE f[First(s)] + it[s \ {First(s)}]]

LEMMA SumIsFold ==
    ASSUME NEW f
    PROVE  SumFunction(f) = (CHOOSE it : Summing(it, f, DOMAIN f))[DOMAIN f]
  BY DEF SumFunction, SumFunctionOnSet, FoldFunctionOnSet, MapThenFoldSet, Summing, First

(* The sums of the parts of S, whichever element is taken first.           *)
Sums(f, S) == {h \in [SUBSET S -> Nat] :
                 /\ h[{}] = 0
                 /\ \A s \in SUBSET S : \A x \in s : h[s] = f[x] + h[s \ {x}]}

(* Of some finite sets there is one of which no part is among them.        *)
LEMMA Smallest ==
    ASSUME NEW S, IsFiniteSet(S), NEW B \in SUBSET SUBSET S, B # {}
    PROVE  \E s \in B : \A t \in B : ~ (t \subseteq s /\ t # s)
<1>1. B \subseteq FiniteSubsetsOf(S)
  BY FS_Subset DEF FiniteSubsetsOf
<1>2. PICK s \in B : \A t \in B : ~ (<<t, s>> \in StrictSubsetOrdering(S))
  BY <1>1, FS_StrictSubsetOrderingWellFounded, WFMin
<1> QED BY <1>2 DEF StrictSubsetOrdering

LEMMA SumsExist ==
    ASSUME NEW S, IsFiniteSet(S), NEW f \in [S -> Nat]
    PROVE  \E h : h \in Sums(f, S)
<1> DEFINE bad == {s \in SUBSET S : ~ \E h : h \in Sums(f, s)}
<1> SUFFICES ASSUME bad # {} PROVE FALSE
  OBVIOUS
<1>1. PICK s \in bad : \A t \in bad : ~ (t \subseteq s /\ t # s)
  <2>1. bad \in SUBSET SUBSET S
    OBVIOUS
  <2> HIDE DEF bad
  <2> QED BY <2>1, Smallest
<1>2. CASE s = {}
  <2> DEFINE h == [t \in SUBSET s |-> 0]
  <2>1. h \in Sums(f, s)
    BY <1>2 DEF Sums
  <2> QED BY <1>1, <2>1
<1>3. CASE s # {}
  <2>1. PICK x \in s : TRUE
    BY <1>3
  <2>2. s \ {x} \in SUBSET S /\ s \ {x} \notin bad /\ x \in S /\ f[x] \in Nat
    BY <1>1, <2>1
  <2>3. PICK g : g \in Sums(f, s \ {x})
    BY <2>2
  <2>4. /\ g \in [SUBSET (s \ {x}) -> Nat] /\ g[{}] = 0
        /\ \A t \in SUBSET (s \ {x}) : \A y \in t : g[t] = f[y] + g[t \ {y}]
    BY <2>3 DEF Sums
  <2> DEFINE h == [t \in SUBSET s |-> IF x \in t THEN f[x] + g[t \ {x}] ELSE g[t]]
  <2>5. \A t \in SUBSET s : t \ {x} \in SUBSET (s \ {x}) /\ (x \notin t => t \in SUBSET (s \ {x}))
    OBVIOUS
  <2>6. h \in [SUBSET s -> Nat] /\ h[{}] = 0
    BY <2>2, <2>4, <2>5
  <2>7. ASSUME NEW t \in SUBSET s, NEW y \in t PROVE h[t] = f[y] + h[t \ {y}]
    <3>1. t \ {y} \in SUBSET s /\ f[y] \in Nat /\ g[t \ {x}] \in Nat
      BY <1>1, <2>4, <2>5
    <3>2. CASE y = x
      BY <3>1, <3>2
    <3>3. CASE y # x /\ x \notin t
      BY <3>1, <3>3, <2>4, <2>5
    <3>4. CASE y # x /\ x \in t
      <4>1. t \ {x} \in SUBSET (s \ {x}) /\ y \in t \ {x}
        BY <2>5, <3>4
      <4>2. g[t \ {x}] = f[y] + g[(t \ {x}) \ {y}]
        BY <4>1, <2>4
      <4>3. (t \ {x}) \ {y} = (t \ {y}) \ {x} /\ (t \ {y}) \ {x} \in SUBSET (s \ {x})
        BY <4>1
      <4>4. h[t] = f[x] + g[t \ {x}] /\ h[t \ {y}] = f[x] + g[(t \ {y}) \ {x}]
        BY <3>1, <3>4
      <4>5. g[(t \ {y}) \ {x}] \in Nat
        BY <4>3, <2>4
      <4>6. h[t] = f[x] + (f[y] + g[(t \ {y}) \ {x}])
        BY <4>2, <4>3, <4>4
      <4> DEFINE z == g[(t \ {y}) \ {x}]
      <4> HIDE DEF h, z
      <4>7. h[t] = f[x] + (f[y] + z) /\ h[t \ {y}] = f[x] + z /\ z \in Nat
        BY <4>4, <4>5, <4>6 DEF z
      <4> QED BY <4>7, <3>1, <2>2
    <3> QED BY <3>2, <3>3, <3>4
  <2>8. h \in Sums(f, s)
    <3> HIDE DEF h
    <3> QED BY <2>6, <2>7 DEF Sums
  <2> QED BY <1>1, <2>8
<1> QED BY <1>2, <1>3

(* The fold is the sum. *)
LEMMA SumIs ==
    ASSUME NEW S, IsFiniteSet(S), NEW f \in [S -> Nat], NEW h \in Sums(f, S)
    PROVE  SumFunction(f) = h[S]
<1>1. /\ h \in [SUBSET S -> Nat] /\ h[{}] = 0
      /\ \A s \in SUBSET S : \A x \in s : h[s] = f[x] + h[s \ {x}]
  BY DEF Sums
<1>2. \A s : s # {} => First(s) \in s
  BY DEF First
<1>3. Summing(h, f, S)
  <2>1. \A s \in SUBSET S : h[s] = IF s = {} THEN 0 ELSE f[First(s)] + h[s \ {First(s)}]
    BY <1>1, <1>2
  <2> QED BY <1>1, <2>1 DEF Summing
<1> DEFINE it == CHOOSE i : Summing(i, f, S)
<1>4. Summing(it, f, S)
  BY <1>3
<1> HIDE DEF it
<1>5. \A s \in SUBSET S : it[s] = IF s = {} THEN 0 ELSE f[First(s)] + it[s \ {First(s)}]
  BY <1>4 DEF Summing
<1>6. \A s \in SUBSET S : it[s] = h[s]
  <2> DEFINE bad == {s \in SUBSET S : it[s] # h[s]}
  <2> SUFFICES ASSUME bad # {} PROVE FALSE
    OBVIOUS
  <2>1. PICK s \in bad : \A t \in bad : ~ (t \subseteq s /\ t # s)
    <3>1. bad \in SUBSET SUBSET S
      OBVIOUS
    <3> HIDE DEF bad
    <3> QED BY <3>1, Smallest
  <2>2. s \in SUBSET S /\ it[s] # h[s]
    BY <2>1
  <2>3. s # {}
    BY <2>2, <1>1, <1>5
  <2>4. First(s) \in s /\ s \ {First(s)} \in SUBSET S
    BY <2>2, <2>3, <1>2
  <2>5. it[s \ {First(s)}] = h[s \ {First(s)}]
    BY <2>1, <2>4
  <2> QED BY <2>2, <2>3, <2>4, <2>5, <1>1, <1>5
<1>7. SumFunction(f) = it[S]
  BY SumIsFold DEF it
<1> QED BY <1>6, <1>7

(* A part of a whole, and one element more that counts for x at most.      *)
LEMMA OneMore ==
    ASSUME NEW S, IsFiniteSet(S), NEW f \in [S -> Nat], NEW n, NEW x \in Nat,
           NEW T \in SUBSET (S \cup {n}), NEW g \in [T -> Nat],
           \A i \in T : i # n => g[i] = f[i], n \in T => g[n] <= x
    PROVE  SumFunction(f) \in Nat /\ SumFunction(g) \in Nat /\ SumFunction(g) <= SumFunction(f) + x
<1>1. IsFiniteSet(T)
  BY FS_AddElement, FS_Subset
<1>2. PICK a : a \in Sums(f, S)
  BY SumsExist
<1>3. PICK b : b \in Sums(g, T)
  BY <1>1, SumsExist
<1>4. SumFunction(f) = a[S] /\ SumFunction(g) = b[T]
  BY <1>1, <1>2, <1>3, SumIs
<1>5. /\ a \in [SUBSET S -> Nat] /\ a[{}] = 0
      /\ \A s \in SUBSET S : \A y \in s : a[s] = f[y] + a[s \ {y}]
      /\ b \in [SUBSET T -> Nat] /\ b[{}] = 0
      /\ \A s \in SUBSET T : \A y \in s : b[s] = g[y] + b[s \ {y}]
  BY <1>2, <1>3 DEF Sums
(* The parts both have are as much in both. *)
<1>6. \A s \in SUBSET T : n \notin s => b[s] = a[s]
  <2> DEFINE bad == {s \in SUBSET T : n \notin s /\ b[s] # a[s]}
  <2> SUFFICES ASSUME bad # {} PROVE FALSE
    OBVIOUS
  <2>1. PICK s \in bad : \A t \in bad : ~ (t \subseteq s /\ t # s)
    <3>1. bad \in SUBSET SUBSET T
      OBVIOUS
    <3> HIDE DEF bad
    <3> QED BY <3>1, <1>1, Smallest
  <2>2. s \in SUBSET T /\ s \in SUBSET S /\ n \notin s /\ b[s] # a[s]
    BY <2>1
  <2>3. PICK y \in s : TRUE
    BY <2>2, <1>5
  <2>4. b[s \ {y}] = a[s \ {y}]
    BY <2>1, <2>2, <2>3
  <2>5. g[y] = f[y]
    BY <2>2, <2>3
  <2> QED BY <2>2, <2>3, <2>4, <2>5, <1>5
(* A part of S is no more than S. *)
<1>7. \A s \in SUBSET S : a[s] <= a[S]
  <2> SUFFICES ASSUME NEW s \in SUBSET S, ~ (a[s] <= a[S]) PROVE FALSE
    OBVIOUS
  <2> DEFINE bad == {t \in SUBSET S : s \subseteq t /\ ~ (a[s] <= a[t])}
  <2>1. S \in bad
    OBVIOUS
  <2>2. PICK t \in bad : \A u \in bad : ~ (u \subseteq t /\ u # t)
    <3>1. bad \in SUBSET SUBSET S /\ bad # {}
      BY <2>1
    <3> HIDE DEF bad
    <3> QED BY <3>1, Smallest
  <2>3. t \in SUBSET S /\ s \subseteq t /\ ~ (a[s] <= a[t])
    BY <2>2
  <2>4. a[s] \in Nat /\ a[t] \in Nat
    BY <2>3, <1>5
  <2>5. PICK y \in t \ s : TRUE
    BY <2>3, <2>4
  <2>6. a[t] = f[y] + a[t \ {y}] /\ f[y] \in Nat /\ a[t \ {y}] \in Nat
    BY <2>3, <2>5, <1>5
  <2>7. a[s] <= a[t \ {y}]
    BY <2>2, <2>3, <2>5
  <2> QED BY <2>3, <2>4, <2>6, <2>7
<1>8. a[S] \in Nat /\ b[T] \in Nat
  BY <1>5
<1>9. CASE n \notin T
  BY <1>4, <1>6, <1>7, <1>8, <1>9
<1>10. CASE n \in T
  <2>1. b[T] = g[n] + b[T \ {n}] /\ T \ {n} \in SUBSET T /\ T \ {n} \in SUBSET S
    BY <1>5, <1>10
  <2>2. b[T \ {n}] = a[T \ {n}]
    BY <1>6, <2>1
  <2>3. a[T \ {n}] <= a[S] /\ a[T \ {n}] \in Nat /\ g[n] \in Nat /\ g[n] <= x
    BY <1>5, <1>7, <1>10, <2>1
  <2> QED BY <2>1, <2>2, <2>3, <1>4, <1>8
<1> QED BY <1>9, <1>10

-----------------------------------------------------------------------------
USE BudgetAssumption

(* What the settings say: the first assumption as the provers use it. *)
LEMMA Widths == /\ \A w \in Window : Width[w] \in Nat \ {0} /\ Width[w] <= Day
                /\ \A w \in Window : Ceiling[w]["requests"] \in Nat
                /\ Day \in Nat \ {0} /\ Stale < Day
  BY DEF Window, Kind, Day

Counted(w) == {n \in DOMAIN sent \ forgiven : sent[n] < Width[w]}

(* Whose number is whose. *)
Numbered == /\ \A n \in DOMAIN sent : n <= seq
            /\ \A c \in Caller : claim[c] <= seq
            /\ \A c, d \in Caller : c # d /\ stage[c] # "idle" /\ stage[d] # "idle"
                                        => claim[c] # claim[d]

(* Who waits has sent nothing; who leaves gives nothing back that stands.  *)
Waiting == \A c \in Caller : stage[c] \in {"trying", "holding"} => claim[c] \notin DOMAIN sent
Leaving == \A c \in Caller :
    stage[c] = "leaving" /\ claim[c] \in DOMAIN sent \ forgiven
        => claim[c] \in DOMAIN calls /\ ~calls[claim[c]].hold

(* What went out and was not forgiven is in the ledger, at its own age.    *)
Charged == \A n \in DOMAIN sent \ forgiven : n \in DOMAIN calls /\ calls[n].age = sent[n]

(* What is past its window is forgotten. *)
Young == /\ \A n \in DOMAIN sent : sent[n] < Day
         /\ \A p \in DOMAIN seen : seen[p].age < Width[p[1]]

IInv == TypeOK /\ Numbered /\ Waiting /\ Leaving /\ Charged /\ Young /\ CeilingHolds

-----------------------------------------------------------------------------
(* The gate *)

Below == {s \in Nat \X Nat : s[1] < s[2]}

(* A set of numbers that is not empty has a least one. *)
LEMMA Least == ASSUME NEW S \in SUBSET Nat, S # {}
               PROVE  \E x \in S : \A y \in S : x <= y
<1>1. IsWellFoundedOn(Below, Nat)
  BY NatLessThanWellFounded DEF OpToRel, Below
<1>2. PICK x \in S : \A y \in S : ~ (<<y, x>> \in Below)
  BY <1>1, WFMin
<1>3. \A y \in S : ~ (y < x)
  BY <1>2 DEF Below
<1> QED BY <1>3

(* The ledger's calls inside a window are finitely many. *)
LEMMA InsideFinite ==
    ASSUME TypeOK, NEW w \in Window
    PROVE  IsFiniteSet(Inside(w)) /\ Cardinality(Inside(w)) \in Nat
<1>1. IsFiniteSet(DOMAIN calls) /\ Inside(w) \in SUBSET DOMAIN calls
  BY DEF TypeOK, Inside
<1> QED BY <1>1, FS_Subset, FS_CardinalityType

(* What the calls of a set count for, in any state of the ledger. *)
Charge(f, k, S) == IF k = "requests" THEN Cardinality(S)
                   ELSE SumFunction([n \in S |-> f[n].tokens])

Ledger(f) == /\ DOMAIN f \in SUBSET Nat /\ IsFiniteSet(DOMAIN f)
             /\ f \in [DOMAIN f -> Call]

(* Of two ledgers that say the same of all calls but n, the one that may   *)
(* count n besides counts no more than n is for.                           *)
LEMMA OneCallMore ==
    ASSUME NEW f, Ledger(f), NEW g, Ledger(g), NEW k \in Kind, NEW S \in SUBSET DOMAIN f,
           NEW n, NEW T \in SUBSET DOMAIN g, T \subseteq S \cup {n},
           \A i \in T : i # n => g[i] = f[i],
           NEW x \in Nat, k = "requests" => 1 <= x, n \in T => g[n].tokens <= x \/ k = "requests"
    PROVE  Charge(f, k, S) \in Nat /\ Charge(g, k, T) \in Nat
           /\ Charge(g, k, T) <= Charge(f, k, S) + x
<1>1. IsFiniteSet(S) /\ IsFiniteSet(T)
  BY FS_Subset DEF Ledger
<1>2. CASE k = "requests"
  <2>1. Cardinality(T) <= Cardinality(S \cup {n}) /\ IsFiniteSet(S \cup {n})
    BY <1>1, FS_AddElement, FS_Subset
  <2>2. Cardinality(S \cup {n}) = Cardinality(S) \/ Cardinality(S \cup {n}) = Cardinality(S) + 1
    BY <1>1, FS_AddElement
  <2>3. Cardinality(S) \in Nat /\ Cardinality(T) \in Nat
    BY <1>1, FS_CardinalityType
  <2> QED BY <1>2, <2>1, <2>2, <2>3 DEF Charge
<1>3. CASE k # "requests"
  <2> DEFINE a == [i \in S |-> f[i].tokens]
             b == [i \in T |-> g[i].tokens]
  <2>1. a \in [S -> Nat] /\ b \in [T -> Nat]
    BY DEF Ledger, Call
  <2>2. (\A i \in T : i # n => b[i] = a[i]) /\ (n \in T => b[n] <= x)
    BY <1>3
  <2>3. Charge(f, k, S) = SumFunction(a) /\ Charge(g, k, T) = SumFunction(b)
    BY <1>3 DEF Charge
  <2> HIDE DEF a, b
  <2>4. T \in SUBSET (S \cup {n})
    OBVIOUS
  <2>5. /\ SumFunction(a) \in Nat /\ SumFunction(b) \in Nat
        /\ SumFunction(b) <= SumFunction(a) + x
    BY ONLY <1>1, <2>1, <2>2, <2>4, x \in Nat, OneMore
  <2> QED BY <2>3, <2>5
<1> QED BY <1>2, <1>3

LEMMA ChargeType ==
    ASSUME NEW f, Ledger(f), NEW k \in Kind, NEW S \in SUBSET DOMAIN f
    PROVE  Charge(f, k, S) \in Nat
<1> DEFINE x == 1
<1>1. x \in Nat /\ (k = "requests" => 1 <= x) /\ -1 \notin S
  BY DEF Ledger
<1> HIDE DEF x
<1> QED BY <1>1, OneCallMore

(* What was announced after a reading. *)
After(p) == {n \in DOMAIN calls : n > seen[p].seq}

(* What the gate adds up is a number, and it is no more than the settings  *)
(* leave.                                                                  *)
LEMMA Numbers ==
    ASSUME TypeOK, NEW w \in Window, NEW k \in Kind
    PROVE  /\ Used(w, k) = Charge(calls, k, Inside(w)) /\ Used(w, k) \in Nat
           /\ Ceiling[w][k] \in Nat
           /\ Binding(w, k) =>
                /\ Reported(w, k) = seen[<<w, k>>].left - Charge(calls, k, After(<<w, k>>))
                /\ Charge(calls, k, After(<<w, k>>)) \in Nat /\ seen[<<w, k>>].left \in Nat
           /\ Remaining(w, k) \in Int /\ Remaining(w, k) <= Ceiling[w][k] - Used(w, k)
<1>1. Ledger(calls) /\ Ceiling[w][k] \in Nat
  BY DEF TypeOK, Ledger
<1>2. Used(w, k) = Charge(calls, k, Inside(w)) /\ Used(w, k) \in Nat
  <2>1. Inside(w) \in SUBSET DOMAIN calls
    BY DEF Inside
  <2>2. Charge(calls, k, Inside(w)) \in Nat
    BY <1>1, <2>1, ChargeType
  <2> QED BY <2>2 DEF Used, Amount, Charge
<1>3. ASSUME Binding(w, k)
      PROVE  /\ Reported(w, k) = seen[<<w, k>>].left - Charge(calls, k, After(<<w, k>>))
             /\ Charge(calls, k, After(<<w, k>>)) \in Nat /\ seen[<<w, k>>].left \in Nat
  <2>1. After(<<w, k>>) \in SUBSET DOMAIN calls
    BY DEF After
  <2>2. Charge(calls, k, After(<<w, k>>)) \in Nat
    BY <1>1, <2>1, ChargeType
  <2>3. seen[<<w, k>>].left \in Nat
    BY <1>3 DEF Binding, TypeOK, Reading
  <2>4. Reported(w, k) = seen[<<w, k>>].left - Charge(calls, k, After(<<w, k>>))
    BY DEF Reported, Amount, Charge, After
  <2> QED BY <2>2, <2>3, <2>4
<1>4. Remaining(w, k) \in Int /\ Remaining(w, k) <= Ceiling[w][k] - Used(w, k)
  <2>1. CASE Binding(w, k) /\ Reported(w, k) < Ceiling[w][k] - Used(w, k)
    <3>1. Remaining(w, k) = Reported(w, k)
      BY <2>1 DEF Remaining
    <3>2. Reported(w, k) \in Int
      BY <1>3, <2>1
    <3> QED BY <2>1, <3>1, <3>2, <1>1, <1>2
  <2>2. CASE ~ (Binding(w, k) /\ Reported(w, k) < Ceiling[w][k] - Used(w, k))
    <3>1. Remaining(w, k) = Ceiling[w][k] - Used(w, k)
      BY <2>2 DEF Remaining
    <3> QED BY <3>1, <1>1, <1>2
  <2> QED BY <2>1, <2>2
<1> QED BY <1>1, <1>2, <1>3, <1>4

(* Who has nothing to wait for, and asks for no more than a window, finds  *)
(* room for all it asks: where there is none, _relief has a time.          *)
LEMMA Room ==
    ASSUME TypeOK, Young, NEW c \in Caller, ~TooLarge(c), Fits(Waits(c)),
           NEW w \in Window, NEW k \in Kind
    PROVE  Needs(c, k) <= Remaining(w, k) /\ Needs(c, k) \in Nat
<1> DEFINE used == Used(w, k)
           m == Needs(c, k) - Remaining(w, k)
<1>1. Needs(c, k) \in Nat
  BY DEF Needs, TypeOK
<1>2. used \in Nat /\ Ceiling[w][k] \in Nat /\ Width[w] \in Nat \ {0} /\ Remaining(w, k) \in Int
  BY Numbers, Widths
<1>3. Needs(c, k) <= Ceiling[w][k]
  BY <1>1, <1>2 DEF TooLarge
<1> SUFFICES ASSUME Remaining(w, k) < Needs(c, k) PROVE FALSE
  BY <1>1, <1>2
<1>4. <<w, k>> \in Short(c)
  BY DEF Short
<1>5. CASE Binding(w, k)
  <2> DEFINE d == Width[w] - seen[<<w, k>>].age
  <2>1. seen[<<w, k>>].age \in Nat /\ seen[<<w, k>>].age < Width[w]
    <3>1. seen[<<w, k>>].age \in Age
      BY <1>5 DEF Binding, TypeOK, Reading
    <3>2. seen[<<w, k>>].age < Width[<<w, k>>[1]]
      BY <1>5 DEF Binding, Young
    <3> QED BY <3>1, <3>2, Widths DEF Age
  <2>2. d \in 1..Width[w]
    BY <2>1, <1>2
  <2>3. d \in Relief(w, k, m)
    BY <2>2, <1>5 DEF Relief
  <2>4. d \in Waits(c)
    BY <1>4, <2>3 DEF Waits
  <2> QED BY <2>4 DEF Fits
<1>6. CASE ~Binding(w, k)
  <2>1. Remaining(w, k) = Ceiling[w][k] - used
    BY <1>6 DEF Remaining
  <2>2. m <= used /\ m \in Int
    BY <2>1, <1>1, <1>2, <1>3
  <2> HIDE DEF m
  <2>3. {n \in Inside(w) : Width[w] - calls[n].age <= Width[w]} = Inside(w)
    BY <1>2, Widths DEF TypeOK, Call, Age, Inside
  <2>4. Width[w] \in Ripe(w, k, m)
    <3>1. Amount(k, {n \in Inside(w) : Width[w] - calls[n].age <= Width[w]}) = used
      BY <2>3 DEF Used
    <3> QED BY <3>1, <2>2, <1>2 DEF Ripe
  <2>5. PICK d \in Ripe(w, k, m) : \A e \in Ripe(w, k, m) : d <= e
    <3>1. Ripe(w, k, m) \in SUBSET Nat
      BY <1>2 DEF Ripe
    <3> QED BY <3>1, <2>4, Least
  <2>6. d \in Relief(w, k, m)
    BY <2>5 DEF Relief
  <2>7. d \in Waits(c)
    BY <1>4, <2>6 DEF Waits, m
  <2> QED BY <2>7 DEF Fits
<1> QED BY <1>5, <1>6

(* One more request's room among them. *)
LEMMA RequestRoom ==
    ASSUME TypeOK, Young, NEW c \in Caller, ~TooLarge(c), Fits(Waits(c)), NEW w \in Window
    PROVE  Cardinality(Inside(w)) + 1 <= Ceiling[w]["requests"]
<1> DEFINE k == "requests"
<1>1. k \in Kind /\ Needs(c, k) = 1 /\ Used(w, k) = Cardinality(Inside(w))
  BY DEF Kind, Needs, Used, Amount
<1> HIDE DEF k
<1>2. Used(w, k) \in Nat /\ Ceiling[w][k] \in Nat /\ Remaining(w, k) \in Int
      /\ Remaining(w, k) <= Ceiling[w][k] - Used(w, k)
  BY <1>1, Numbers
<1>3. 1 <= Remaining(w, k)
  BY <1>1, Room
<1>4. Cardinality(Inside(w)) + 1 <= Ceiling[w][k]
  BY <1>1, <1>2, <1>3
<1> QED BY <1>4 DEF k

-----------------------------------------------------------------------------
(* The steps *)

LEMMA InitInvariant == Init => IInv
<1> SUFFICES ASSUME Init PROVE IInv
  OBVIOUS
<1>1. DOMAIN calls = {} /\ DOMAIN sent = {} /\ DOMAIN seen = {}
  BY DEF Init
<1>2. TypeOK
  BY <1>1, FS_EmptySet DEF Init, TypeOK, Stage
<1>3. Numbered /\ Waiting /\ Leaving /\ Charged /\ Young
  BY <1>1 DEF Init, Numbered, Waiting, Leaving, Charged, Young
<1>4. CeilingHolds
  <2> SUFFICES ASSUME NEW w \in Window PROVE Cardinality(Counted(w)) <= Ceiling[w]["requests"]
    BY DEF CeilingHolds, Counted
  <2>1. Counted(w) = {}
    BY <1>1 DEF Counted
  <2> QED BY <2>1, FS_EmptySet, Widths
<1> QED BY <1>2, <1>3, <1>4 DEF IInv

(* Where nothing more counts, the ceilings hold as they did. *)
LEMMA Fewer ==
    ASSUME TypeOK, CeilingHolds, \A w \in Window : Counted(w)' \subseteq Counted(w)
    PROVE  CeilingHolds'
<1> SUFFICES ASSUME NEW w \in Window
             PROVE  Cardinality(Counted(w)') <= Ceiling[w]["requests"]
  BY DEF CeilingHolds, Counted
<1>1. IsFiniteSet(Counted(w))
  BY FS_Subset DEF Counted, TypeOK
<1>2. Cardinality(Counted(w)') <= Cardinality(Counted(w))
  BY <1>1, FS_Subset
<1>3. Cardinality(Counted(w)) <= Ceiling[w]["requests"]
  BY DEF CeilingHolds, Counted
<1>4. Cardinality(Counted(w)) \in Nat /\ Cardinality(Counted(w)') \in Nat
  BY <1>1, FS_Subset, FS_CardinalityType
<1> QED BY <1>2, <1>3, <1>4, Widths

(* The steps that leave what was sent and what is forgiven alone. *)
LEMMA Untouched ==
    ASSUME IInv, UNCHANGED <<sent, forgiven>>
    PROVE  CeilingHolds'
<1>1. \A w \in Window : Counted(w)' = Counted(w)
  BY DEF Counted
<1> QED BY <1>1, Fewer DEF IInv

LEMMA AnnounceInvariant ==
    ASSUME IInv, NEW c \in Caller, NEW e \in Estimate, Announce(c, e)
    PROVE  IInv'
<1>1. TypeOK'
  BY DEF IInv, TypeOK, Announce, Goes, Stage
<1>2. Numbered'
  BY DEF IInv, TypeOK, Numbered, Announce, Goes, Stage
<1>3. Waiting' /\ Leaving'
  BY DEF IInv, TypeOK, Numbered, Waiting, Leaving, Announce, Goes, Stage
<1>4. Charged' /\ Young'
  BY DEF IInv, Charged, Young, Announce
<1>5. CeilingHolds'
  BY Untouched DEF Announce
<1> QED BY <1>1, <1>2, <1>3, <1>4, <1>5 DEF IInv

(* Steps of one caller's own. *)
LEMMA HoldInvariant ==
    ASSUME IInv, NEW c \in Caller, Hold(c, Waits(c))
    PROVE  IInv'
<1>1. TypeOK'
  <2>1. PICK d \in Waits(c) : pause' = [pause EXCEPT ![c] = d]
    BY DEF Hold
  <2>2. d \in Nat
    <3>1. PICK p \in Short(c) : d \in Relief(p[1], p[2], Needs(c, p[2]) - Remaining(p[1], p[2]))
      BY DEF Waits
    <3>2. p[1] \in Window
      BY DEF Short
    <3> QED BY <3>1, <3>2, Widths DEF Relief, Ripe
  <2>3. d <= MaxWait
    BY <2>2 DEF Hold, Exhausted
  <2>4. d \in 0..MaxWait
    BY <2>2, <2>3
  <2> QED BY <2>1, <2>4 DEF IInv, TypeOK, Hold, Goes, Stage, ledgerVars
<1>2. Numbered' /\ Waiting' /\ Leaving'
  BY DEF IInv, TypeOK, Numbered, Waiting, Leaving, Hold, Goes, Stage, ledgerVars
<1>3. Charged' /\ Young'
  BY DEF IInv, Charged, Young, Hold, ledgerVars
<1>4. CeilingHolds'
  BY Untouched DEF Hold
<1> QED BY <1>1, <1>2, <1>3, <1>4 DEF IInv

LEMMA RefuseInvariant ==
    ASSUME IInv, NEW c \in Caller, Refuse(c, Waits(c))
    PROVE  IInv'
<1>1. TypeOK'
  BY DEF IInv, TypeOK, Refuse, Goes, Stage, ledgerVars
<1>2. Numbered' /\ Waiting' /\ Leaving'
  BY DEF IInv, TypeOK, Numbered, Waiting, Leaving, Refuse, Goes, Stage, ledgerVars
<1>3. Charged' /\ Young'
  BY DEF IInv, Charged, Young, Refuse, ledgerVars
<1>4. CeilingHolds'
  BY Untouched DEF Refuse
<1> QED BY <1>1, <1>2, <1>3, <1>4 DEF IInv

LEMMA WakeInvariant ==
    ASSUME IInv, NEW c \in Caller, Wake(c)
    PROVE  IInv'
<1>1. TypeOK'
  BY DEF IInv, TypeOK, Wake, Goes, Stage, ledgerVars
<1>2. Numbered' /\ Waiting' /\ Leaving'
  BY DEF IInv, TypeOK, Numbered, Waiting, Leaving, Wake, Goes, Stage, ledgerVars
<1>3. Charged' /\ Young'
  BY DEF IInv, Charged, Young, Wake, ledgerVars
<1>4. CeilingHolds'
  BY Untouched DEF Wake
<1> QED BY <1>1, <1>2, <1>3, <1>4 DEF IInv

LEMMA CancelInvariant ==
    ASSUME IInv, NEW c \in Caller, Cancel(c)
    PROVE  IInv'
<1>1. TypeOK'
  BY DEF IInv, TypeOK, Cancel, Goes, Stage, ledgerVars
<1>2. Numbered' /\ Waiting' /\ Leaving'
  BY DEF IInv, TypeOK, Numbered, Waiting, Leaving, Cancel, Goes, Stage, ledgerVars
<1>3. Charged' /\ Young'
  BY DEF IInv, Charged, Young, Cancel, ledgerVars
<1>4. CeilingHolds'
  BY Untouched DEF Cancel
<1> QED BY <1>1, <1>2, <1>3, <1>4 DEF IInv

-----------------------------------------------------------------------------
(* The steps that write the ledger *)

(* _prune drops what is old and what nobody settled, and nothing else.     *)
LEMMA Pruned ==
    ASSUME NEW f, Ledger(f)
    PROVE  /\ Ledger(Prune(f))
           /\ \A n \in DOMAIN f : n \in DOMAIN Prune(f)
                                    <=> f[n].age < Day /\ n \notin Unsettled(f)
           /\ \A n \in DOMAIN Prune(f) : n \in DOMAIN f /\ Prune(f)[n] = f[n]
<1> DEFINE kept == {n \in DOMAIN f : f[n].age < Day} \ Unsettled(f)
<1>1. DOMAIN Prune(f) = kept /\ \A n \in kept : Prune(f)[n] = f[n]
  BY DEF Prune, Restrict
<1>2. kept \in SUBSET DOMAIN f
  OBVIOUS
<1>3. IsFiniteSet(kept)
  BY <1>2, FS_Subset DEF Ledger
<1>4. Prune(f) \in [kept -> Call]
  BY <1>2 DEF Prune, Restrict, Ledger
<1> QED BY <1>1, <1>2, <1>3, <1>4 DEF Ledger

(* One entry more, or another in its place. *)
LEMMA Written ==
    ASSUME NEW f, Ledger(f), NEW n \in Nat, NEW x \in Call
    PROVE  /\ Ledger(With(f, n, x))
           /\ DOMAIN With(f, n, x) = DOMAIN f \cup {n}
           /\ With(f, n, x)[n] = x
           /\ \A i \in DOMAIN f : i # n => With(f, n, x)[i] = f[i]
<1>1. DOMAIN With(f, n, x) = DOMAIN f \cup {n}
  BY DEF With
<1>2. IsFiniteSet(DOMAIN f \cup {n})
  BY FS_AddElement DEF Ledger
<1> QED BY <1>1, <1>2 DEF With, Ledger

LEMMA BreakInvariant ==
    ASSUME IInv, NEW c \in Caller, Break(c)
    PROVE  IInv'
<1>1. TypeOK'
  BY DEF IInv, TypeOK, Break, Goes, Stage, ledgerVars
<1>2. Numbered' /\ Waiting' /\ Leaving'
  BY DEF IInv, TypeOK, Numbered, Waiting, Leaving, Break, Goes, Stage, ledgerVars
<1>3. Charged' /\ Young'
  BY DEF IInv, Charged, Young, Break, ledgerVars
<1>4. \A w \in Window : Counted(w)' \subseteq Counted(w)
  BY DEF Counted, Break
<1>5. CeilingHolds'
  BY <1>4, Fewer DEF IInv
<1> QED BY <1>1, <1>2, <1>3, <1>5 DEF IInv

(* What a call that is over leaves of its caller. *)
LEMMA EndsKeeps ==
    ASSUME IInv, NEW c \in Caller, Ends(c), seq' \in Nat, seq <= seq',
           UNCHANGED sent, \A n \in DOMAIN sent' \ forgiven' : n \notin forgiven
    PROVE  /\ stage' \in [Caller -> Stage] /\ claim' \in [Caller -> Nat]
           /\ need' \in [Caller -> Estimate \cup {0}]
           /\ waited' \in [Caller -> 0..MaxWait] /\ pause' \in [Caller -> 0..MaxWait]
           /\ Numbered' /\ Waiting'
           /\ \A d \in Caller : stage'[d] = "leaving" => stage[d] = "leaving" /\ claim'[d] = claim[d]
<1>1. /\ stage' \in [Caller -> Stage] /\ claim' \in [Caller -> Nat]
      /\ need' \in [Caller -> Estimate \cup {0}]
      /\ waited' \in [Caller -> 0..MaxWait] /\ pause' \in [Caller -> 0..MaxWait]
  BY DEF IInv, TypeOK, Ends, Goes, Stage
<1>2. Numbered' /\ Waiting'
  BY DEF IInv, TypeOK, Numbered, Waiting, Ends, Goes, Stage
<1>3. \A d \in Caller : stage'[d] = "leaving" => stage[d] = "leaving" /\ claim'[d] = claim[d]
  BY DEF IInv, TypeOK, Ends, Goes, Stage
<1> QED BY <1>1, <1>2, <1>3

LEMMA DieInvariant ==
    ASSUME IInv, NEW c \in Caller, Die(c)
    PROVE  IInv'
<1>1. seq' \in Nat /\ seq <= seq' /\ \A n \in DOMAIN sent' \ forgiven' : n \notin forgiven
  BY DEF Die, ledgerVars, IInv, TypeOK
<1>2. Ends(c) /\ UNCHANGED <<calls, seen, seq, sent, forgiven>>
  BY DEF Die, ledgerVars
<1>3. Numbered' /\ Waiting'
  BY <1>1, <1>2, EndsKeeps
<1>4. Leaving'
  BY <1>1, <1>2, EndsKeeps DEF IInv, Leaving
<1>5. deaths' \in 0..MaxDeaths
  BY DEF Die, IInv, TypeOK
<1>6. TypeOK'
  BY <1>1, <1>2, <1>5, EndsKeeps DEF IInv, TypeOK
<1>7. Charged' /\ Young'
  BY <1>2 DEF IInv, Charged, Young
<1>8. CeilingHolds'
  BY <1>2, Untouched
<1> QED BY <1>3, <1>4, <1>6, <1>7, <1>8 DEF IInv

LEMMA ReleaseInvariant ==
    ASSUME IInv, NEW c \in Caller, Release(c)
    PROVE  IInv'
<1> DEFINE kept == {n \in DOMAIN calls : ~(n = claim[c] /\ calls[n].hold)}
<1>1. seq' \in Nat /\ seq <= seq' /\ \A n \in DOMAIN sent' \ forgiven' : n \notin forgiven
  BY DEF Release, IInv, TypeOK
<1>2. Ends(c) /\ UNCHANGED <<seen, seq, deaths, sent, forgiven>>
  BY DEF Release
<1>3. DOMAIN calls' = kept /\ \A n \in kept : calls'[n] = calls[n]
  BY DEF Release, Restrict
<1>4. kept \in SUBSET DOMAIN calls
  OBVIOUS
<1>5. IsFiniteSet(kept)
  BY <1>4, FS_Subset DEF IInv, TypeOK
<1>6. calls' \in [kept -> Call]
  BY <1>3, <1>4 DEF IInv, TypeOK, Release, Restrict
<1>7. DOMAIN calls' \in SUBSET Nat /\ IsFiniteSet(DOMAIN calls') /\ calls' \in [DOMAIN calls' -> Call]
  BY <1>3, <1>4, <1>5, <1>6 DEF IInv, TypeOK
<1>8. TypeOK'
  BY <1>1, <1>2, <1>7, EndsKeeps DEF IInv, TypeOK
<1>9. Numbered' /\ Waiting'
  BY <1>1, <1>2, EndsKeeps
<1>10. Charged'
  BY <1>2, <1>3 DEF IInv, Charged, Leaving, Release
<1>11. Leaving'
  <2> SUFFICES ASSUME NEW d \in Caller, stage'[d] = "leaving", claim'[d] \in DOMAIN sent' \ forgiven'
               PROVE  claim'[d] \in DOMAIN calls' /\ ~calls'[claim'[d]].hold
    BY DEF Leaving
  <2>1. stage[d] = "leaving" /\ claim'[d] = claim[d]
    BY <1>1, <1>2, EndsKeeps
  <2>2. claim[d] \in DOMAIN calls /\ ~calls[claim[d]].hold
    BY <1>2, <2>1 DEF IInv, Leaving
  <2> QED BY <1>3, <2>1, <2>2
<1>12. Young'
  BY <1>2 DEF IInv, Young
<1>13. CeilingHolds'
  BY <1>2, Untouched
<1> QED BY <1>8, <1>9, <1>10, <1>11, <1>12, <1>13 DEF IInv

(* The count of a window goes up by the request that found room in it.     *)
LEMMA BookInvariant ==
    ASSUME IInv, NEW c \in Caller, Book(c, Waits(c))
    PROVE  IInv'
<1> DEFINE n == claim[c]
           x == [age |-> 0, tokens |-> need[c], hold |-> TRUE]
           f == With(calls, n, x)
<1>1. n \in Nat /\ x \in Call /\ Ledger(calls)
  BY Widths DEF IInv, TypeOK, Call, Age, Ledger
<1>2. Ledger(f) /\ DOMAIN f = DOMAIN calls \cup {n} /\ f[n] = x
  <2> HIDE DEF n, x
  <2>1. Ledger(f)
    BY <1>1, Written
  <2>2. DOMAIN f = DOMAIN calls \cup {n}
    BY <1>1, Written
  <2>3. f[n] = x
    BY DEF With
  <2> QED BY <2>1, <2>2, <2>3
<1>3. \A i \in DOMAIN calls : i # n => f[i] = calls[i]
  <2> HIDE DEF n, x
  <2> QED BY <1>1, Written
<1>4. /\ Ledger(calls')
      /\ \A i \in DOMAIN f : i \in DOMAIN calls' <=> f[i].age < Day /\ i \notin Unsettled(f)
      /\ \A i \in DOMAIN calls' : i \in DOMAIN f /\ calls'[i] = f[i]
  <2>1. calls' = Prune(f)
    BY DEF Book
  <2> HIDE DEF f
  <2> QED BY <2>1, <1>2, Pruned
<1>5. n \notin DOMAIN sent
  BY DEF IInv, Waiting, Book
<1>6. /\ DOMAIN sent' = DOMAIN sent \cup {n} /\ sent'[n] = 0
      /\ \A i \in DOMAIN sent : sent'[i] = sent[i]
  BY <1>5 DEF Book, With
<1>7. /\ forgiven' = forgiven \cup (Unsettled(calls) \cap DOMAIN sent)
      /\ UNCHANGED <<seen, seq, claim, need, pause, deaths>>
      /\ stage' = [stage EXCEPT ![c] = "sent"] /\ waited' = [waited EXCEPT ![c] = 0]
  BY DEF Book, Goes
<1> HIDE DEF f, x, n
<1>8. TypeOK'
  <2>1. IsFiniteSet(DOMAIN sent')
    <3>1. IsFiniteSet(DOMAIN sent)
      BY DEF IInv, TypeOK
    <3> QED BY <1>6, <3>1, FS_AddElement
  <2>2. sent' \in [DOMAIN sent' -> Age]
    <3>1. \A i \in DOMAIN sent' : sent'[i] \in Age
      BY <1>6, Widths DEF IInv, TypeOK, Age
    <3> QED BY <3>1 DEF Book, With
  <2>3. DOMAIN sent' \in SUBSET Nat /\ forgiven' \in SUBSET Nat
    BY <1>1, <1>6, <1>7 DEF IInv, TypeOK
  <2>4. DOMAIN calls' \in SUBSET Nat /\ IsFiniteSet(DOMAIN calls') /\ calls' \in [DOMAIN calls' -> Call]
    BY <1>4 DEF Ledger
  <2> QED BY <1>7, <2>1, <2>2, <2>3, <2>4 DEF IInv, TypeOK, Stage
<1>9. Numbered'
  BY <1>6, <1>7 DEF IInv, TypeOK, Numbered, n, Book
<1>10. Waiting'
  BY <1>6, <1>7 DEF IInv, TypeOK, Numbered, Waiting, n, Book
<1>11. Charged'
  <2> SUFFICES ASSUME NEW i \in DOMAIN sent' \ forgiven'
               PROVE  i \in DOMAIN calls' /\ calls'[i].age = sent'[i]
    BY DEF Charged
  <2>1. CASE i = n
    <3>1. i \in DOMAIN f /\ f[i] = x /\ x.age = 0
      BY <2>1, <1>2 DEF x
    <3>2. 0 < Day /\ ~(0 > Stale)
      BY Widths
    <3>3. i \notin Unsettled(f)
      BY <3>1, <3>2 DEF Unsettled
    <3>4. i \in DOMAIN calls' /\ calls'[i] = f[i]
      BY <3>1, <3>2, <3>3, <1>4
    <3> QED BY <2>1, <3>1, <3>4, <1>6
  <2>2. CASE i # n
    <3>1. i \in DOMAIN sent \ forgiven /\ i \notin Unsettled(calls)
      BY <2>2, <1>6, <1>7
    <3>2. i \in DOMAIN calls /\ calls[i].age = sent[i] /\ sent[i] < Day
      BY <3>1 DEF IInv, Charged, Young
    <3>3. f[i] = calls[i] /\ i \in DOMAIN f
      BY <3>2, <2>2, <1>2, <1>3
    <3>4. i \notin Unsettled(f)
      BY <3>1, <3>2, <3>3 DEF Unsettled
    <3>5. i \in DOMAIN calls' /\ calls'[i] = f[i]
      BY <3>2, <3>3, <3>4, <1>4
    <3>6. sent'[i] = sent[i]
      BY <3>1, <1>6
    <3> QED BY <3>2, <3>3, <3>5, <3>6
  <2> QED BY <2>1, <2>2
<1>12. Leaving'
  <2> SUFFICES ASSUME NEW d \in Caller, stage'[d] = "leaving", claim'[d] \in DOMAIN sent' \ forgiven'
               PROVE  claim'[d] \in DOMAIN calls' /\ ~calls'[claim'[d]].hold
    BY DEF Leaving
  <2>1. d # c /\ stage[d] = "leaving" /\ claim'[d] = claim[d] /\ stage[c] = "trying"
    BY <1>7 DEF IInv, TypeOK, Book
  <2>2. claim[d] # n
    BY <2>1 DEF IInv, Numbered, n
  <2>3. claim[d] \in DOMAIN sent \ forgiven
    BY <2>1, <2>2, <1>6, <1>7
  <2>4. claim[d] \in DOMAIN calls /\ ~calls[claim[d]].hold
    BY <2>1, <2>3 DEF IInv, Leaving
  <2>5. f[claim[d]] = calls[claim[d]]
    BY <2>2, <2>4, <1>3
  <2>6. claim'[d] \in DOMAIN calls'
    BY <1>11 DEF Charged
  <2> QED BY <2>1, <2>4, <2>5, <2>6, <1>4
<1>13. Young'
  BY <1>6, <1>7, Widths DEF IInv, Young
<1>14. CeilingHolds'
  <2> SUFFICES ASSUME NEW w \in Window
               PROVE  Cardinality(Counted(w)') <= Ceiling[w]["requests"]
    BY DEF CeilingHolds, Counted
  <2>1. Cardinality(Inside(w)) + 1 <= Ceiling[w]["requests"]
    BY RequestRoom DEF IInv, Book
  <2>2. IsFiniteSet(Inside(w)) /\ Cardinality(Inside(w)) \in Nat
    BY InsideFinite DEF IInv
  <2>3. Counted(w)' \subseteq Inside(w) \cup {n}
    BY <1>6, <1>7 DEF Counted, Inside, IInv, Charged
  <2>4. /\ IsFiniteSet(Inside(w) \cup {n})
        /\ Cardinality(Inside(w) \cup {n}) <= Cardinality(Inside(w)) + 1
    <3>1. Cardinality(Inside(w) \cup {n}) = (IF n \in Inside(w) THEN Cardinality(Inside(w)) ELSE Cardinality(Inside(w)) + 1)
      BY <2>2, FS_AddElement
    <3>2. IsFiniteSet(Inside(w) \cup {n})
      BY <2>2, FS_AddElement
    <3> QED BY <2>2, <3>1, <3>2
  <2>5. Cardinality(Counted(w)') <= Cardinality(Inside(w) \cup {n})
    BY <2>3, <2>4, FS_Subset
  <2>6. Cardinality(Counted(w)') \in Nat /\ Cardinality(Inside(w) \cup {n}) \in Nat
    BY <2>3, <2>4, FS_Subset, FS_CardinalityType
  <2> QED BY <2>1, <2>2, <2>4, <2>5, <2>6, Widths
<1> QED BY <1>8, <1>9, <1>10, <1>11, <1>12, <1>13, <1>14 DEF IInv

(* An answer settles its booking where it stands, or is written anew.      *)
LEMMA AnswerInvariant ==
    ASSUME IInv, NEW c \in Caller, NEW x \in Cost, NEW h \in Heard, Answer(c, x, h)
    PROVE  IInv'
<1> DEFINE n == claim[c]
           booked == n \in DOMAIN calls
           m == IF booked THEN n ELSE seq + 1
           y == [age |-> IF booked THEN calls[n].age ELSE 0, tokens |-> x, hold |-> FALSE]
           f == With(calls, m, y)
<1>1. /\ seq' = (IF booked THEN seq ELSE seq + 1)
      /\ calls' = Prune(f)
      /\ forgiven' = forgiven \cup (Unsettled(f) \cap DOMAIN sent)
      /\ seen' = [p \in DOMAIN seen \cup DOMAIN h |->
                     IF p \in DOMAIN h THEN [age |-> 0, left |-> h[p], seq |-> m] ELSE seen[p]]
      /\ UNCHANGED <<deaths, sent>>
      /\ stage[c] = "sent"
  BY DEF Answer, Settled
<1>2. m \in Nat /\ y \in Call /\ Ledger(calls)
  BY Widths DEF IInv, TypeOK, Call, Age, Ledger
<1>3. Ledger(f) /\ DOMAIN f = DOMAIN calls \cup {m} /\ f[m] = y
  <2> HIDE DEF m, y
  <2>1. Ledger(f)
    BY <1>2, Written
  <2>2. DOMAIN f = DOMAIN calls \cup {m}
    BY <1>2, Written
  <2>3. f[m] = y
    BY DEF With
  <2> QED BY <2>1, <2>2, <2>3
<1>4. \A i \in DOMAIN calls : i # m => f[i] = calls[i]
  <2> HIDE DEF m, y
  <2> QED BY <1>2, Written
<1>5. /\ Ledger(calls')
      /\ \A i \in DOMAIN f : i \in DOMAIN calls' <=> f[i].age < Day /\ i \notin Unsettled(f)
      /\ \A i \in DOMAIN calls' : i \in DOMAIN f /\ calls'[i] = f[i]
  <2> HIDE DEF f
  <2> QED BY <1>1, <1>3, Pruned
<1>6. seq' \in Nat /\ seq <= seq' /\ \A i \in DOMAIN sent' \ forgiven' : i \notin forgiven
  BY <1>1 DEF IInv, TypeOK
<1>7. m \in DOMAIN sent => m = n /\ booked
  BY <1>1 DEF IInv, TypeOK, Numbered
<1> HIDE DEF f
<1>8. Charged'
  <2> SUFFICES ASSUME NEW i \in DOMAIN sent' \ forgiven'
               PROVE  i \in DOMAIN calls' /\ calls'[i].age = sent'[i]
    BY DEF Charged
  <2>1. i \in DOMAIN sent \ forgiven /\ sent' = sent /\ i \notin Unsettled(f)
    BY <1>1
  <2>2. i \in DOMAIN calls /\ calls[i].age = sent[i] /\ sent[i] < Day
    BY <2>1 DEF IInv, Charged, Young
  <2>3. i \in DOMAIN f /\ f[i].age = calls[i].age
    <3>1. CASE i = m
      BY <3>1, <2>1, <1>7, <1>3
    <3>2. CASE i # m
      BY <3>2, <2>2, <1>3, <1>4
    <3> QED BY <3>1, <3>2
  <2> QED BY <2>1, <2>2, <2>3, <1>5
<1>9. seen' \in [DOMAIN seen' -> Reading] /\ DOMAIN seen' \subseteq Window \X Kind
  <2>1. \A p \in DOMAIN h : p \in Window \X Kind /\ h[p] \in Nat
    BY DEF Range
  <2> QED BY <1>1, <1>2, <2>1, Widths DEF IInv, TypeOK, Reading, Age
<1>10. \A p \in DOMAIN seen' : seen'[p].age < Width[p[1]]
  <2> SUFFICES ASSUME NEW p \in DOMAIN seen' PROVE seen'[p].age < Width[p[1]]
    OBVIOUS
  <2>1. CASE p \in DOMAIN h
    <3>1. seen'[p].age = 0 /\ p[1] \in Window
      BY <1>1, <1>9, <2>1
    <3> QED BY <3>1, Widths
  <2>2. CASE p \notin DOMAIN h
    BY <1>1, <2>2 DEF IInv, Young
  <2> QED BY <2>1, <2>2
<1>11. Young'
  BY <1>1, <1>10 DEF IInv, Young
<1>12. CeilingHolds'
  <2>1. \A w \in Window : Counted(w)' \subseteq Counted(w)
    BY <1>1 DEF Counted
  <2> QED BY <2>1, Fewer DEF IInv
<1>13. /\ DOMAIN calls' \in SUBSET Nat /\ IsFiniteSet(DOMAIN calls') /\ calls' \in [DOMAIN calls' -> Call]
       /\ deaths' \in 0..MaxDeaths /\ forgiven' \in SUBSET Nat
       /\ DOMAIN sent' \in SUBSET Nat /\ IsFiniteSet(DOMAIN sent') /\ sent' \in [DOMAIN sent' -> Age]
  BY <1>1, <1>5 DEF IInv, TypeOK, Ledger
(* What the claims of those who were leaving keep. *)
<1>14. ASSUME NEW d \in Caller, stage[d] = "leaving", claim[d] \in DOMAIN sent' \ forgiven'
       PROVE  claim[d] \in DOMAIN calls' /\ ~calls'[claim[d]].hold
  <2>1. claim[d] \in DOMAIN calls /\ ~calls[claim[d]].hold
    BY <1>1, <1>14 DEF IInv, Leaving
  <2>2. claim[d] \in DOMAIN calls'
    BY <1>8, <1>14 DEF Charged
  <2>3. ~f[claim[d]].hold
    <3>1. CASE claim[d] = m
      BY <3>1, <1>3
    <3>2. CASE claim[d] # m
      BY <3>2, <2>1, <1>4
    <3> QED BY <3>1, <3>2
  <2> QED BY <2>2, <2>3, <1>5
<1> HIDE DEF m, y, booked
<1>15. CASE Ends(c)
  <2>1. TypeOK'
    BY <1>15, <1>1, <1>6, <1>9, <1>13, EndsKeeps DEF TypeOK
  <2>2. Numbered' /\ Waiting'
    BY <1>15, <1>1, <1>6, EndsKeeps
  <2>3. Leaving'
    <3> SUFFICES ASSUME NEW d \in Caller, stage'[d] = "leaving", claim'[d] \in DOMAIN sent' \ forgiven'
                 PROVE  claim'[d] \in DOMAIN calls' /\ ~calls'[claim'[d]].hold
      BY DEF Leaving
    <3>1. stage[d] = "leaving" /\ claim'[d] = claim[d]
      BY <1>15, <1>1, <1>6, EndsKeeps
    <3> QED BY <3>1, <1>14
  <2> QED BY <2>1, <2>2, <2>3, <1>8, <1>11, <1>12 DEF IInv
<1>16. CASE Goes(c, "leaving") /\ UNCHANGED <<claim, need, waited, pause>>
  <2>1. TypeOK'
    BY <1>16, <1>6, <1>9, <1>13 DEF IInv, TypeOK, Goes, Stage
  <2>2. Numbered'
    BY <1>16, <1>1, <1>6 DEF IInv, TypeOK, Numbered, Goes
  <2>3. Waiting'
    BY <1>16, <1>1 DEF IInv, TypeOK, Waiting, Goes
  <2>4. Leaving'
    <3> SUFFICES ASSUME NEW d \in Caller, stage'[d] = "leaving", claim'[d] \in DOMAIN sent' \ forgiven'
                 PROVE  claim'[d] \in DOMAIN calls' /\ ~calls'[claim'[d]].hold
      BY DEF Leaving
    <3>1. claim'[d] = claim[d]
      BY <1>16
    <3>2. CASE d # c
      <4>1. stage[d] = "leaving"
        BY <1>16, <3>2 DEF IInv, TypeOK, Goes
      <4> QED BY <4>1, <3>1, <1>14
    <3>3. CASE d = c
      <4>1. n \in DOMAIN sent \ forgiven
        BY <3>1, <3>3, <1>1
      <4>2. n \in DOMAIN calls
        BY <4>1 DEF IInv, Charged
      <4>3. m = n /\ ~f[n].hold
        BY <4>2, <1>3 DEF m, y, booked
      <4>4. n \in DOMAIN calls'
        BY <1>8, <3>1, <3>3 DEF Charged
      <4> QED BY <3>1, <3>3, <4>3, <4>4, <1>5
    <3> QED BY <3>2, <3>3
  <2> QED BY <2>1, <2>2, <2>3, <2>4, <1>8, <1>11, <1>12 DEF IInv
<1> QED BY <1>15, <1>16 DEF Answer

LEMMA TickInvariant == ASSUME IInv, Tick PROVE IInv'
<1> DEFINE lasting == {n \in DOMAIN sent : sent[n] + 1 < Day}
<1>1. /\ DOMAIN sent' = lasting /\ \A n \in lasting : sent'[n] = sent[n] + 1
      /\ forgiven' = forgiven \cap lasting
      /\ UNCHANGED <<seq, stage, claim, need, deaths>>
  BY DEF Tick
<1>2. \A n \in DOMAIN sent : sent[n] \in Nat /\ sent[n] < Day
  BY Widths DEF IInv, TypeOK, Young, Age
<1>3. /\ DOMAIN calls' = DOMAIN calls
      /\ \A n \in DOMAIN calls : /\ calls'[n].age = Older(calls[n].age)
                                 /\ calls'[n].hold = calls[n].hold
                                 /\ calls'[n] \in Call
  <2>1. DOMAIN calls' = DOMAIN calls
    BY DEF Tick
  <2> SUFFICES ASSUME NEW n \in DOMAIN calls
               PROVE  /\ calls'[n].age = Older(calls[n].age)
                      /\ calls'[n].hold = calls[n].hold
                      /\ calls'[n] \in Call
    BY <2>1
  <2>2. calls[n] \in Call
    BY DEF IInv, TypeOK
  <2>3. calls'[n] = [calls[n] EXCEPT !.age = Older(@)]
    BY DEF Tick
  <2>4. calls[n].age \in 0..Day /\ Day \in Nat
    BY <2>2, Widths DEF Call, Age
  <2>5. Older(calls[n].age) \in Age
    BY <2>4 DEF Older, Age
  <2> HIDE DEF Day
  <2> QED BY <2>2, <2>3, <2>5 DEF Call
<1>4. calls' \in [DOMAIN calls' -> Call]
  BY <1>3 DEF Tick
<1>5. Charged'
  <2> SUFFICES ASSUME NEW n \in DOMAIN sent' \ forgiven'
               PROVE  n \in DOMAIN calls' /\ calls'[n].age = sent'[n]
    BY DEF Charged
  <2>1. n \in lasting /\ n \in DOMAIN sent \ forgiven
    BY <1>1
  <2>2. n \in DOMAIN calls /\ calls[n].age = sent[n] /\ sent[n] < Day
    BY <2>1, <1>2 DEF IInv, Charged
  <2> QED BY <2>1, <2>2, <1>1, <1>3 DEF Older
<1>6. Waiting' /\ Numbered'
  BY <1>1 DEF IInv, Waiting, Numbered
<1>7. Leaving'
  <2> SUFFICES ASSUME NEW c \in Caller, stage'[c] = "leaving", claim'[c] \in DOMAIN sent' \ forgiven'
               PROVE  claim'[c] \in DOMAIN calls' /\ ~calls'[claim'[c]].hold
    BY DEF Leaving
  <2>1. stage[c] = "leaving" /\ claim'[c] = claim[c] /\ claim[c] \in DOMAIN sent \ forgiven
    BY <1>1
  <2>2. claim[c] \in DOMAIN calls /\ ~calls[claim[c]].hold
    BY <2>1 DEF IInv, Leaving
  <2> QED BY <2>1, <2>2, <1>3
<1>8. /\ DOMAIN seen' = {q \in DOMAIN seen : seen[q].age + 1 < Width[q[1]]}
      /\ \A p \in DOMAIN seen' : seen'[p] = [seen[p] EXCEPT !.age = @ + 1]
  BY DEF Tick
<1>9. \A p \in DOMAIN seen' : seen'[p] \in Reading /\ seen'[p].age < Width[p[1]]
  <2> SUFFICES ASSUME NEW p \in DOMAIN seen'
               PROVE  seen'[p] \in Reading /\ seen'[p].age < Width[p[1]]
    OBVIOUS
  <2>1. p \in DOMAIN seen /\ seen[p].age + 1 < Width[p[1]] /\ seen[p] \in Reading
    BY <1>8 DEF IInv, TypeOK
  <2>2. p[1] \in Window
    BY <2>1 DEF IInv, TypeOK
  <2>3. seen[p].age \in 0..Day /\ Day \in Nat /\ Width[p[1]] \in Nat /\ Width[p[1]] <= Day
    BY <2>1, <2>2, Widths DEF Reading, Age
  <2>4. seen[p].age + 1 \in Age
    BY <2>1, <2>3 DEF Age
  <2>5. seen'[p] = [seen[p] EXCEPT !.age = @ + 1]
    BY <1>8
  <2> QED BY <2>1, <2>4, <2>5 DEF Reading
<1>10. Young'
  <2>1. \A n \in DOMAIN sent' : sent'[n] < Day
    BY <1>1
  <2> QED BY <2>1, <1>9 DEF Young
<1>11. waited' \in [Caller -> 0..MaxWait] /\ pause' \in [Caller -> 0..MaxWait]
  BY DEF Tick, IInv, TypeOK
<1>12. /\ DOMAIN sent' \in SUBSET Nat /\ IsFiniteSet(DOMAIN sent')
       /\ sent' \in [DOMAIN sent' -> Age] /\ forgiven' \in SUBSET Nat
  <2>1. DOMAIN sent' \in SUBSET DOMAIN sent /\ IsFiniteSet(DOMAIN sent) /\ DOMAIN sent \in SUBSET Nat
    BY <1>1 DEF IInv, TypeOK
  <2>2. IsFiniteSet(DOMAIN sent')
    BY <2>1, FS_Subset
  <2>3. \A n \in lasting : sent'[n] \in Age
    BY <1>1, <1>2, Widths DEF Age
  <2>4. sent' \in [DOMAIN sent' -> Age]
    BY <1>1, <2>3 DEF Tick
  <2> QED BY <1>1, <2>1, <2>2, <2>4
<1>13. /\ DOMAIN seen' \subseteq Window \X Kind
       /\ seen' \in [DOMAIN seen' -> Reading]
  <2>1. DOMAIN seen' \subseteq Window \X Kind
    BY <1>8 DEF IInv, TypeOK
  <2>2. seen' = [p \in DOMAIN seen' |-> seen'[p]]
    BY DEF Tick
  <2> QED BY <2>1, <2>2, <1>9
<1>14. TypeOK'
  <2>1. DOMAIN calls' \in SUBSET Nat /\ IsFiniteSet(DOMAIN calls')
    BY <1>3 DEF IInv, TypeOK
  <2> QED BY <2>1, <1>1, <1>4, <1>11, <1>12, <1>13 DEF IInv, TypeOK
<1>15. CeilingHolds'
  <2>1. \A w \in Window : Counted(w)' \subseteq Counted(w)
    <3> SUFFICES ASSUME NEW w \in Window, NEW n \in Counted(w)' PROVE n \in Counted(w)
      OBVIOUS
    <3>1. n \in lasting /\ n \in DOMAIN sent \ forgiven /\ sent[n] + 1 < Width[w]
      BY <1>1 DEF Counted
    <3>2. sent[n] < Width[w]
      BY <3>1, <1>2, Widths
    <3> QED BY <3>1, <3>2 DEF Counted
  <2> QED BY <2>1, Fewer DEF IInv
<1> QED BY <1>5, <1>6, <1>7, <1>10, <1>14, <1>15 DEF IInv

-----------------------------------------------------------------------------
LEMMA StepInvariant == ASSUME IInv, [Next]_vars PROVE IInv'
<1>1. CASE UNCHANGED vars
  BY <1>1 DEF IInv, TypeOK, Numbered, Waiting, Leaving, Charged, Young, CeilingHolds,
              vars, ledgerVars, callerVars
<1>2. CASE Tick
  BY <1>2, TickInvariant
<1>3. ASSUME NEW c \in Caller, NEW e \in Estimate, Announce(c, e) PROVE IInv'
  BY <1>3, AnnounceInvariant
<1>4. ASSUME NEW c \in Caller, Attempt(c) PROVE IInv'
  BY <1>4, BookInvariant, HoldInvariant, RefuseInvariant DEF Attempt
<1>5. ASSUME NEW c \in Caller, NEW x \in Cost, NEW h \in Heard, Answer(c, x, h) PROVE IInv'
  BY <1>5, AnswerInvariant
<1>6. ASSUME NEW c \in Caller, Wake(c) \/ Cancel(c) \/ Break(c) \/ Release(c) \/ Die(c) PROVE IInv'
  BY <1>6, WakeInvariant, CancelInvariant, BreakInvariant, ReleaseInvariant, DieInvariant
<1> QED BY <1>1, <1>2, <1>3, <1>4, <1>5, <1>6 DEF Next

(* The inductive invariant: the ceilings, and that what went out stands in *)
(* the ledger at its own age until its window has passed, whoever waits,   *)
(* settles, gives back or dies (the transactions of cerebras_budget.py).   *)
THEOREM Invariant == Spec => []IInv
<1>1. Init => IInv
  BY InitInvariant
<1>2. IInv /\ [Next]_vars => IInv'
  BY StepInvariant
<1> QED BY <1>1, <1>2, PTL DEF Spec

(* The ledger's entries and readings, the callers' clocks and claims keep  *)
(* their types: no hold is longer than CEREBRAS_MAX_WAIT_SECONDS.          *)
THEOREM TypeCorrect == Spec => []TypeOK
<1>1. IInv => TypeOK
  BY DEF IInv
<1> QED BY <1>1, Invariant, PTL

(* The cap is hard (D-068): whatever the number of callers, the widths and *)
(* the settings, neither window sees more requests than its                *)
(* setting allows, but for those whose room was given back after they went *)
(* out.                                                                    *)
THEOREM HardCap == Spec => []CeilingHolds
<1>1. IInv => CeilingHolds
  BY DEF IInv
<1> QED BY <1>1, Invariant, PTL

-----------------------------------------------------------------------------
(* What a booking leaves *)

(* The booking is the one call of the new ledger that the old one may not  *)
(* have.                                                                   *)
LEMMA OneIsBooked ==
    ASSUME TypeOK, NEW c \in Caller, Book(c, Waits(c))
    PROVE  /\ Ledger(calls) /\ Ledger(calls') /\ seen' = seen
           /\ \A i \in DOMAIN calls' : IF i = claim[c] THEN calls'[i].tokens = need[c]
                                       ELSE i \in DOMAIN calls /\ calls'[i] = calls[i]
<1> DEFINE n == claim[c]
           x == [age |-> 0, tokens |-> need[c], hold |-> TRUE]
           f == With(calls, n, x)
<1>1. n \in Nat /\ x \in Call /\ Ledger(calls) /\ x.tokens = need[c]
  BY Widths DEF TypeOK, Call, Age, Ledger
<1>2. calls' = Prune(f) /\ seen' = seen
  BY DEF Book
<1> HIDE DEF x
<1>3. /\ Ledger(f) /\ DOMAIN f = DOMAIN calls \cup {n} /\ f[n] = x
      /\ \A i \in DOMAIN calls : i # n => f[i] = calls[i]
  <2> HIDE DEF n
  <2>1. Ledger(f)
    BY <1>1, Written
  <2>2. DOMAIN f = DOMAIN calls \cup {n} /\ f[n] = x
    BY DEF With
  <2>3. \A i \in DOMAIN calls : i # n => f[i] = calls[i]
    BY DEF With
  <2> QED BY <2>1, <2>2, <2>3
<1> HIDE DEF f
<1>4. Ledger(calls') /\ \A i \in DOMAIN calls' : i \in DOMAIN f /\ calls'[i] = f[i]
  BY <1>2, <1>3, Pruned
<1> QED BY <1>1, <1>2, <1>3, <1>4

(* What is counted after a booking, in a window or after a reading, is no  *)
(* more than what was, and the booking.                                    *)
LEMMA BookedCounts ==
    ASSUME TypeOK, NEW c \in Caller, Book(c, Waits(c)), NEW k \in Kind,
           NEW S \in SUBSET DOMAIN calls, NEW T \in SUBSET DOMAIN calls', T \subseteq S \cup {claim[c]}
    PROVE  /\ Charge(calls', k, T) <= Charge(calls, k, S) + Needs(c, k)
           /\ Charge(calls, k, S) \in Nat /\ Charge(calls', k, T) \in Nat
<1> DEFINE n == claim[c]
           x == Needs(c, k)
<1>1. Ledger(calls) /\ Ledger(calls')
  BY OneIsBooked
<1>2. \A i \in T : i # n => calls'[i] = calls[i]
  BY OneIsBooked
<1>3. x \in Nat /\ (k = "requests" => 1 <= x)
  BY DEF TypeOK, Needs
<1>4. n \in T => calls'[n].tokens <= x \/ k = "requests"
  <2>1. SUFFICES ASSUME n \in T, k # "requests" PROVE calls'[n].tokens <= x
    OBVIOUS
  <2>2. calls'[n].tokens = x
    BY <2>1, OneIsBooked DEF Needs
  <2> QED BY <2>2, <1>3
<1> HIDE DEF n, x
<1>5. T \subseteq S \cup {n}
  BY DEF n
<1>6. /\ Charge(calls', k, T) <= Charge(calls, k, S) + x
      /\ Charge(calls, k, S) \in Nat /\ Charge(calls', k, T) \in Nat
  BY <1>1, <1>2, <1>3, <1>4, <1>5, OneCallMore
<1> QED BY <1>6 DEF x

(* What the gate found left, less the booking, is left after it. *)
LEMMA BookLeavesRoom ==
    ASSUME IInv, NEW c \in Caller, Book(c, Waits(c)), TypeOK', NEW w \in Window, NEW k \in Kind
    PROVE  Remaining(w, k)' >= 0
<1> DEFINE x == Needs(c, k)
<1>1. TypeOK /\ Young /\ ~TooLarge(c) /\ Fits(Waits(c))
  BY DEF IInv, Book
<1>2. x <= Remaining(w, k) /\ x \in Nat
  BY <1>1, Room
<1>3. Ledger(calls') /\ seen' = seen /\ \A i \in DOMAIN calls' : i # claim[c] =>
            i \in DOMAIN calls /\ calls'[i] = calls[i]
  BY <1>1, OneIsBooked
<1>4. /\ Used(w, k)' <= Used(w, k) + x
      /\ Used(w, k)' \in Nat /\ Used(w, k) \in Nat
  <2>1. Inside(w)' \subseteq Inside(w) \cup {claim[c]}
    BY <1>3 DEF Inside
  <2>2. Inside(w) \in SUBSET DOMAIN calls /\ Inside(w)' \in SUBSET DOMAIN calls'
    BY DEF Inside
  <2>3. /\ Charge(calls', k, Inside(w)') <= Charge(calls, k, Inside(w)) + x
        /\ Charge(calls, k, Inside(w)) \in Nat /\ Charge(calls', k, Inside(w)') \in Nat
    BY <1>1, <2>1, <2>2, BookedCounts
  <2>4. Used(w, k) = Charge(calls, k, Inside(w)) /\ Used(w, k)' = Charge(calls', k, Inside(w)')
    BY DEF Used, Amount, Charge
  <2> QED BY <2>3, <2>4
<1>5. ASSUME Binding(w, k)
      PROVE  /\ Reported(w, k)' >= Reported(w, k) - x
             /\ Reported(w, k)' \in Int /\ Reported(w, k) \in Int
  <2> DEFINE p == <<w, k>>
             S == {n \in DOMAIN calls : n > seen[p].seq}
             T == {n \in DOMAIN calls' : n > seen[p].seq}
  <2>1. T \subseteq S \cup {claim[c]} /\ S \in SUBSET DOMAIN calls /\ T \in SUBSET DOMAIN calls'
    BY <1>3
  <2>2. Reported(w, k) = seen[p].left - Charge(calls, k, S)
    BY DEF Reported, Amount, Charge
  <2>3. Reported(w, k)' = seen[p].left - Charge(calls', k, T)
    BY <1>3 DEF Reported, Amount, Charge
  <2>4. seen[p].left \in Nat
    BY <1>1, <1>5 DEF Binding, TypeOK, Reading
  <2> HIDE DEF S, T, p
  <2>5. /\ Charge(calls', k, T) <= Charge(calls, k, S) + x
        /\ Charge(calls, k, S) \in Nat /\ Charge(calls', k, T) \in Nat
    BY <1>1, <2>1, BookedCounts
  <2> HIDE DEF x
  <2> QED BY <2>2, <2>3, <2>4, <2>5, <1>2
<1>6. Ceiling[w][k] \in Nat /\ Remaining(w, k) \in Int
      /\ Remaining(w, k) <= Ceiling[w][k] - Used(w, k)
  BY <1>1, Numbers
<1>7. Binding(w, k)' <=> Binding(w, k)
  BY <1>3 DEF Binding
<1>8. Binding(w, k) => Remaining(w, k) <= Reported(w, k)
  <2> SUFFICES ASSUME Binding(w, k) PROVE Remaining(w, k) <= Reported(w, k)
    OBVIOUS
  <2>1. Reported(w, k) \in Int
    BY <1>5
  <2> QED BY <2>1, <1>4, <1>6 DEF Remaining
<1> HIDE DEF x
<1>9. CASE Binding(w, k) /\ Reported(w, k)' < Ceiling[w][k] - Used(w, k)'
  <2>1. Remaining(w, k)' = Reported(w, k)'
    BY <1>7, <1>9 DEF Remaining
  <2> QED BY <2>1, <1>2, <1>5, <1>6, <1>8, <1>9
<1>10. CASE ~ (Binding(w, k) /\ Reported(w, k)' < Ceiling[w][k] - Used(w, k)')
  <2>1. Remaining(w, k)' = Ceiling[w][k] - Used(w, k)'
    BY <1>7, <1>10 DEF Remaining
  <2> QED BY <2>1, <1>2, <1>4, <1>6
<1> QED BY <1>9, <1>10

(* Only a booking lets a call out. *)
LEMMA OnlyBookingSends ==
    ASSUME TypeOK, Next, NEW c \in Caller, stage[c] = "trying", stage'[c] = "sent"
    PROVE  Book(c, Waits(c))
<1>1. ~Tick
  BY DEF Tick
<1>2. PICK d \in Caller : \/ \E e \in Estimate : Announce(d, e)
                          \/ Attempt(d) \/ Wake(d) \/ Cancel(d)
                          \/ \E x \in Cost, h \in Heard : Answer(d, x, h)
                          \/ Break(d) \/ Release(d) \/ Die(d)
  BY <1>1 DEF Next
<1>3. \E s \in Stage : Goes(d, s)
  BY <1>2 DEF Announce, Attempt, Book, Hold, Refuse, Wake, Cancel, Answer, Break, Release, Die, Ends, Stage
<1>4. d = c
  BY <1>3 DEF TypeOK, Goes
<1>5. Attempt(d)
  BY <1>2, <1>4 DEF TypeOK, Announce, Wake, Cancel, Answer, Break, Release, Die, Ends, Goes
<1>6. ~Hold(d, Waits(d)) /\ ~Refuse(d, Waits(d))
  BY <1>4 DEF TypeOK, Hold, Refuse, Goes
<1> QED BY <1>4, <1>5, <1>6 DEF Attempt

(* A call that is let through fits with all the ledger knows of, its       *)
(* tokens and the provider's readings included, whoever calls and whatever *)
(* the settings: the gate never asks for room, only for how long to wait   *)
(* (_compute, _relief), and the two come to the same.                      *)
THEOREM RoomAtTheGate == Spec => RoomWhenBooked
<1>1. ASSUME IInv, IInv', Next
      PROVE  \A c \in Caller : stage[c] = "trying" /\ stage'[c] = "sent" =>
                 \A w \in Window, k \in Kind : Remaining(w, k)' >= 0
  <2> SUFFICES ASSUME NEW c \in Caller, stage[c] = "trying", stage'[c] = "sent",
                      NEW w \in Window, NEW k \in Kind
               PROVE  Remaining(w, k)' >= 0
    OBVIOUS
  <2>1. Book(c, Waits(c)) /\ TypeOK'
    BY <1>1, OnlyBookingSends DEF IInv
  <2> QED BY <1>1, <2>1, BookLeavesRoom
<1>2. IInv /\ IInv' /\ [Next]_vars
        => [\A c \in Caller : stage[c] = "trying" /\ stage'[c] = "sent" =>
                \A w \in Window, k \in Kind : Remaining(w, k)' >= 0]_vars
  BY <1>1
<1> QED BY <1>2, Invariant, PTL DEF Spec, RoomWhenBooked
=============================================================================
