--------------------------- MODULE EmailQuotaProofs ---------------------------
(***************************************************************************)
(* SentStaysCharged: the counters always hold the units of every row that  *)
(* is queued or that SES took; and what that bounds.                       *)
(*                                                                         *)
(* The property compares two sums.  The first section proves what sums     *)
(* over finite sets do, by induction on the set: every non-empty set of    *)
(* subsets of a finite set has a minimal member.  Each row is then given a *)
(* weight, the units the counters must still hold for it, and no step adds *)
(* more to the weights than it adds to the counters.  Last, no counter     *)
(* passes the ceiling, so the ceilings bound what is queued and sent.      *)
(***************************************************************************)
EXTENDS EmailClaimProofs, FiniteSetTheorems

-----------------------------------------------------------------------------
(* Sums.                                                                    *)

(* The sum of f over a finite set, as the properties of EmailSend write it.  *)
Total(f, S) == MapThenSumSet(LAMBDA x : f[x], S)

(* A non-empty set of subsets of a finite set has a minimal one: the form of *)
(* induction the proofs below use.                                          *)
LEMMA MinimalSubset ==
  ASSUME NEW S, IsFiniteSet(S), NEW Q \in SUBSET SUBSET S, Q # {}
  PROVE  \E T \in Q : \A x \in T : T \ {x} \notin Q
<1>1. Q \subseteq FiniteSubsetsOf(S)  BY FS_FiniteSubsetsOfFinite
<1>2. IsWellFoundedOn(StrictSubsetOrdering(S), FiniteSubsetsOf(S))
  BY FS_StrictSubsetOrderingWellFounded
<1>3. PICK T \in Q : \A U \in Q : ~ (<<U, T>> \in StrictSubsetOrdering(S))
  BY <1>1, <1>2, WFMin
<1>4. \A x \in T : <<T \ {x}, T>> \in StrictSubsetOrdering(S)
  BY DEF StrictSubsetOrdering
<1> QED BY <1>3, <1>4

(* A non-empty set of numbers has a least one.                               *)
LEMMA LeastNumber ==
  ASSUME NEW Q \in SUBSET Nat, Q # {}
  PROVE  \E n \in Q : n - 1 \notin Q
<1>1. PICK m \in Q : TRUE  OBVIOUS
<1>2. IsFiniteSet(1..m)  BY FS_Interval
<1> DEFINE initials == {U \in SUBSET (1..m) : \E n \in Q : U = 1..n}
<1>3. 1..m \in initials /\ initials \in SUBSET SUBSET (1..m)  BY <1>1
<1> HIDE DEF initials
<1>4. PICK T \in initials : \A x \in T : T \ {x} \notin initials
  BY <1>2, <1>3, MinimalSubset
<1>5. PICK n \in Q : T = 1..n  BY <1>4 DEF initials
<1>6. ASSUME n - 1 \in Q PROVE FALSE
  <2>1. n \in T /\ T \ {n} = 1..(n - 1)  BY <1>5, <1>6
  <2>2. T \ {n} \in initials  BY <1>4, <1>6, <2>1 DEF initials
  <2> QED BY <1>4, <2>1, <2>2
<1> QED BY <1>6

Pick(s) == CHOOSE x \in s : TRUE

SumIter(f, g, D) ==
  g = [s \in D |-> IF s = {} THEN 0 ELSE f[Pick(s)] + g[s \ {Pick(s)}]]

LEMMA TotalDef ==
  ASSUME NEW f, NEW S
  PROVE  Total(f, S) = (CHOOSE g : SumIter(f, g, SUBSET S))[S]
BY DEF Total, MapThenSumSet, MapThenFoldSet, SumIter, Pick

Shallow(S, n) == {s \in SUBSET S : Cardinality(s) <= n}

LEMMA SmallerSet ==
  ASSUME NEW s, IsFiniteSet(s), s # {}
  PROVE  /\ Pick(s) \in s
         /\ Cardinality(s \ {Pick(s)}) = Cardinality(s) - 1
<1>1. Pick(s) \in s  BY DEF Pick
<1> QED BY <1>1, FS_RemoveElement

(* The function that MapThenSumSet iterates exists, one cardinality after    *)
(* the other.                                                               *)
LEMMA SumIterUpTo ==
  ASSUME NEW f, NEW S, IsFiniteSet(S), NEW n \in Nat
  PROVE  \E g : SumIter(f, g, Shallow(S, n))
<1> DEFINE bad == {m \in Nat : ~ \E g : SumIter(f, g, Shallow(S, m))}
<1>f. \A s \in SUBSET S : IsFiniteSet(s) /\ Cardinality(s) \in Nat
  BY FS_Subset, FS_CardinalityType
<1>1. ASSUME NEW m \in bad, m - 1 \notin bad PROVE FALSE
  <2>1. CASE m = 0
    <3>1. \A s \in Shallow(S, 0) : s = {}  BY <1>f, FS_EmptySet DEF Shallow
    <3>2. SumIter(f, [s \in Shallow(S, 0) |-> 0], Shallow(S, 0))
      BY <3>1 DEF SumIter
    <3> QED BY <1>1, <2>1, <3>2
  <2>2. CASE m # 0
    <3>1. PICK g : SumIter(f, g, Shallow(S, m - 1))  BY <1>1, <2>2
    <3> DEFINE h == [s \in Shallow(S, m) |->
                       IF s = {} THEN 0 ELSE f[Pick(s)] + g[s \ {Pick(s)}]]
    <3>2. ASSUME NEW s \in Shallow(S, m), s # {}
          PROVE  h[s \ {Pick(s)}] = g[s \ {Pick(s)}]
      <4> DEFINE u == s \ {Pick(s)}
      <4>1. u \in Shallow(S, m - 1) /\ u \in Shallow(S, m)
        BY <1>1, <1>f, <3>2, SmallerSet DEF Shallow
      <4>2. g[u] = IF u = {} THEN 0 ELSE f[Pick(u)] + g[u \ {Pick(u)}]
        BY <3>1, <4>1 DEF SumIter
      <4> HIDE DEF u
      <4>3. h[u] = g[u]  BY <4>1, <4>2
      <4> QED BY <4>3 DEF u
    <3>3. SumIter(f, h, Shallow(S, m))
      <4>1. \A s \in Shallow(S, m) :
              h[s] = IF s = {} THEN 0 ELSE f[Pick(s)] + h[s \ {Pick(s)}]
        BY <3>2
      <4>2. h = [s \in Shallow(S, m) |-> h[s]]  OBVIOUS
      <4> HIDE DEF h
      <4> QED BY <4>1, <4>2 DEF SumIter
    <3> QED BY <1>1, <3>3
  <2> QED BY <2>1, <2>2
<1> HIDE DEF bad
<1>2. bad = {}  BY <1>1, LeastNumber DEF bad
<1> QED BY <1>2 DEF bad

LEMMA SumIterExists ==
  ASSUME NEW f, NEW S, IsFiniteSet(S)
  PROVE  SumIter(f, CHOOSE g : SumIter(f, g, SUBSET S), SUBSET S)
<1>1. Cardinality(S) \in Nat /\ Shallow(S, Cardinality(S)) = SUBSET S
  BY FS_CardinalityType, FS_Subset DEF Shallow
<1>2. \E g : SumIter(f, g, SUBSET S)
  <2>1. \E g : SumIter(f, g, Shallow(S, Cardinality(S)))  BY <1>1, SumIterUpTo
  <2> QED BY <1>1, <2>1
<1> QED BY <1>2

(* A sum does not depend on the set its iteration started from.             *)
LEMMA SumIterAgrees ==
  ASSUME NEW f, NEW S, IsFiniteSet(S), NEW T \in SUBSET S, NEW g, NEW h,
         SumIter(f, g, SUBSET S), SumIter(f, h, SUBSET T)
  PROVE  g[T] = h[T]
<1> DEFINE bad == {U \in SUBSET T : g[U] # h[U]}
<1>1. ASSUME NEW U \in bad, \A x \in U : U \ {x} \notin bad PROVE FALSE
  <2>1. /\ g[U] = IF U = {} THEN 0 ELSE f[Pick(U)] + g[U \ {Pick(U)}]
        /\ h[U] = IF U = {} THEN 0 ELSE f[Pick(U)] + h[U \ {Pick(U)}]
    BY DEF SumIter
  <2>2. U # {} => Pick(U) \in U  BY DEF Pick
  <2> QED BY <1>1, <2>1, <2>2
<1>2. IsFiniteSet(T)  BY FS_Subset
<1>3. bad \in SUBSET SUBSET T  OBVIOUS
<1> HIDE DEF bad
<1>4. bad = {}  BY <1>1, <1>2, <1>3, MinimalSubset
<1> QED BY <1>4 DEF bad

LEMMA TotalEmpty == ASSUME NEW f PROVE Total(f, {}) = 0
<1>1. SumIter(f, CHOOSE g : SumIter(f, g, SUBSET {}), SUBSET {})
  BY SumIterExists, FS_EmptySet
<1> DEFINE g == CHOOSE g : SumIter(f, g, SUBSET {})
<1>2. Total(f, {}) = g[{}]  BY TotalDef
<1> HIDE DEF g
<1>3. SumIter(f, g, SUBSET {})  BY <1>1 DEF g
<1> QED BY <1>2, <1>3 DEF SumIter

LEMMA TotalPick ==
  ASSUME NEW f, NEW S, IsFiniteSet(S), S # {}
  PROVE  Total(f, S) = f[Pick(S)] + Total(f, S \ {Pick(S)})
<1> DEFINE T == S \ {Pick(S)}
           g == CHOOSE g : SumIter(f, g, SUBSET S)
           h == CHOOSE h : SumIter(f, h, SUBSET T)
<1>1. IsFiniteSet(T) /\ T \in SUBSET S  BY FS_Subset
<1>2. Total(f, S) = g[S] /\ Total(f, T) = h[T]  BY TotalDef
<1>3. SumIter(f, g, SUBSET S)  BY SumIterExists
<1>4. SumIter(f, h, SUBSET T)
  <2> HIDE DEF T
  <2> QED BY <1>1, SumIterExists
<1> HIDE DEF g, h
<1>5. g[S] = f[Pick(S)] + g[T]  BY <1>3 DEF SumIter
<1> HIDE DEF T
<1>6. g[T] = h[T]  BY <1>1, <1>3, <1>4, SumIterAgrees
<1> QED BY <1>2, <1>5, <1>6 DEF T

LEMMA TotalNat ==
  ASSUME NEW S, IsFiniteSet(S), NEW f, \A x \in S : f[x] \in Nat
  PROVE  Total(f, S) \in Nat
<1> DEFINE bad == {U \in SUBSET S : Total(f, U) \notin Nat}
<1>1. ASSUME NEW U \in bad, \A x \in U : U \ {x} \notin bad PROVE FALSE
  <2>1. U # {}  BY TotalEmpty
  <2>2. Total(f, U) = f[Pick(U)] + Total(f, U \ {Pick(U)}) /\ Pick(U) \in U
    <3>1. IsFiniteSet(U)  BY FS_Subset
    <3> QED BY <2>1, <3>1, TotalPick DEF Pick
  <2>3. f[Pick(U)] \in Nat /\ Total(f, U \ {Pick(U)}) \in Nat  BY <1>1, <2>2
  <2> QED BY <2>2, <2>3
<1>2. bad \in SUBSET SUBSET S  OBVIOUS
<1> HIDE DEF bad
<1>3. bad = {}  BY <1>1, <1>2, MinimalSubset
<1> QED BY <1>3 DEF bad

LEMMA TotalZero ==
  ASSUME NEW S, IsFiniteSet(S), NEW f, \A x \in S : f[x] = 0
  PROVE  Total(f, S) = 0
<1> DEFINE bad == {U \in SUBSET S : Total(f, U) # 0}
<1>1. ASSUME NEW U \in bad, \A x \in U : U \ {x} \notin bad PROVE FALSE
  <2>1. U # {}  BY TotalEmpty
  <2>2. Total(f, U) = f[Pick(U)] + Total(f, U \ {Pick(U)}) /\ Pick(U) \in U
    <3>1. IsFiniteSet(U)  BY FS_Subset
    <3> QED BY <2>1, <3>1, TotalPick DEF Pick
  <2>3. f[Pick(U)] = 0 /\ Total(f, U \ {Pick(U)}) = 0  BY <1>1, <2>2
  <2> QED BY <2>2, <2>3
<1>2. bad \in SUBSET SUBSET S  OBVIOUS
<1> HIDE DEF bad
<1>3. bad = {}  BY <1>1, <1>2, MinimalSubset
<1> QED BY <1>3 DEF bad

(* Equal terms, and the others nothing.                                     *)
LEMMA TotalFlat ==
  ASSUME NEW S, IsFiniteSet(S), NEW T \in SUBSET S, NEW c \in Nat, NEW f,
         \A x \in S : f[x] = IF x \in T THEN c ELSE 0
  PROVE  Total(f, S) = c * Cardinality(T)
<1> DEFINE bad == {U \in SUBSET S : Total(f, U) # c * Cardinality(T \cap U)}
<1>1. ASSUME NEW U \in bad, \A x \in U : U \ {x} \notin bad PROVE FALSE
  <2>1. IsFiniteSet(U) /\ IsFiniteSet(T \cap U)  BY FS_Subset
  <2>2. ASSUME U = {} PROVE FALSE
    <3>1. T \cap U = {}  BY <2>2
    <3>2. Cardinality(T \cap U) = 0  BY <3>1, FS_EmptySet
    <3>3. Total(f, U) = 0  BY <2>2, TotalEmpty
    <3> QED BY <3>2, <3>3
  <2> DEFINE x == Pick(U)
             V == U \ {x}
  <2>3. x \in U  BY <2>2 DEF Pick
  <2>4. Total(f, U) = f[x] + Total(f, V)  BY <2>1, <2>2, TotalPick
  <2>5. Total(f, V) = c * Cardinality(T \cap V)  BY <1>1, <2>3
  <2> HIDE DEF x
  <2>6. CASE x \in T
    <3>1. T \cap V = (T \cap U) \ {x}  OBVIOUS
    <3>2. /\ Cardinality(T \cap V) = Cardinality(T \cap U) - 1
          /\ Cardinality(T \cap U) \in Nat
      BY <2>1, <2>3, <2>6, <3>1, FS_RemoveElement, FS_CardinalityType
    <3>3. f[x] = c  BY <2>3, <2>6
    <3>4. c + c * (Cardinality(T \cap U) - 1) = c * Cardinality(T \cap U)  BY <3>2
    <3> QED BY <2>4, <2>5, <3>2, <3>3, <3>4
  <2>7. CASE x \notin T
    <3> DEFINE k == c * Cardinality(T \cap U)
    <3>1. T \cap V = T \cap U /\ f[x] = 0  BY <2>3, <2>7
    <3>2. k \in Nat
      <4>1. Cardinality(T \cap U) \in Nat  BY <2>1, FS_CardinalityType
      <4> QED BY <4>1
    <3>3. Total(f, V) = k  BY <2>5, <3>1
    <3>4. Total(f, U) # k  OBVIOUS
    <3> HIDE DEF k, V
    <3> QED BY <2>4, <3>1, <3>2, <3>3, <3>4
  <2> QED BY <2>6, <2>7
<1>2. bad \in SUBSET SUBSET S  OBVIOUS
<1> HIDE DEF bad
<1>3. bad = {}  BY <1>1, <1>2, MinimalSubset
<1>4. T \cap S = T  OBVIOUS
<1> QED BY <1>3, <1>4 DEF bad

(* Whichever element is taken out first.                                    *)
LEMMA TotalTake ==
  ASSUME NEW S, IsFiniteSet(S), NEW f, \A x \in S : f[x] \in Nat, NEW x \in S
  PROVE  Total(f, S) = f[x] + Total(f, S \ {x})
<1> DEFINE bad == {U \in SUBSET S : \E y \in U : Total(f, U) # f[y] + Total(f, U \ {y})}
<1>1. ASSUME NEW U \in bad, \A z \in U : U \ {z} \notin bad PROVE FALSE
  <2>1. PICK y \in U : Total(f, U) # f[y] + Total(f, U \ {y})  OBVIOUS
  <2> DEFINE c == Pick(U)
             both == (U \ {y}) \ {c}
  <2>2. c \in U /\ Total(f, U) = f[c] + Total(f, U \ {c})
    <3>1. IsFiniteSet(U)  BY FS_Subset
    <3> QED BY <3>1, TotalPick DEF Pick
  <2>3. y # c  BY <2>1, <2>2
  <2> HIDE DEF c
  <2>4. Total(f, U \ {c}) = f[y] + Total(f, (U \ {c}) \ {y})
    BY <1>1, <2>2, <2>3
  <2>5. Total(f, U \ {y}) = f[c] + Total(f, both)
    BY <1>1, <2>2, <2>3
  <2>6. (U \ {c}) \ {y} = both  OBVIOUS
  <2>7. f[c] \in Nat /\ f[y] \in Nat /\ Total(f, both) \in Nat
    <3>1. IsFiniteSet(both) /\ both \in SUBSET S  BY FS_Subset
    <3> QED BY <2>2, <3>1, TotalNat
  <2> HIDE DEF both
  <2> QED BY <2>1, <2>2, <2>4, <2>5, <2>6, <2>7
<1>2. bad \in SUBSET SUBSET S  OBVIOUS
<1> HIDE DEF bad
<1>3. bad = {}  BY <1>1, <1>2, MinimalSubset
<1> QED BY <1>3 DEF bad

(* More elements, each worth as much or more, are worth as much or more.    *)
LEMMA TotalMonotone ==
  ASSUME NEW S, IsFiniteSet(S), NEW T \in SUBSET S, NEW f, NEW g,
         \A x \in S : g[x] \in Nat, \A x \in T : f[x] \in Nat /\ f[x] <= g[x]
  PROVE  Total(f, T) <= Total(g, S)
<1> DEFINE bad == {U \in SUBSET S : ~ (Total(f, T \cap U) <= Total(g, U))}
<1>f. \A U \in SUBSET S : /\ IsFiniteSet(U) /\ IsFiniteSet(T \cap U)
                          /\ Total(f, T \cap U) \in Nat /\ Total(g, U) \in Nat
  <2> TAKE U \in SUBSET S
  <2>1. IsFiniteSet(U) /\ IsFiniteSet(T \cap U)  BY FS_Subset
  <2> QED BY <2>1, TotalNat
<1>1. ASSUME NEW U \in bad, \A x \in U : U \ {x} \notin bad PROVE FALSE
  <2>1. ASSUME U = {} PROVE FALSE
    <3>1. T \cap U = U  BY <2>1
    <3>2. Total(f, U) = 0 /\ Total(g, U) = 0  BY <2>1, TotalEmpty
    <3>3. ~ (Total(f, U) <= Total(g, U))  BY <3>1
    <3> QED BY <3>2, <3>3
  <2>2. PICK x \in U : TRUE  BY <2>1
  <2>3. Total(g, U) = g[x] + Total(g, U \ {x})  BY <1>f, TotalTake
  <2>4. Total(f, T \cap (U \ {x})) <= Total(g, U \ {x})  BY <1>1
  <2>5. CASE x \in T
    <3>1. Total(f, T \cap U) = f[x] + Total(f, (T \cap U) \ {x})
      BY <1>f, <2>5, TotalTake
    <3>2. (T \cap U) \ {x} = T \cap (U \ {x})  OBVIOUS
    <3> QED BY <1>f, <2>3, <2>4, <2>5, <3>1, <3>2
  <2>6. CASE x \notin T
    <3>1. T \cap U = T \cap (U \ {x})  BY <2>6
    <3> QED BY <1>f, <2>3, <2>4, <3>1
  <2> QED BY <2>5, <2>6
<1>2. bad \in SUBSET SUBSET S  OBVIOUS
<1> HIDE DEF bad
<1>3. bad = {}  BY <1>1, <1>2, MinimalSubset
<1>4. T \cap S = T  OBVIOUS
<1> QED BY <1>3, <1>4 DEF bad

(* A sum changes by what one of its terms changes by.                       *)
LEMMA TotalChange ==
  ASSUME NEW S, IsFiniteSet(S), NEW x \in S, NEW f, NEW g,
         \A y \in S : f[y] \in Nat /\ g[y] \in Nat,
         \A y \in S \ {x} : f[y] <= g[y]
  PROVE  Total(f, S) + g[x] <= Total(g, S) + f[x]
<1> DEFINE T == S \ {x}
<1>1. IsFiniteSet(T)  BY FS_Subset
<1>2. Total(f, S) = f[x] + Total(f, T) /\ Total(g, S) = g[x] + Total(g, T)
  BY TotalTake
<1>3. Total(f, T) <= Total(g, T)  BY <1>1, TotalMonotone
<1>4. Total(f, T) \in Nat /\ Total(g, T) \in Nat  BY <1>1, TotalNat
<1> HIDE DEF T
<1> QED BY <1>2, <1>3, <1>4
-----------------------------------------------------------------------------
(* What the counters must still hold for each row.                          *)

(* The rows the property counts, and those an attempt is at work on.        *)
Liable ==
  {e \in Emails : status[e] = "queued" \/ handed[e] > 0 \/ \E j \in Jobs : Holds(j, e)}

(* Between a release by the drain and its enqueue the row may be stripped,  *)
(* and the refund of a failed enqueue is of the units the drain reserved.   *)
Units(e) == IF moved[e] > rcpts[e] THEN moved[e] ELSE rcpts[e]

Weight == [e \in Emails |-> IF e \in Liable THEN Units(e) ELSE 0]

(* A row has a recipient from its accept on, so that the single unit given  *)
(* back for a stopped row is one of its own.                                *)
RowsCounted ==
  \A e \in Emails : IF status[e] = "none" THEN moved[e] = 0 ELSE rcpts[e] > 0

Charged == Total(Weight, Emails) <= Total(usage, Days)

QuotaInv == RowsCounted /\ Charged

(* No row becomes liable but by turning queued.                             *)
LEMMA LiableFrom ==
  ASSUME TypeOK, ClaimInv, [Next]_vars, NEW e \in Emails, e \in Liable'
  PROVE  e \in Liable \/ (status'[e] = "queued" /\ status[e] # "queued")
<1> SUFFICES ASSUME handed'[e] > 0 \/ \E j \in Jobs : Holds(j, e)'
             PROVE  e \in Liable
  BY DEF Liable
<1>1. CASE Quiet
  <2>1. handed'[e] = handed[e]  BY <1>1 DEF Quiet, QuietRow
  <2>2. \A k \in Jobs : Holds(k, e)' => Holds(k, e)
    BY <1>1 DEF Quiet, QuietJob, Holds, Claiming, ClaimPoints
  <2> QED BY <2>1, <2>2 DEF Liable
<1>2. ASSUME NEW j \in Jobs, NEW x \in Emails, Takes(j, x) PROVE e \in Liable
  <2>1. status[x] = "queued" /\ UNCHANGED handed  BY <1>2 DEF Takes, Open
  <2>2. \A k \in Jobs : Holds(k, e)' => Holds(k, e) \/ e = x
    BY <1>2 DEF Takes, Holds
  <2> QED BY <2>1, <2>2 DEF Liable
<1>3. ASSUME NEW j \in Jobs, NEW x \in Emails, HandsOver(j, x) PROVE e \in Liable
  <2>1. Holds(j, x) /\ \A y \in Emails \ {x} : handed'[y] = handed[y]
    BY <1>3 DEF HandsOver, TypeOK
  <2>2. \A k \in Jobs : Holds(k, e)' => Holds(k, e) \/ e = x
    BY <1>3 DEF HandsOver, Holds
  <2> QED BY <2>1, <2>2 DEF Liable
<1>4. ASSUME NEW j \in Jobs, NEW x \in Emails, GivesBack(j, x) PROVE e \in Liable
  <2>1. UNCHANGED handed  BY <1>4 DEF GivesBack
  <2>2. \A k \in Jobs : Holds(k, e)' => Holds(k, e)
    BY <1>4 DEF GivesBack, Holds
  <2> QED BY <2>1, <2>2 DEF Liable
<1> QED BY <1>1, <1>2, <1>3, <1>4, StepKinds

(* A row nobody has taken and that is not queued weighs nothing, and no     *)
(* attempt or event has to do with a row that is open.                      *)
LEMMA Untaken ==
  ASSUME TypeOK, ClaimInv, NEW e \in Emails,
         Open(e) \/ status[e] \in {"none", "queued_quota"}
  PROVE  /\ handed[e] = 0 /\ \A j \in Jobs : ~ Holds(j, e)
         /\ status[e] # "queued" => e \notin Liable
<1>1. ~ Committed(e)  BY OpenUncommitted
<1>2. handed[e] = 0 /\ \A j \in Jobs : ~ Holds(j, e)  BY <1>1 DEF ClaimInv
<1> QED BY <1>2 DEF Liable

LEMMA WeightsTyped ==
  ASSUME TypeOK, TypeOK'
  PROVE  \A e \in Emails : Weight[e] \in Nat /\ Weight'[e] \in Nat
<1> TAKE e \in Emails
<1>1. moved[e] \in Nat /\ rcpts[e] \in Nat /\ moved'[e] \in Nat /\ rcpts'[e] \in Nat
  BY SendAssumption DEF TypeOK
<1>2. Units(e) \in Nat /\ Units(e)' \in Nat  BY <1>1 DEF Units
<1>3. Weight[e] = (IF e \in Liable THEN Units(e) ELSE 0)  BY DEF Weight
<1>4. Weight'[e] = (IF e \in Liable' THEN Units(e)' ELSE 0)  BY DEF Weight
<1> QED BY <1>2, <1>3, <1>4

LEMMA DaysFinite == IsFiniteSet(Days)
BY FS_Interval, SendAssumption DEF Days

-----------------------------------------------------------------------------
(* The three kinds of step, by what they do to the rows and the counters.   *)

Same(e) == status'[e] = status[e] /\ rcpts'[e] = rcpts[e] /\ moved'[e] = moved[e]

(* A row that gets no heavier: it does not turn queued, and no unit is      *)
(* added to it unless it has just been parked by its accept.                *)
Lighter(e) ==
  \/ /\ status'[e] = "queued" => status[e] = "queued"
     /\ status'[e] = "none" <=> status[e] = "none"
     /\ rcpts'[e] <= rcpts[e] /\ (rcpts[e] > 0 => rcpts'[e] > 0)
     /\ moved'[e] <= moved[e]
  \/ status[e] = "none" /\ status'[e] = "queued_quota" /\ rcpts'[e] > 0

Keeps == UNCHANGED usage /\ \A e \in Emails : Lighter(e)

Charges(e) ==
  /\ status[e] \in {"none", "queued_quota"} /\ status'[e] = "queued"
  /\ rcpts'[e] > 0 /\ moved'[e] <= rcpts'[e]
  /\ \E day \in Days : /\ day <= today + 1 /\ Room(day, rcpts'[e])
                        /\ usage' = [usage EXCEPT ![day] = @ + rcpts'[e]]
  /\ \A x \in Emails \ {e} : Lighter(x)

Refunds(e) ==
  /\ Open(e) /\ status'[e] \notin {"none", "queued"} /\ rcpts'[e] = rcpts[e]
  /\ \E n \in Nat :
       /\ n <= Units(e)
       /\ usage' = [usage EXCEPT ![today] = IF @ >= n THEN @ - n ELSE 0]
  /\ \A x \in Emails \ {e} : Lighter(x)

LEMMA SameLighter ==
  ASSUME TypeOK, NEW e \in Emails, Same(e)
  PROVE  Lighter(e)
<1>1. rcpts[e] \in Nat /\ moved[e] \in Nat  BY SendAssumption DEF TypeOK
<1> QED BY <1>1 DEF Same, Lighter

LEMMA LighterWeight ==
  ASSUME TypeOK, TypeOK', ClaimInv, [Next]_vars, NEW e \in Emails, Lighter(e)
  PROVE  Weight'[e] <= Weight[e]
<1>1. moved[e] \in Nat /\ rcpts[e] \in Nat /\ moved'[e] \in Nat /\ rcpts'[e] \in Nat
  BY SendAssumption DEF TypeOK
<1>2. Weight[e] = (IF e \in Liable THEN Units(e) ELSE 0)  BY DEF Weight
<1>3. Weight'[e] = (IF e \in Liable' THEN Units(e)' ELSE 0)  BY DEF Weight
<1>4. Weight[e] \in Nat  BY WeightsTyped
<1>5. e \in Liable' => e \in Liable  BY LiableFrom DEF Lighter
<1>6. CASE status[e] = "none"
  <2>1. e \notin Liable  BY <1>6, Untaken
  <2> QED BY <1>3, <1>4, <1>5, <2>1
<1>7. CASE status[e] # "none"
  <2>1. rcpts'[e] <= rcpts[e] /\ moved'[e] <= moved[e]  BY <1>7 DEF Lighter
  <2>2. Units(e)' <= Units(e)  BY <1>1, <2>1 DEF Units
  <2> QED BY <1>2, <1>3, <1>4, <1>5, <2>2
<1> QED BY <1>6, <1>7

LEMMA LighterCounted ==
  ASSUME TypeOK, TypeOK', RowsCounted, NEW e \in Emails, Lighter(e)
  PROVE  IF status'[e] = "none" THEN moved'[e] = 0 ELSE rcpts'[e] > 0
<1>1. moved[e] \in Nat /\ moved'[e] \in Nat  BY SendAssumption DEF TypeOK
<1> QED BY <1>1 DEF Lighter, RowsCounted

LEMMA KeepsQuota ==
  ASSUME TypeOK, TypeOK', ClaimInv, [Next]_vars, QuotaInv, Keeps
  PROVE  QuotaInv'
<1>1. RowsCounted'  BY LighterCounted DEF Keeps, RowsCounted, QuotaInv
<1>2. \A e \in Emails : /\ Weight[e] \in Nat /\ Weight'[e] \in Nat
                        /\ Weight'[e] <= Weight[e]
  BY WeightsTyped, LighterWeight DEF Keeps
<1>3. IsFiniteSet(Emails)  BY SendAssumption
<1>4. Total(Weight', Emails) <= Total(Weight, Emails)
  BY <1>2, <1>3, TotalMonotone
<1>5. /\ Total(Weight', Emails) \in Nat /\ Total(Weight, Emails) \in Nat
      /\ Total(usage, Days) \in Nat
  BY <1>2, <1>3, TotalNat, DaysFinite DEF TypeOK
<1>6. Total(usage', Days) = Total(usage, Days)  BY DEF Keeps
<1>7. Total(Weight, Emails) <= Total(usage, Days)  BY DEF QuotaInv, Charged
<1>8. Total(Weight', Emails) <= Total(usage', Days)  BY <1>4, <1>5, <1>6, <1>7
<1> QED BY <1>1, <1>8 DEF QuotaInv, Charged

(* The sum of the weights moves by the change of one row at most.           *)
LEMMA WeightChange ==
  ASSUME TypeOK, TypeOK', ClaimInv, [Next]_vars, NEW e \in Emails,
         \A x \in Emails \ {e} : Lighter(x)
  PROVE  /\ Total(Weight', Emails) \in Nat /\ Total(Weight, Emails) \in Nat
         /\ Total(Weight', Emails) + Weight[e] <= Total(Weight, Emails) + Weight'[e]
<1>1. \A x \in Emails : Weight[x] \in Nat /\ Weight'[x] \in Nat  BY WeightsTyped
<1>2. \A x \in Emails \ {e} : Weight'[x] <= Weight[x]  BY LighterWeight
<1>3. IsFiniteSet(Emails)  BY SendAssumption
<1> QED BY <1>1, <1>2, <1>3, TotalNat, TotalChange

LEMMA UsageChange ==
  ASSUME TypeOK, TypeOK', NEW day \in Days, NEW n \in Int,
         usage' = [usage EXCEPT ![day] = n]
  PROVE  /\ Total(usage', Days) \in Nat /\ Total(usage, Days) \in Nat
         /\ Total(usage, Days) + n <= Total(usage', Days) + usage[day]
<1>1. \A d \in Days : usage[d] \in Nat /\ usage'[d] \in Nat  BY DEF TypeOK
<1>2. \A d \in Days \ {day} : usage[d] <= usage'[d]  BY <1>1 DEF TypeOK
<1>3. usage'[day] = n  BY DEF TypeOK
<1> QED BY <1>1, <1>2, <1>3, DaysFinite, TotalNat, TotalChange

LEMMA ChargesQuota ==
  ASSUME TypeOK, TypeOK', ClaimInv, [Next]_vars, QuotaInv, NEW e \in Emails, Charges(e)
  PROVE  QuotaInv'
<1>1. PICK day \in Days : usage' = [usage EXCEPT ![day] = @ + rcpts'[e]]
  BY DEF Charges
<1>2. usage[day] \in Nat /\ rcpts'[e] \in Nat /\ moved'[e] \in Nat
  BY SendAssumption DEF TypeOK
<1>3. RowsCounted'
  <2>1. \A x \in Emails \ {e} :
          IF status'[x] = "none" THEN moved'[x] = 0 ELSE rcpts'[x] > 0
    BY LighterCounted DEF Charges, QuotaInv
  <2>2. status'[e] # "none" /\ rcpts'[e] > 0  BY DEF Charges
  <2> QED BY <2>1, <2>2 DEF RowsCounted
<1>4. Weight[e] = 0
  <2>1. e \notin Liable  BY Untaken DEF Charges
  <2> QED BY <2>1 DEF Weight
<1>5. Weight'[e] = rcpts'[e]
  <2>1. e \in Liable'  BY DEF Charges, Liable
  <2>2. Units(e)' = rcpts'[e]  BY <1>2 DEF Charges, Units
  <2> QED BY <2>1, <2>2 DEF Weight
<1>6. /\ Total(Weight', Emails) \in Nat /\ Total(Weight, Emails) \in Nat
      /\ Total(Weight', Emails) + Weight[e] <= Total(Weight, Emails) + Weight'[e]
  BY WeightChange DEF Charges
<1>7. /\ Total(usage', Days) \in Nat /\ Total(usage, Days) \in Nat
      /\ Total(usage, Days) + (usage[day] + rcpts'[e]) <= Total(usage', Days) + usage[day]
  <2> DEFINE more == usage[day] + rcpts'[e]
  <2>1. more \in Int /\ usage' = [usage EXCEPT ![day] = more]  BY <1>1, <1>2
  <2> HIDE DEF more
  <2>2. /\ Total(usage', Days) \in Nat /\ Total(usage, Days) \in Nat
        /\ Total(usage, Days) + more <= Total(usage', Days) + usage[day]
    BY <2>1, UsageChange
  <2> QED BY <2>2 DEF more
<1>8. Total(Weight, Emails) <= Total(usage, Days)  BY DEF QuotaInv, Charged
<1>9. Total(Weight', Emails) <= Total(usage', Days)
  BY <1>2, <1>4, <1>5, <1>6, <1>7, <1>8
<1> QED BY <1>3, <1>9 DEF QuotaInv, Charged

(* The refund is of units the row no longer needs; where the counter of the *)
(* day is too low for it, less is given back.                               *)
LEMMA RefundsQuota ==
  ASSUME TypeOK, TypeOK', ClaimInv, [Next]_vars, QuotaInv, NEW e \in Emails, Refunds(e)
  PROVE  QuotaInv'
<1>1. PICK n \in Nat :
        /\ n <= Units(e)
        /\ usage' = [usage EXCEPT ![today] = IF @ >= n THEN @ - n ELSE 0]
  BY DEF Refunds
<1>2. today \in Days /\ usage[today] \in Nat  BY DEF TypeOK
<1>3. RowsCounted'
  <2>1. \A x \in Emails \ {e} :
          IF status'[x] = "none" THEN moved'[x] = 0 ELSE rcpts'[x] > 0
    BY LighterCounted DEF Refunds, QuotaInv
  <2>2. status'[e] # "none" /\ rcpts'[e] > 0
    BY DEF Refunds, QuotaInv, RowsCounted, Open
  <2> QED BY <2>1, <2>2 DEF RowsCounted
<1>4. Weight[e] = Units(e)
  <2>1. e \in Liable  BY DEF Refunds, Open, Liable
  <2> QED BY <2>1 DEF Weight
<1>5. Weight'[e] = 0
  <2>1. handed[e] = 0 /\ \A j \in Jobs : ~ Holds(j, e)  BY Untaken DEF Refunds
  <2>2. e \notin Liable'
    <3>1. QuietRow(e) /\ (\A j \in Jobs : ~ Holds(j, e)')
      <4>1. UNCHANGED status => FALSE  BY DEF Refunds, Open
      <4>2. Quiet
        BY <4>1, StepKinds DEF Takes, HandsOver, GivesBack
      <4> QED BY <2>1, <4>2 DEF Quiet, QuietJob, Holds, Claiming, ClaimPoints
    <3>2. handed'[e] = 0  BY <2>1, <3>1 DEF QuietRow
    <3> QED BY <3>1, <3>2 DEF Liable, Refunds
  <2> QED BY <2>2 DEF Weight
<1>6. /\ Total(Weight', Emails) \in Nat /\ Total(Weight, Emails) \in Nat
      /\ Total(Weight', Emails) + Weight[e] <= Total(Weight, Emails) + Weight'[e]
  BY WeightChange DEF Refunds
<1>7. Units(e) \in Nat  BY SendAssumption DEF TypeOK, Units
<1>8. Total(Weight, Emails) <= Total(usage, Days)  BY DEF QuotaInv, Charged
<1>9. Total(usage', Days) \in Nat /\ Total(usage, Days) <= Total(usage', Days) + n
  <2> DEFINE left == IF usage[today] >= n THEN usage[today] - n ELSE 0
  <2>1. left \in Int /\ left + n >= usage[today]  BY <1>2
  <2>2. usage' = [usage EXCEPT ![today] = left]  BY <1>1
  <2> HIDE DEF left
  <2>3. /\ Total(usage', Days) \in Nat /\ Total(usage, Days) \in Nat
        /\ Total(usage, Days) + left <= Total(usage', Days) + usage[today]
    BY <1>2, <2>1, <2>2, UsageChange
  <2> QED BY <1>2, <2>1, <2>3
<1>10. Total(usage, Days) \in Nat  BY DaysFinite, TotalNat DEF TypeOK
<1>11. Total(Weight', Emails) <= Total(usage', Days)
  BY <1>1, <1>4, <1>5, <1>6, <1>7, <1>8, <1>9, <1>10
<1> QED BY <1>3, <1>11 DEF QuotaInv, Charged

-----------------------------------------------------------------------------
(* Every step is of one of the three kinds.                                 *)

KnownKind == Keeps \/ \E e \in Emails : Charges(e) \/ Refunds(e)

LEMMA NothingKeeps ==
  ASSUME TypeOK, UNCHANGED << status, rcpts, moved, usage >>
  PROVE  Keeps
BY SameLighter DEF Keeps, Same

LEMMA OneStatus ==
  ASSUME TypeOK, NEW e \in Emails, NEW s, SetStatus(e, s)
  PROVE  status'[e] = s /\ \A x \in Emails \ {e} : status'[x] = status[x]
BY DEF SetStatus, TypeOK

(* A row that leaves the queue, or the park, for good.                      *)
LEMMA LeavesKeeps ==
  ASSUME TypeOK, NEW e \in Emails, NEW s \in {"canceled", "suppressed", "failed"},
         SetStatus(e, s), status[e] # "none", UNCHANGED << rcpts, moved, usage >>
  PROVE  Keeps
<1>1. status'[e] = s /\ \A x \in Emails \ {e} : status'[x] = status[x]
  BY OneStatus
<1>2. rcpts[e] \in Nat /\ moved[e] \in Nat  BY SendAssumption DEF TypeOK
<1>3. Lighter(e)  BY <1>1, <1>2 DEF Lighter
<1> QED BY <1>1, <1>3, SameLighter DEF Keeps, Same

LEMMA FailKeeps ==
  ASSUME TypeOK, NEW e \in Emails, FailQueuedEmail(e), UNCHANGED << rcpts, moved, usage >>
  PROVE  Keeps
<1>1. CASE status[e] = "queued"
  BY <1>1, LeavesKeeps DEF FailQueuedEmail
<1>2. CASE status[e] # "queued"
  BY <1>2, NothingKeeps DEF FailQueuedEmail
<1> QED BY <1>1, <1>2

(* A row moved by an attempt's result or an SES event.                      *)
LEMMA CasKeeps ==
  ASSUME TypeOK, NEW e \in Emails, NEW s \in Statuses, s # "queued", s # "none",
         status[e] # "none", ApplyStatusCas(e, s), UNCHANGED << rcpts, moved, usage >>
  PROVE  Keeps
<1>1. /\ status'[e] = status[e] \/ status'[e] = s
      /\ \A x \in Emails \ {e} : status'[x] = status[x]
  BY DEF ApplyStatusCas, TypeOK
<1>2. rcpts[e] \in Nat /\ moved[e] \in Nat  BY SendAssumption DEF TypeOK
<1>3. Lighter(e)  BY <1>1, <1>2 DEF Lighter
<1> QED BY <1>1, <1>3, SameLighter DEF Keeps, Same

(* What is given back with a park or a cancel is the row's own.             *)
LEMMA GivesUnitsBack ==
  ASSUME TypeOK, NEW e \in Emails, NEW n \in Nat, n <= Units(e), Open(e),
         NEW s \in {"queued_quota", "canceled"}, SetStatus(e, s), Refund(e, n),
         UNCHANGED rcpts, \A x \in Emails \ {e} : moved'[x] = moved[x]
  PROVE  Refunds(e)
<1>1. status'[e] = s /\ \A x \in Emails \ {e} : status'[x] = status[x]
  BY OneStatus
<1>2. usage' = [usage EXCEPT ![today] = IF @ >= n THEN @ - n ELSE 0]  BY DEF Refund
<1>3. \A x \in Emails \ {e} : Lighter(x)  BY <1>1, SameLighter DEF Same
<1> QED BY <1>1, <1>2, <1>3 DEF Refunds

LEMMA UnitsEnough ==
  ASSUME TypeOK, RowsCounted, NEW e \in Emails
  PROVE  /\ rcpts[e] \in Nat /\ moved[e] \in Nat
         /\ rcpts[e] <= Units(e) /\ moved[e] <= Units(e)
         /\ Open(e) => 1 <= Units(e)
<1>1. rcpts[e] \in Nat /\ moved[e] \in Nat  BY SendAssumption DEF TypeOK
<1>2. Open(e) => rcpts[e] > 0  BY DEF RowsCounted, Open
<1> QED BY <1>1, <1>2 DEF Units

LEMMA HandlerKinds ==
  ASSUME TypeOK, ClaimInv, RowsCounted, NEW j \in Jobs, HandlerStep(j)
  PROVE  KnownKind
<1> DEFINE e == job[j].email
<1>1. (\E pc \in Points : At(j, pc)) => e \in Emails  BY JobFields DEF At
<1>2. {"load", "check", "final", "claim", "claimed", "refused",
       "parking", "accepted", "recorded", "done"} \subseteq Points
  BY DEF Points
<1> HIDE DEF e
<1>3. CASE \/ Skip(j) \/ Defer(j) \/ Load(j) \/ Build(j) \/ PassFinal(j)
           \/ Claim(j) \/ GateClosed(j) \/ SesAccepts(j) \/ SesAnswerLost(j)
           \/ SesRefuses(j) \/ Release(j) \/ RecordMessageId(j) \/ Ack(j)
  <2>1. UNCHANGED << status, rcpts, moved, usage >>
    BY <1>3 DEF Skip, Defer, Load, Build, PassFinal, Claim, GateClosed, SesAccepts,
         SesAnswerLost, SesRefuses, Release, RecordMessageId, Ack,
         rowVars, quotaVars, pendVars
  <2> QED BY <2>1, NothingKeeps DEF KnownKind
<1>4. CASE Park(j) \/ ParkReleased(j)
  <2>1. e \in Emails  BY <1>1, <1>2, <1>4 DEF Park, ParkReleased, HoldSeen
  <2>2. ParkWithUnits(e, rcpts[e]) /\ UNCHANGED << rcpts, moved >>
    BY <1>4 DEF Park, ParkReleased, ParkQueued, pendVars, e
  <2>3. CASE Open(e)
    BY <2>1, <2>2, <2>3, UnitsEnough, GivesUnitsBack DEF ParkWithUnits, KnownKind
  <2>4. CASE ~ Open(e)
    BY <2>2, <2>4, NothingKeeps DEF ParkWithUnits, quotaVars, KnownKind
  <2> QED BY <2>3, <2>4
<1>5. CASE RefuseStopped(j)
  <2>1. e \in Emails  BY <1>1, <1>2, <1>5 DEF RefuseStopped, VerdictSeen
  <2>2. CancelQueuedEmail(e) /\ UNCHANGED << rcpts, moved >>
    BY <1>5 DEF RefuseStopped, pendVars, e
  <2>3. CASE Open(e)
    BY <2>1, <2>2, <2>3, UnitsEnough, GivesUnitsBack DEF CancelQueuedEmail, KnownKind
  <2>4. CASE ~ Open(e)
    BY <2>2, <2>4, NothingKeeps DEF CancelQueuedEmail, quotaVars, KnownKind
  <2> QED BY <2>3, <2>4
<1>6. CASE RefuseSuppressed(j)
  <2>1. e \in Emails  BY <1>1, <1>2, <1>6 DEF RefuseSuppressed, VerdictSeen
  <2>2. SuppressQueuedEmail(e) /\ UNCHANGED << rcpts, moved, usage >>
    BY <1>6 DEF RefuseSuppressed, pendVars, quotaVars, e
  <2>3. CASE Open(e)
    BY <2>1, <2>2, <2>3, LeavesKeeps DEF SuppressQueuedEmail, Open, KnownKind
  <2>4. CASE ~ Open(e)
    BY <2>2, <2>4, NothingKeeps DEF SuppressQueuedEmail, KnownKind
  <2> QED BY <2>3, <2>4
<1>7. CASE Strip(j)
  <2>1. e \in Emails  BY <1>1, <1>2, <1>7 DEF Strip, VerdictSeen
  <2>2. StripRecipients(e) /\ UNCHANGED << status, moved, usage >>
    BY <1>7 DEF Strip, pendVars, quotaVars, e
  <2>3. /\ rcpts'[e] <= rcpts[e] /\ (rcpts[e] > 0 => rcpts'[e] > 0)
        /\ \A x \in Emails \ {e} : rcpts'[x] = rcpts[x]
    BY <2>1, <2>2, SendAssumption DEF StripRecipients, TypeOK
  <2>4. moved[e] \in Nat  BY <2>1, SendAssumption DEF TypeOK
  <2>5. Lighter(e)  BY <2>1, <2>2, <2>3, <2>4 DEF Lighter
  <2> QED BY <2>2, <2>3, <2>5, SameLighter DEF Keeps, Same, KnownKind
<1>8. CASE FailUnsendable(j) \/ SesRejects(j)
  <2>1. e \in Emails  BY <1>1, <1>2, <1>8 DEF FailUnsendable, SesRejects
  <2>2. FailQueuedEmail(e) /\ UNCHANGED << rcpts, moved, usage >>
    BY <1>8 DEF FailUnsendable, SesRejects, pendVars, quotaVars, e
  <2> QED BY <2>1, <2>2, FailKeeps DEF KnownKind
<1>9. CASE RecordSent(j)
  <2>1. e \in Emails  BY <1>1, <1>2, <1>9 DEF RecordSent
  <2>2. Holds(j, e)  BY <1>9 DEF RecordSent, At, Holds, e
  <2>3. status[e] # "none"  BY <2>1, <2>2 DEF ClaimInv, Committed
  <2>4. ApplyStatusCas(e, "sent") /\ UNCHANGED << rcpts, moved, usage >>
    BY <1>9 DEF RecordSent, pendVars, quotaVars, e
  <2> QED BY <2>1, <2>3, <2>4, LadderStatuses, CasKeeps DEF KnownKind
<1> QED BY <1>3, <1>4, <1>5, <1>6, <1>7, <1>8, <1>9 DEF HandlerStep

LEMMA QueueKinds ==
  ASSUME TypeOK, NEW j \in Jobs, Queue(j)
  PROVE  KnownKind
<1>1. CASE Fetch(j) \/ Interrupt(j) \/ Expire(j)
  <2>1. UNCHANGED << status, rcpts, moved, usage >>
    BY <1>1 DEF Fetch, Interrupt, Expire, rowVars, quotaVars, pendVars
  <2> QED BY <2>1, NothingKeeps DEF KnownKind
<1>2. CASE DeadLetter(j)
  <2>1. job[j].email \in Emails  BY <1>2, JobFields DEF DeadLetter
  <2>2. FailQueuedEmail(job[j].email) /\ UNCHANGED << rcpts, moved, usage >>
    BY <1>2 DEF DeadLetter, quotaVars, pendVars
  <2> QED BY <2>1, <2>2, FailKeeps DEF KnownKind
<1> QED BY <1>1, <1>2 DEF Queue

(* With room an accept charges what it queues; without, it parks the row.   *)
LEMMA AcceptKinds ==
  ASSUME TypeOK, RowsCounted, NEW e \in Emails, Accept(e)
  PROVE  KnownKind
<1>1. PICK n \in 1..MaxRcpts, day \in {today, today + 1} :
        /\ day \in Days
        /\ rcpts' = [rcpts EXCEPT ![e] = n]
        /\ \/ SetStatus(e, "queued") /\ Charge(e, day, n) /\ Room(day, n)
           \/ SetStatus(e, "queued_quota") /\ UNCHANGED quotaVars
  BY DEF Accept
<1>2. status[e] = "none" /\ moved[e] = 0 /\ UNCHANGED moved
  BY DEF Accept, RowsCounted
<1>3. n > 0 /\ n \in Nat  BY SendAssumption
<1>4. rcpts'[e] = n /\ \A x \in Emails \ {e} : rcpts'[x] = rcpts[x]
  BY <1>1 DEF TypeOK
<1>5. CASE SetStatus(e, "queued") /\ Charge(e, day, n) /\ Room(day, n)
  <2>1. status'[e] = "queued" /\ \A x \in Emails \ {e} : status'[x] = status[x]
    BY <1>5, OneStatus
  <2>2. usage' = [usage EXCEPT ![day] = @ + rcpts'[e]]  BY <1>4, <1>5 DEF Charge
  <2>3. \A x \in Emails \ {e} : Lighter(x)
    BY <1>2, <1>4, <2>1, SameLighter DEF Same
  <2>4. \E d \in Days : /\ d <= today + 1 /\ Room(d, rcpts'[e])
                        /\ usage' = [usage EXCEPT ![d] = @ + rcpts'[e]]
    <3>1. day <= today + 1 /\ day \in Days  BY <1>1 DEF TypeOK, Days
    <3>2. Room(day, rcpts'[e])  BY <1>4, <1>5
    <3> QED BY <2>2, <3>1, <3>2, Zenon
  <2>5. rcpts'[e] > 0 /\ moved'[e] <= rcpts'[e]  BY <1>2, <1>3, <1>4
  <2>6. Charges(e)  BY <1>2, <2>1, <2>3, <2>4, <2>5 DEF Charges
  <2> QED BY <2>6 DEF KnownKind
<1>6. CASE SetStatus(e, "queued_quota") /\ UNCHANGED quotaVars
  <2>1. /\ status'[e] = "queued_quota"
        /\ \A x \in Emails \ {e} : status'[x] = status[x]
    BY <1>6, OneStatus
  <2>2. Lighter(e)  BY <1>2, <1>3, <1>4, <2>1 DEF Lighter
  <2>3. \A x \in Emails \ {e} : Lighter(x)
    BY <1>2, <1>4, <2>1, SameLighter DEF Same
  <2> QED BY <1>6, <2>2, <2>3 DEF quotaVars, Keeps, KnownKind
<1> QED BY <1>1, <1>5, <1>6

(* The drain is done with the row it released: enqueued, or died before.    *)
LEMMA UnmovedKeeps ==
  ASSUME TypeOK, NEW e \in Emails, moved' = [moved EXCEPT ![e] = 0],
         UNCHANGED << status, rcpts, usage >>
  PROVE  Keeps
<1>1. moved'[e] = 0 /\ \A x \in Emails \ {e} : moved'[x] = moved[x]
  BY DEF TypeOK
<1>2. rcpts[e] \in Nat /\ moved[e] \in Nat  BY SendAssumption DEF TypeOK
<1>3. Lighter(e)  BY <1>1, <1>2 DEF Lighter
<1> QED BY <1>1, <1>3, SameLighter DEF Keeps, Same

LEMMA CustomerKinds ==
  ASSUME TypeOK, RowsCounted, NEW e \in Emails, Customer(e)
  PROVE  KnownKind
<1>1. CASE Accept(e)  BY <1>1, AcceptKinds
<1>2. CASE EnqueueAccepted(e) \/ Reschedule(e)
  <2>1. UNCHANGED << status, rcpts, moved, usage >>
    BY <1>2 DEF EnqueueAccepted, Reschedule, rowVars, quotaVars, pendVars
  <2> QED BY <2>1, NothingKeeps DEF KnownKind
<1>3. CASE LoseEnqueue(e)
  <2>1. /\ UNCHANGED << status, rcpts, usage >>
        /\ UNCHANGED moved \/ moved' = [moved EXCEPT ![e] = 0]
    BY <1>3 DEF LoseEnqueue, rowVars, quotaVars
  <2> QED BY <2>1, NothingKeeps, UnmovedKeeps DEF KnownKind
<1>4. CASE Cancel(e)
  <2>1. /\ status[e] # "none" /\ SetStatus(e, "canceled")
        /\ UNCHANGED << rcpts, moved, usage >>
    BY <1>4 DEF Cancel, Unclaimed, Waiting, quotaVars, pendVars
  <2> QED BY <2>1, LeavesKeeps DEF KnownKind
<1> QED BY <1>1, <1>2, <1>3, <1>4 DEF Customer

LEMMA CronKinds ==
  ASSUME TypeOK, RowsCounted, NEW e \in Emails, Cron(e)
  PROVE  KnownKind
<1>1. CASE DrainRelease(e)
  <2>1. status[e] = "queued_quota" /\ rcpts[e] > 0
    BY <1>1 DEF DrainRelease, RowsCounted
  <2>2. status'[e] = "queued" /\ \A x \in Emails \ {e} : status'[x] = status[x]
    BY <1>1, OneStatus DEF DrainRelease
  <2>3. UNCHANGED rcpts /\ usage' = [usage EXCEPT ![today] = @ + rcpts'[e]]
    BY <1>1 DEF DrainRelease, Charge
  <2>4. moved'[e] = rcpts[e] /\ \A x \in Emails \ {e} : moved'[x] = moved[x]
    BY <1>1 DEF DrainRelease, TypeOK
  <2>5. rcpts[e] \in Nat /\ today \in Days  BY SendAssumption DEF TypeOK
  <2>6. \A x \in Emails \ {e} : Lighter(x)  BY <2>2, <2>3, <2>4, SameLighter DEF Same
  <2>7. \E d \in Days : /\ d <= today + 1 /\ Room(d, rcpts'[e])
                        /\ usage' = [usage EXCEPT ![d] = @ + rcpts'[e]]
    <3>1. today <= today + 1  BY <2>5 DEF Days
    <3>2. Room(today, rcpts'[e])  BY <1>1, <2>3 DEF DrainRelease
    <3> QED BY <2>3, <2>5, <3>1, <3>2, Zenon
  <2>8. rcpts'[e] > 0 /\ moved'[e] <= rcpts'[e]  BY <2>1, <2>3, <2>4, <2>5
  <2>9. Charges(e)  BY <2>1, <2>2, <2>6, <2>7, <2>8 DEF Charges
  <2> QED BY <2>9 DEF KnownKind
<1>2. CASE DrainEnqueue(e)
  BY <1>2, UnmovedKeeps DEF DrainEnqueue, rowVars, quotaVars, KnownKind
<1>3. CASE DrainEnqueueFails(e)
  <2>1. /\ moved' = [moved EXCEPT ![e] = 0] /\ UNCHANGED rcpts
        /\ ParkWithUnits(e, moved[e])
    BY <1>3 DEF DrainEnqueueFails
  <2>2. CASE Open(e)
    <3>1. \A x \in Emails \ {e} : moved'[x] = moved[x]  BY <2>1 DEF TypeOK
    <3>2. moved[e] \in Nat /\ moved[e] <= Units(e)  BY UnitsEnough
    <3>3. SetStatus(e, "queued_quota") /\ Refund(e, moved[e])
      BY <2>1, <2>2 DEF ParkWithUnits
    <3>4. Refunds(e)  BY <2>1, <2>2, <3>1, <3>2, <3>3, GivesUnitsBack
    <3> QED BY <3>4 DEF KnownKind
  <2>3. CASE ~ Open(e)
    BY <2>1, <2>3, UnmovedKeeps DEF ParkWithUnits, quotaVars, KnownKind
  <2> QED BY <2>2, <2>3
<1>4. CASE ReconcileRequeue(e)
  BY <1>4, NothingKeeps DEF ReconcileRequeue, rowVars, quotaVars, pendVars, KnownKind
<1> QED BY <1>1, <1>2, <1>3, <1>4 DEF Cron

LEMMA EnvironmentKinds ==
  ASSUME TypeOK, ClaimInv, NEW e \in Emails, Environment(e)
  PROVE  KnownKind
<1>1. CASE \/ \E v \in Refusals : Ineligible(e, v)
           \/ BecomeUnsendable(e) \/ ClaimAges(e) \/ ComesDue(e)
  <2>1. UNCHANGED << status, rcpts, moved, usage >>
    BY <1>1 DEF Ineligible, BecomeUnsendable, ClaimAges, ComesDue,
         rowVars, quotaVars, pendVars
  <2> QED BY <2>1, NothingKeeps DEF KnownKind
<1>2. ASSUME NEW s \in Reports, ProviderEvent(e, s) PROVE KnownKind
  <2>1. s \in Statuses /\ s # "queued" /\ s # "none"
    BY SendAssumption, LadderStatuses DEF ProviderStatuses
  <2>2. status[e] # "none"
    <3>1. handed[e] # 0  BY <1>2 DEF ProviderEvent, TypeOK
    <3> QED BY <3>1 DEF ClaimInv, Committed
  <2>3. ApplyStatusCas(e, s) /\ UNCHANGED << rcpts, moved, usage >>
    BY <1>2 DEF ProviderEvent, quotaVars, pendVars
  <2> QED BY <2>1, <2>2, <2>3, CasKeeps DEF KnownKind
<1> QED BY <1>1, <1>2 DEF Environment

(* What closes many rows at once closes none that nobody has accepted.      *)
LEMMA SweepKeeps ==
  ASSUME TypeOK, Operator \/ ReconcileInterrupted
  PROVE  Keeps
<1>1. UNCHANGED << rcpts, moved, usage >>
  BY DEF Operator, FailQueuedEmailsForDomain, CutTeamSendingAccess,
     ReconcileInterrupted, quotaVars, pendVars
<1>2. ASSUME NEW e \in Emails
      PROVE  \/ status'[e] = status[e]
             \/ status[e] # "none" /\ status'[e] \in {"failed", "canceled"}
  BY DEF Operator, FailQueuedEmailsForDomain, CutTeamSendingAccess, CloseUnclaimed,
     Unclaimed, Waiting, ReconcileInterrupted, Interrupted
<1>3. \A e \in Emails : rcpts[e] \in Nat /\ moved[e] \in Nat
  BY SendAssumption DEF TypeOK
<1> QED BY <1>1, <1>2, <1>3 DEF Keeps, Lighter

LEMMA NextKinds ==
  ASSUME TypeOK, ClaimInv, RowsCounted, [Next]_vars
  PROVE  KnownKind
<1>1. CASE ToggleHold \/ NextDay \/ UNCHANGED vars
  <2>1. UNCHANGED << status, rcpts, moved, usage >>
    BY <1>1 DEF ToggleHold, NextDay, vars, rowVars, quotaVars, pendVars
  <2> QED BY <2>1, NothingKeeps DEF KnownKind
<1>2. CASE Operator \/ ReconcileInterrupted
  BY <1>2, SweepKeeps DEF KnownKind
<1> QED
  BY <1>1, <1>2, HandlerKinds, QueueKinds, CustomerKinds, CronKinds, EnvironmentKinds
     DEF Next

-----------------------------------------------------------------------------
(* The counters hold the units of every row that is queued, that an attempt *)
(* is at work on or that SES took, and of a row the drain has released what *)
(* it reserved for it (quota.ts:62-122, cron.ts:410-470).                   *)
THEOREM QuotaHolds == Spec => []QuotaInv
<1>1. Init => QuotaInv
  <2> SUFFICES ASSUME Init PROVE QuotaInv
    OBVIOUS
  <2>1. RowsCounted  BY DEF Init, RowsCounted
  <2>2. \A e \in Emails : Weight[e] \in Nat /\ Weight[e] = 0
    BY DEF Init, Weight, Liable, Holds, NoJob
  <2>3. \A d \in Days : usage[d] \in Nat  BY DEF Init
  <2>4. IsFiniteSet(Emails)  BY SendAssumption
  <2>5. Total(Weight, Emails) = 0  BY <2>2, <2>4, TotalZero
  <2>6. Charged  BY <2>3, <2>5, TotalNat, DaysFinite DEF Charged
  <2> QED BY <2>1, <2>6 DEF QuotaInv
<1>2. TypeOK /\ TypeOK' /\ ClaimInv /\ QuotaInv /\ [Next]_vars => QuotaInv'
  BY NextKinds, KeepsQuota, ChargesQuota, RefundsQuota DEF KnownKind, QuotaInv
<1> QED
  BY <1>1, <1>2, TypeCorrect, ClaimHolds, PTL DEF Spec

(* However parks, drains and failed enqueues interleave, no refund credits  *)
(* the team for a send that happened or that is still to come               *)
(* (cron.ts:465-466).                                                       *)
THEOREM SentMailStaysCharged == Spec => []SentStaysCharged
<1>1. TypeOK /\ QuotaInv => SentStaysCharged
  <2> SUFFICES ASSUME TypeOK, QuotaInv PROVE SentStaysCharged
    OBVIOUS
  <2>1. \A e \in Emails : moved[e] \in Nat /\ rcpts[e] \in Nat
    BY SendAssumption DEF TypeOK
  <2>2. \A e \in Emails : Weight[e] \in Nat  BY <2>1 DEF Weight, Units
  <2>3. Spent \in SUBSET Emails /\ Spent \subseteq Liable  BY DEF Spent, Liable
  <2>4. \A e \in Spent : rcpts[e] \in Nat /\ rcpts[e] <= Weight[e]
    BY <2>1, <2>3 DEF Weight, Units
  <2>5. IsFiniteSet(Emails) /\ IsFiniteSet(Spent)
    BY <2>3, SendAssumption, FS_Subset
  <2>6. Total(rcpts, Spent) <= Total(Weight, Emails)
    BY <2>2, <2>3, <2>4, <2>5, TotalMonotone
  <2>7. Total(rcpts, Spent) \in Nat /\ Total(Weight, Emails) \in Nat
    BY <2>2, <2>4, <2>5, TotalNat
  <2>8. Total(usage, Days) \in Nat  BY DaysFinite, TotalNat DEF TypeOK
  <2>9. Total(rcpts, Spent) <= Total(usage, Days)
    BY <2>6, <2>7, <2>8 DEF QuotaInv, Charged
  <2> QED BY <2>9 DEF SentStaysCharged, Total
<1> QED
  BY <1>1, TypeCorrect, QuotaHolds, PTL

-----------------------------------------------------------------------------
(* What a plan of Ceiling a day bounds.                                     *)

(* No counter is over the ceiling, and none past tomorrow is in use.        *)
CountersInv == \A d \in Days : usage[d] <= Ceiling /\ (d > today + 1 => usage[d] = 0)

LEMMA TimePasses ==
  ASSUME TypeOK, [Next]_vars
  PROVE  today \in Nat /\ today' \in Nat /\ today <= today'
<1>1. today \in Nat  BY DEF TypeOK, Days
<1>2. ASSUME NEW j \in Jobs, HandlerStep(j) PROVE UNCHANGED today
  BY <1>2 DEF HandlerStep, Skip, Defer, Load, Park, RefuseStopped, RefuseSuppressed,
     Strip, FailUnsendable, Build, PassFinal, Claim, GateClosed, SesAccepts,
     SesAnswerLost, SesRefuses, SesRejects, Release, ParkReleased, RecordMessageId,
     RecordSent, Ack, envVars
<1>3. ASSUME NEW j \in Jobs, Queue(j) PROVE UNCHANGED today
  BY <1>3 DEF Queue, Fetch, Interrupt, Expire, DeadLetter, envVars
<1>4. ASSUME NEW e \in Emails, Customer(e) PROVE UNCHANGED today
  BY <1>4 DEF Customer, Accept, EnqueueAccepted, LoseEnqueue, Cancel, Reschedule, envVars
<1>5. ASSUME NEW e \in Emails, Cron(e) PROVE UNCHANGED today
  BY <1>5 DEF Cron, DrainRelease, DrainEnqueue, DrainEnqueueFails, ReconcileRequeue, envVars
<1>6. ASSUME NEW e \in Emails, Environment(e) PROVE UNCHANGED today
  BY <1>6 DEF Environment, Ineligible, BecomeUnsendable, ClaimAges, ComesDue,
     ProviderEvent, envVars
<1>7. CASE Operator \/ ReconcileInterrupted \/ ToggleHold
  BY <1>1, <1>7 DEF Operator, FailQueuedEmailsForDomain, CutTeamSendingAccess,
     ReconcileInterrupted, ToggleHold, envVars
<1>8. CASE NextDay  BY <1>1, <1>8 DEF NextDay
<1>9. CASE UNCHANGED vars  BY <1>1, <1>9 DEF vars
<1> QED
  BY <1>1, <1>2, <1>3, <1>4, <1>5, <1>6, <1>7, <1>8, <1>9 DEF Next

(* A counter grows by a reservation that finds room, and by nothing else.   *)
LEMMA CountersStep ==
  ASSUME TypeOK, ClaimInv, RowsCounted, CountersInv, [Next]_vars
  PROVE  CountersInv'
<1>1. today \in Nat /\ today' \in Nat /\ today <= today'  BY TimePasses
<1>2. \A d \in Days : d \in Nat /\ usage[d] \in Nat
  <2>1. \A d \in Days : d \in Nat  BY DEF Days
  <2>2. \A d \in Days : usage[d] \in Nat  BY DEF TypeOK
  <2> QED BY <2>1, <2>2
<1>3. CASE UNCHANGED usage  BY <1>1, <1>2, <1>3 DEF CountersInv
<1>4. ASSUME NEW e \in Emails, Charges(e) PROVE CountersInv'
  <2>1. PICK day \in Days : /\ day <= today + 1 /\ Room(day, rcpts'[e])
                            /\ usage' = [usage EXCEPT ![day] = @ + rcpts'[e]]
    BY <1>4 DEF Charges
  <2>2. usage'[day] = usage[day] + rcpts'[e]  BY <2>1 DEF TypeOK
  <2>3. \A d \in Days \ {day} : usage'[d] = usage[d]  BY <2>1 DEF TypeOK
  <2>4. usage'[day] <= Ceiling  BY <2>1, <2>2 DEF Room
  <2>5. ~ (day > today' + 1)  BY <1>1, <1>2, <2>1
  <2>6. \A d \in Days \ {day} : usage'[d] <= Ceiling /\ (d > today' + 1 => usage'[d] = 0)
    BY <1>1, <1>2, <2>3 DEF CountersInv
  <2> QED BY <2>4, <2>5, <2>6 DEF CountersInv
<1>5. ASSUME NEW e \in Emails, Refunds(e) PROVE CountersInv'
  <2>1. PICK n \in Nat :
          usage' = [usage EXCEPT ![today] = IF @ >= n THEN @ - n ELSE 0]
    BY <1>5 DEF Refunds
  <2>2. today \in Days /\ usage[today] \in Nat  BY DEF TypeOK
  <2>3. usage'[today] = (IF usage[today] >= n THEN usage[today] - n ELSE 0)
    BY <2>1, <2>2 DEF TypeOK
  <2>4. usage'[today] <= usage[today]  BY <2>2, <2>3
  <2>5. \A d \in Days \ {today} : usage'[d] = usage[d]  BY <2>1 DEF TypeOK
  <2>6. usage'[today] <= Ceiling
    <3>1. usage[today] <= Ceiling /\ usage'[today] \in Nat
      BY <2>2, <2>3 DEF CountersInv
    <3> QED BY <2>2, <2>4, <3>1, SendAssumption
  <2>7. ~ (today > today' + 1)
    <3>1. \A s, t \in Nat : s <= t => ~ (s > t + 1)  OBVIOUS
    <3> QED BY <1>1, <3>1
  <2>8. \A d \in Days \ {today} :
          usage'[d] <= Ceiling /\ (d > today' + 1 => usage'[d] = 0)
    BY <1>1, <1>2, <2>5 DEF CountersInv
  <2> QED BY <2>6, <2>7, <2>8 DEF CountersInv
<1> QED BY <1>3, <1>4, <1>5, NextKinds DEF KnownKind, Keeps

(* dailyCeiling does not bound what is accepted against a day, as the run   *)
(* "ceiling" shows of quota.ts:37.  What reserveDailyQuota (quota.ts:62-93) *)
(* does bound, in spite of every refund that goes to the wrong day: where   *)
(* no email is scheduled further than tomorrow, on day t (from 0) no more   *)
(* than t + 1 ceilings, and tomorrow's, have been sent or are queued.       *)
THEOREM PlanBoundsSends ==
  Spec => [](MapThenSumSet(LAMBDA e : rcpts[e], Spent) <= Ceiling * (today + 2))
<1>1. Init => CountersInv
  <2>1. \A d \in Days : d \in Nat  BY DEF Days
  <2> QED BY <2>1, SendAssumption DEF Init, CountersInv
<1>2. TypeOK /\ ClaimInv /\ QuotaInv /\ CountersInv /\ [Next]_vars => CountersInv'
  BY CountersStep DEF QuotaInv
<1>3. TypeOK /\ SentStaysCharged /\ CountersInv =>
        MapThenSumSet(LAMBDA e : rcpts[e], Spent) <= Ceiling * (today + 2)
  <2> SUFFICES ASSUME TypeOK, SentStaysCharged, CountersInv
               PROVE  Total(rcpts, Spent) <= Ceiling * (today + 2)
    BY DEF Total
  <2> DEFINE S == Days \cup 0..(today + 1)
             T == 0..(today + 1)
             cap == [d \in S |-> IF d \in T THEN Ceiling ELSE 0]
  <2>1. today \in Nat /\ Ceiling \in Nat  BY SendAssumption DEF TypeOK, Days
  <2>2. IsFiniteSet(T) /\ Cardinality(T) = today + 2
    BY <2>1, FS_Interval
  <2>3. IsFiniteSet(S) /\ T \in SUBSET S /\ Days \in SUBSET S
    BY <2>2, DaysFinite, FS_Union
  <2>4. \A d \in S : cap[d] = IF d \in T THEN Ceiling ELSE 0  OBVIOUS
  <2>5. \A d \in Days : usage[d] \in Nat /\ usage[d] <= cap[d]
    <3> SUFFICES ASSUME NEW d \in Days PROVE usage[d] \in Nat /\ usage[d] <= cap[d]
      OBVIOUS
    <3>1. usage[d] \in Nat /\ usage[d] <= Ceiling /\ (d > today + 1 => usage[d] = 0)
      BY DEF TypeOK, CountersInv
    <3>2. d \in T \/ d > today + 1  BY <2>1 DEF Days
    <3>3. d \in S  OBVIOUS
    <3> HIDE DEF T, S
    <3> QED BY <2>1, <3>1, <3>2, <3>3
  <2> HIDE DEF S, T, cap
  <2>6. Total(cap, S) = Ceiling * Cardinality(T)  BY <2>1, <2>3, <2>4, TotalFlat
  <2>7. \A d \in S : cap[d] \in Nat  BY <2>1, <2>4
  <2>8. Total(usage, Days) <= Total(cap, S)  BY <2>3, <2>5, <2>7, TotalMonotone
  <2>9. Total(rcpts, Spent) <= Total(usage, Days)  BY DEF SentStaysCharged, Total
  <2>10. /\ Total(rcpts, Spent) \in Nat /\ Total(usage, Days) \in Nat
         /\ Total(cap, S) \in Nat
    <3>1. Spent \in SUBSET Emails /\ IsFiniteSet(Spent)
      BY SendAssumption, FS_Subset DEF Spent
    <3>2. \A e \in Spent : rcpts[e] \in Nat  BY <3>1, SendAssumption DEF TypeOK
    <3> QED BY <2>3, <2>5, <2>7, <3>1, <3>2, TotalNat, DaysFinite
  <2> QED BY <2>2, <2>6, <2>8, <2>9, <2>10
<1> QED
  BY <1>1, <1>2, <1>3, TypeCorrect, ClaimHolds, QuotaHolds, SentMailStaysCharged, PTL
     DEF Spec
=============================================================================
