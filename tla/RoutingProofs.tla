---------------------------- MODULE RoutingProofs ----------------------------
(***************************************************************************)
(* Machine-checked proofs about RequestStatic and Routing, for any number  *)
(* of tasks and pods, any lengths, updates and policies.                   *)
(*                                                                         *)
(* As long as the activator lives and reports carry the rate of their      *)
(* task, the counts of every pod are exact, in any order of choosing,      *)
(* sending and reporting, and with any lost reports; that holds whatever   *)
(* policy reads them.  The read lock pins the trackers that a policy has   *)
(* drawn, and the round robin policy treats its pods alike.                *)
(***************************************************************************)
EXTENDS Routing, FiniteSetTheorems, FunctionTheorems, TLAPS

------------------------------------------------------------------------------
(* The sum of a function over a finite set, as MapThenSumSet computes it: one   *)
(* element is picked, and added to the sum of the others.  The induction is     *)
(* over the subsets of a finite set, by the well-foundedness of their order.    *)

Picked(s) == CHOOSE x \in s : TRUE

IsTotal(f, w, S) ==
  f = [s \in SUBSET S |-> IF s = {} THEN 0 ELSE w[Picked(s)] + f[s \ {Picked(s)}]]

Total(w, S) == (CHOOSE f : IsTotal(f, w, S))[S]

\* RatesumOutstanding is about such totals, before and after a step.
LEMMA RatesumTotals ==
  /\ RatesumOutstanding <=>
       (restarts = 0 => \A p \in Pod : ratesum[p] = Total(rate, Counted(p)))
  /\ RatesumOutstanding' <=>
       (restarts' = 0 => \A p \in Pod : ratesum'[p] = Total(rate', Counted(p)'))
<1>1. RatesumOutstanding <=> (restarts = 0 => \A p \in Pod : ratesum[p] = Total(rate, Counted(p)))
  BY DEF RatesumOutstanding, MapThenSumSet, MapThenFoldSet, Total, IsTotal, Picked
<1>2. RatesumOutstanding' <=>
        (restarts' = 0 => \A p \in Pod : ratesum'[p] = Total(rate', Counted(p)'))
  BY DEF RatesumOutstanding, MapThenSumSet, MapThenFoldSet, Total, IsTotal, Picked
<1>3. QED BY <1>1, <1>2

\* A set of finite sets that has T whenever it has the proper subsets of T has them all.
LEMMA SubsetInduction ==
  ASSUME NEW R, IsFiniteSet(R), NEW B \in SUBSET (SUBSET R),
         \A T \in SUBSET R : (\A s \in (SUBSET T) \ {T} : s \in B) => T \in B
  PROVE  B = SUBSET R
<1> SUFFICES ASSUME B # SUBSET R PROVE FALSE
  OBVIOUS
<1> DEFINE bad == (SUBSET R) \ B
<1>1. bad # {} /\ bad \subseteq FiniteSubsetsOf(R)
  BY FS_Subset DEF FiniteSubsetsOf
<1>2. IsWellFoundedOn(StrictSubsetOrdering(R), FiniteSubsetsOf(R))
  BY FS_StrictSubsetOrderingWellFounded
<1>3. PICK T \in bad : \A s \in bad : ~(<<s, T>> \in StrictSubsetOrdering(R))
  <2> HIDE DEF bad
  <2>1. QED BY <1>1, <1>2, WFMin
<1>4. \A s \in (SUBSET T) \ {T} : s \in B
  BY <1>3, FS_Subset DEF StrictSubsetOrdering, FiniteSubsetsOf
<1>5. QED BY <1>3, <1>4

\* The recursion has one solution.
LEMMA TotalsAgree ==
  ASSUME NEW w, NEW A, NEW B, NEW f, NEW g, IsTotal(f, w, A), IsTotal(g, w, B),
         NEW C, C \subseteq A, C \subseteq B, IsFiniteSet(C)
  PROVE  f[C] = g[C]
<1> DEFINE same == {s \in SUBSET C : f[s] = g[s]}
<1>1. ASSUME NEW T \in SUBSET C, \A s \in (SUBSET T) \ {T} : s \in same
      PROVE  T \in same
  <2> DEFINE x == Picked(T)
  <2>1. /\ f[T] = IF T = {} THEN 0 ELSE w[x] + f[T \ {x}]
        /\ g[T] = IF T = {} THEN 0 ELSE w[x] + g[T \ {x}]
    <3>1. T \in SUBSET A /\ T \in SUBSET B
      OBVIOUS
    <3>2. QED BY <3>1 DEF IsTotal
  <2>2. T # {} => x \in T
    BY DEF Picked
  <2>3. T # {} => f[T \ {x}] = g[T \ {x}]
    <3> SUFFICES ASSUME T # {} PROVE f[T \ {x}] = g[T \ {x}]
      OBVIOUS
    <3>1. T \ {x} \in (SUBSET T) \ {T}
      BY <2>2
    <3>2. T \ {x} \in same
      BY <1>1, <3>1
    <3>3. QED BY <3>2
  <2>4. QED BY <2>1, <2>3
<1>2. same \in SUBSET (SUBSET C)
  OBVIOUS
<1>3. C \in same
  <2> HIDE DEF same
  <2>1. same = SUBSET C
    BY <1>1, <1>2, SubsetInduction
  <2>2. QED BY <2>1
<1>4. QED BY <1>3

\* And it has one for every finite set.
LEMMA TotalExists ==
  ASSUME NEW w, NEW R, IsFiniteSet(R)
  PROVE  \A S \in SUBSET R : \E f : IsTotal(f, w, S)
<1> DEFINE solved == {S \in SUBSET R : \E f : IsTotal(f, w, S)}
           sum(S) == CHOOSE f : IsTotal(f, w, S)
<1>1. ASSUME NEW T \in SUBSET R, \A s \in (SUBSET T) \ {T} : s \in solved
      PROVE  T \in solved
  <2> DEFINE x(s) == Picked(s)
             body(s) == IF s = {} THEN 0 ELSE w[x(s)] + sum(s \ {x(s)})[s \ {x(s)}]
             f == [s \in SUBSET T |-> body(s)]
  <2>1. ASSUME NEW s \in (SUBSET T) \ {T}
        PROVE  IsTotal(sum(s), w, s)
    BY <1>1
  <2>2. ASSUME NEW s, s # {} PROVE x(s) \in s
    BY <2>2 DEF Picked
  <2>3. ASSUME NEW s \in (SUBSET T) \ {T}
        PROVE  f[s] = sum(s)[s]
    <3>1. sum(s)[s] = IF s = {} THEN 0 ELSE w[x(s)] + sum(s)[s \ {x(s)}]
      BY <2>1 DEF IsTotal
    <3>2. s # {} => sum(s)[s \ {x(s)}] = sum(s \ {x(s)})[s \ {x(s)}]
      <4> DEFINE rest == s \ {x(s)}
      <4> SUFFICES ASSUME s # {} PROVE sum(s)[rest] = sum(rest)[rest]
        OBVIOUS
      <4>1. rest \in (SUBSET T) \ {T} /\ rest \subseteq s
        BY <2>2
      <4>2. IsFiniteSet(rest)
        BY <4>1, FS_Subset
      <4> HIDE DEF rest, sum
      <4>3. IsTotal(sum(s), w, s) /\ IsTotal(sum(rest), w, rest)
        BY <2>1, <4>1
      <4>4. QED BY <4>1, <4>2, <4>3, TotalsAgree
    <3> HIDE DEF sum, x
    <3>3. QED BY <3>1, <3>2
  <2>4. ASSUME NEW s \in SUBSET T
        PROVE  f[s] = IF s = {} THEN 0 ELSE w[x(s)] + f[s \ {x(s)}]
    <3>1. s # {} => s \ {x(s)} \in (SUBSET T) \ {T}
      BY <2>2
    <3>2. s # {} => f[s \ {x(s)}] = sum(s \ {x(s)})[s \ {x(s)}]
      <4> HIDE DEF f, sum, x
      <4>1. QED BY <2>3, <3>1
    <3>3. f[s] = body(s)
      OBVIOUS
    <3> HIDE DEF sum, x, f
    <3>4. QED BY <3>2, <3>3
  <2>5. IsTotal(f, w, T)
    <3>1. f = [s \in SUBSET T |-> f[s]]
      OBVIOUS
    <3> HIDE DEF f
    <3>2. f = [s \in SUBSET T |-> IF s = {} THEN 0 ELSE w[x(s)] + f[s \ {x(s)}]]
      <4>1. \A s \in SUBSET T : f[s] = IF s = {} THEN 0 ELSE w[x(s)] + f[s \ {x(s)}]
        BY <2>4
      <4> HIDE DEF x
      <4>2. QED BY <3>1, <4>1
    <3>3. QED BY <3>2 DEF IsTotal
  <2> HIDE DEF f
  <2>6. QED BY <2>5
<1>2. solved \in SUBSET (SUBSET R)
  OBVIOUS
<1>3. solved = SUBSET R
  <2> HIDE DEF solved
  <2>1. QED BY <1>1, <1>2, SubsetInduction
<1>4. QED BY <1>3

\* What the sum is, whatever element is picked first.
LEMMA TotalPicks ==
  ASSUME NEW w, NEW S, IsFiniteSet(S)
  PROVE  Total(w, S) = IF S = {} THEN 0 ELSE w[Picked(S)] + Total(w, S \ {Picked(S)})
<1> DEFINE f(T) == CHOOSE g : IsTotal(g, w, T)
           rest == S \ {Picked(S)}
<1>1. IsTotal(f(S), w, S) /\ IsTotal(f(rest), w, rest)
  <2>1. S \in SUBSET S /\ rest \in SUBSET S
    OBVIOUS
  <2> HIDE DEF rest
  <2>2. (\E g : IsTotal(g, w, S)) /\ (\E g : IsTotal(g, w, rest))
    BY <2>1, TotalExists
  <2>3. QED BY <2>2
<1>2. f(S)[S] = IF S = {} THEN 0 ELSE w[Picked(S)] + f(S)[rest]
  <2> HIDE DEF f
  <2>1. QED BY <1>1 DEF IsTotal
<1>3. f(S)[rest] = f(rest)[rest]
  <2>1. rest \subseteq S /\ rest \subseteq rest /\ IsFiniteSet(rest)
    BY FS_Subset
  <2> HIDE DEF f, rest
  <2>2. QED BY <1>1, <2>1, TotalsAgree
<1>4. Total(w, S) = f(S)[S] /\ Total(w, rest) = f(rest)[rest]
  BY DEF Total
<1> HIDE DEF f
<1>5. QED BY <1>2, <1>3, <1>4

\* A total of naturals is one.
LEMMA TotalType ==
  ASSUME NEW R, IsFiniteSet(R), NEW w \in [R -> Nat]
  PROVE  \A S \in SUBSET R : Total(w, S) \in Nat
<1> DEFINE good == {S \in SUBSET R : Total(w, S) \in Nat}
<1>1. ASSUME NEW T \in SUBSET R, \A s \in (SUBSET T) \ {T} : s \in good
      PROVE  T \in good
  <2>1. IsFiniteSet(T)
    BY FS_Subset
  <2>2. Total(w, T) = IF T = {} THEN 0 ELSE w[Picked(T)] + Total(w, T \ {Picked(T)})
    BY <2>1, TotalPicks
  <2>3. T # {} => Picked(T) \in T /\ T \ {Picked(T)} \in (SUBSET T) \ {T}
    BY DEF Picked
  <2>4. QED BY <1>1, <2>2, <2>3
<1>2. good \in SUBSET (SUBSET R)
  OBVIOUS
<1>3. good = SUBSET R
  <2> HIDE DEF good
  <2>1. QED BY <1>1, <1>2, SubsetInduction
<1>4. QED BY <1>3

\* In whatever order the elements are picked, the total is the same.
LEMMA TotalRemoves ==
  ASSUME NEW R, IsFiniteSet(R), NEW w \in [R -> Nat]
  PROVE  \A S \in SUBSET R : \A a \in S : Total(w, S) = w[a] + Total(w, S \ {a})
<1> DEFINE good == {S \in SUBSET R : \A a \in S : Total(w, S) = w[a] + Total(w, S \ {a})}
<1>1. ASSUME NEW T \in SUBSET R, \A s \in (SUBSET T) \ {T} : s \in good
      PROVE  T \in good
  <2> SUFFICES ASSUME NEW a \in T PROVE Total(w, T) = w[a] + Total(w, T \ {a})
    OBVIOUS
  <2> DEFINE x == Picked(T)
             A == T \ {a}
             X == T \ {x}
             AX == X \ {a}
  <2>1. IsFiniteSet(T)
    BY FS_Subset
  <2>2. x \in T /\ Total(w, T) = w[x] + Total(w, X)
    <3>1. x \in T
      BY DEF Picked
    <3>2. QED BY <2>1, <3>1, TotalPicks
  <2>3. CASE x = a
    BY <2>2, <2>3
  <2>4. CASE x # a
    <3>1. /\ A \in SUBSET R /\ X \in SUBSET R /\ AX \in SUBSET R
          /\ A \in (SUBSET T) \ {T} /\ X \in (SUBSET T) \ {T}
          /\ a \in X /\ x \in A /\ A \ {x} = AX
      BY <2>2, <2>4
    <3>2. Total(w, X) = w[a] + Total(w, AX)
      BY <1>1, <3>1
    <3>3. Total(w, A) = w[x] + Total(w, AX)
      <4>1. Total(w, A) = w[x] + Total(w, A \ {x})
        BY <1>1, <3>1
      <4>2. QED BY <3>1, <4>1
    <3> HIDE DEF A, X, AX, x
    <3>4. w[a] \in Nat /\ w[x] \in Nat /\ Total(w, AX) \in Nat
      BY <2>2, <3>1, TotalType
    <3>5. Total(w, T) = w[a] + Total(w, A)
      BY <2>2, <3>2, <3>3, <3>4
    <3>6. QED BY <3>5 DEF A
  <2>5. QED BY <2>3, <2>4
<1>2. good \in SUBSET (SUBSET R)
  OBVIOUS
<1>3. good = SUBSET R
  <2> HIDE DEF good
  <2>1. QED BY <1>1, <1>2, SubsetInduction
<1>4. QED BY <1>3

\* Only the elements count.
LEMMA TotalSame ==
  ASSUME NEW S, IsFiniteSet(S), NEW w, NEW v, \A a \in S : w[a] = v[a]
  PROVE  Total(w, S) = Total(v, S)
<1> DEFINE good == {T \in SUBSET S : Total(w, T) = Total(v, T)}
<1>1. ASSUME NEW T \in SUBSET S, \A s \in (SUBSET T) \ {T} : s \in good
      PROVE  T \in good
  <2> DEFINE x == Picked(T)
  <2>1. IsFiniteSet(T)
    BY FS_Subset
  <2>2. /\ Total(w, T) = IF T = {} THEN 0 ELSE w[x] + Total(w, T \ {x})
        /\ Total(v, T) = IF T = {} THEN 0 ELSE v[x] + Total(v, T \ {x})
    BY <2>1, TotalPicks
  <2>3. T # {} => x \in S /\ T \ {x} \in (SUBSET T) \ {T}
    BY DEF Picked
  <2>4. QED BY <1>1, <2>2, <2>3
<1>2. good \in SUBSET (SUBSET S)
  OBVIOUS
<1>3. good = SUBSET S
  <2> HIDE DEF good
  <2>1. QED BY <1>1, <1>2, SubsetInduction
<1>4. QED BY <1>3

------------------------------------------------------------------------------
(* requestStatic *)

\* A non-empty set of group indices has a least element.
LEMMA LeastIndex ==
  ASSUME NEW S \in SUBSET (0 .. 9), S # {}
  PROVE  Min(S) \in S
<1>1. \E x \in S : \A y \in S : x <= y
  <2> DEFINE hasLeast(n) == S \subseteq n .. 9 => \E x \in S : \A y \in S : x <= y
  <2>1. hasLeast(9)
    <3>1. PICK m \in S : TRUE
      OBVIOUS
    <3>2. S \subseteq 9 .. 9 => m = 9 /\ \A y \in S : y = 9
      BY <3>1
    <3>3. QED BY <3>1, <3>2
  <2>2. hasLeast(8)
    BY <2>1
  <2>3. hasLeast(7)
    BY <2>2
  <2>4. hasLeast(6)
    BY <2>3
  <2>5. hasLeast(5)
    BY <2>4
  <2>6. hasLeast(4)
    BY <2>5
  <2>7. hasLeast(3)
    BY <2>6
  <2>8. hasLeast(2)
    BY <2>7
  <2>9. hasLeast(1)
    BY <2>8
  <2>10. hasLeast(0)
    BY <2>9
  <2>11. QED BY <2>10
<1>2. QED BY <1>1 DEF Min

\* real_world_support.go:186: a group index, or -1.
LEMMA GroupType ==
  ASSUME NEW x
  PROVE  GetGroupIndex(x) \in Group \cup {-1}
<1> DEFINE above == {i \in 0 .. 9 : JoblenEdge[i + 1] > x}
<1>1. above # {} => Min(above) \in above
  BY LeastIndex
<1>2. GetGroupIndex(x) = IF above = {} THEN -1 ELSE Min(above)
  BY DEF GetGroupIndex
<1>3. QED BY <1>1, <1>2 DEF Group

\* A report of any rate leaves the counts of its pod above zero.
LEMMA ReportTypes ==
  ASSUME TypeOK, SentToPod, NEW r \in Req, Report(r)
  PROVE  TypeOK'
<1> DEFINE d == dest[r]
           x == ReportedRate(r)
           k == GetGroupIndex(x)
           found == Discounts(d, x)
<1>1. d \in Pod /\ k \in Group \cup {-1} /\ x \in Nat
  <2>1. d \in Pod
    BY DEF SentToPod, Report
  <2>2. x \in Nat
    BY DEF TypeOK, ReportedRate
  <2>3. QED BY <2>1, <2>2, GroupType
<1>2. /\ reqs' = IF found THEN [reqs EXCEPT ![d][k] = @ - 1] ELSE reqs
      /\ ratesum' = IF found THEN [ratesum EXCEPT ![d] = @ - x] ELSE ratesum
      /\ jobnum' = IF found THEN [jobnum EXCEPT ![d] = @ - 1] ELSE jobnum
      /\ phase' = [phase EXCEPT ![r] = "reported"]
      /\ UNCHANGED <<known, rate, dest, restarts>>
  BY DEF Report, DelReqFromRS
<1>3. found <=> d \in known /\ k # -1 /\ reqs[d][k] > 0
  BY DEF Discounts
<1> HIDE DEF d, x, k, found
<1>4. found => k \in Group /\ reqs[d][k] - 1 \in Nat
  BY <1>1, <1>3 DEF TypeOK
<1>5. QED BY <1>1, <1>2, <1>4 DEF TypeOK

\* shared.go:96-119: AddReqToRS keeps the types.
LEMMA SendTypes ==
  ASSUME TypeOK, SentToPod, NEW r \in Req, Send(r)
  PROVE  TypeOK'
<1> DEFINE d == dest[r]
           k == GetGroupIndex(rate[r])
<1>1. d \in Pod /\ k \in Group \cup {-1} /\ rate[r] \in Nat
  <2>1. d \in Pod
    BY DEF SentToPod, Send
  <2>2. QED BY <2>1, GroupType DEF TypeOK
<1>2. /\ known' = known \cup {d}
      /\ reqs' = IF k = -1 THEN reqs ELSE [reqs EXCEPT ![d][k] = @ + 1]
      /\ ratesum' = IF k = -1 THEN ratesum ELSE [ratesum EXCEPT ![d] = @ + rate[r]]
      /\ jobnum' = IF k = -1 THEN jobnum ELSE [jobnum EXCEPT ![d] = @ + 1]
      /\ phase' = [phase EXCEPT ![r] = "executing"]
      /\ UNCHANGED <<rate, dest, restarts>>
  BY DEF Send, AddReqToRS
<1> HIDE DEF d, k
<1>3. QED BY <1>1, <1>2 DEF TypeOK

\* Every step keeps the types, and a chosen task has a pod.
LEMMA StepTypes ==
  ASSUME TypeOK, SentToPod, [Next]_vars
  PROVE  TypeOK' /\ SentToPod'
<1>1. ASSUME NEW r \in Req, Arrives(r) PROVE TypeOK' /\ SentToPod'
  <2>1. PICK x \in Rates[r] : rate' = [rate EXCEPT ![r] = x]
    BY <1>1 DEF Arrives
  <2>2. x \in Nat
    BY <2>1, RSAssumption
  <2>3. QED BY <1>1, <2>1, <2>2 DEF TypeOK, SentToPod, Arrives, rsVars
<1>2. ASSUME NEW r \in Req, NEW p \in Pod, Choose(r, p) PROVE TypeOK' /\ SentToPod'
  BY <1>2 DEF TypeOK, SentToPod, Choose, rsVars
<1>3. ASSUME NEW r \in Req, Send(r) PROVE TypeOK' /\ SentToPod'
  BY <1>3, SendTypes DEF TypeOK, SentToPod, Send
<1>4. ASSUME NEW r \in Req, Report(r) PROVE TypeOK' /\ SentToPod'
  BY <1>4, ReportTypes DEF TypeOK, SentToPod, Report
<1>5. ASSUME NEW r \in Req, EndUnreported(r) PROVE TypeOK' /\ SentToPod'
  BY <1>5 DEF TypeOK, SentToPod, EndUnreported, rsVars
<1>6. CASE Restart
  BY <1>6, RSAssumption DEF TypeOK, SentToPod, Restart
<1>7. CASE UNCHANGED vars
  BY <1>7 DEF TypeOK, SentToPod, vars, rsVars
<1>8. QED BY <1>1, <1>2, <1>3, <1>4, <1>5, <1>6, <1>7 DEF Next

\* The empty counts are exact.
LEMMA InitAccurate == Init => Accurate
<1> SUFFICES ASSUME Init PROVE Accurate
  OBVIOUS
<1>1. TypeOK
  BY RSAssumption DEF Init, TypeOK
<1>2. SentToPod /\ SentIsKnown
  BY DEF Init, SentToPod, SentIsKnown
<1>3. \A p \in Pod : /\ Outstanding(p) = {} /\ Counted(p) = {}
                     /\ \A g \in Group : InGroup(p, g) = {}
  BY DEF Init, Outstanding, Counted, InGroup
<1>4. CountsOutstanding
  BY <1>3, FS_EmptySet DEF Init, CountsOutstanding
<1>5. RatesumOutstanding
  <2>1. Total(rate, {}) = 0
    BY FS_EmptySet, TotalPicks
  <2>2. \A p \in Pod : ratesum[p] = 0
    BY DEF Init
  <2>3. QED BY <1>3, <2>1, <2>2, RatesumTotals
<1>6. QED BY <1>1, <1>2, <1>4, <1>5 DEF Accurate

\* Sets of tasks are finite.
LEMMA TasksFinite ==
  ASSUME NEW p, NEW g
  PROVE  IsFiniteSet(InGroup(p, g)) /\ IsFiniteSet(Counted(p))
<1>1. InGroup(p, g) \subseteq Req /\ Counted(p) \subseteq Req
  BY DEF InGroup, Counted, Outstanding
<1>2. QED BY <1>1, FS_Subset, RSAssumption

\* The sums stay while the same tasks are counted, of the same lengths.
LEMMA RatesumKept ==
  ASSUME Accurate, ratesum' = ratesum, restarts' = restarts,
         \A p \in Pod : Counted(p)' = Counted(p) /\ \A r \in Counted(p) : rate'[r] = rate[r]
  PROVE  RatesumOutstanding'
<1> SUFFICES ASSUME restarts = 0, NEW p \in Pod
             PROVE  ratesum[p] = Total(rate', Counted(p))
  BY RatesumTotals
<1>1. ratesum[p] = Total(rate, Counted(p))
  BY RatesumTotals DEF Accurate
<1>2. IsFiniteSet(Counted(p))
  BY TasksFinite
<1>3. \A r \in Counted(p) : rate[r] = rate'[r]
  OBVIOUS
<1>4. Total(rate, Counted(p)) = Total(rate', Counted(p))
  BY <1>2, <1>3, TotalSame
<1>5. QED BY <1>1, <1>4

\* A task that begins to look for a pod counts nothing.
LEMMA ArrivesAccurate ==
  ASSUME Accurate, NEW r \in Req, Arrives(r)
  PROVE  Accurate'
<1>1. PICK x \in Rates[r] : rate' = [rate EXCEPT ![r] = x]
  BY DEF Arrives
<1>3. TypeOK' /\ SentToPod'
  BY StepTypes DEF Accurate, Next
<1>4. SentIsKnown'
  BY DEF Accurate, TypeOK, SentIsKnown, Arrives, rsVars
<1>5. \A p \in Pod : /\ Counted(p)' = Counted(p)
                     /\ \A g \in Group : InGroup(p, g)' = InGroup(p, g)
  BY <1>1 DEF Accurate, TypeOK, Arrives, Outstanding, Counted, InGroup
<1>6. CountsOutstanding'
  BY <1>5 DEF Accurate, CountsOutstanding, Arrives, rsVars
<1>7. RatesumOutstanding'
  <2>1. \A p \in Pod : \A q \in Counted(p) : rate'[q] = rate[q]
    BY <1>1 DEF Accurate, TypeOK, Arrives, Outstanding, Counted
  <2>2. QED BY <1>5, <2>1, RatesumKept DEF Arrives, rsVars
<1>8. QED BY <1>3, <1>4, <1>6, <1>7 DEF Accurate

\* Choosing a pod, by whatever policy, counts nothing.
LEMMA ChooseAccurate ==
  ASSUME Accurate, NEW r \in Req, NEW p \in Pod, Choose(r, p)
  PROVE  Accurate'
<1>1. TypeOK' /\ SentToPod'
  BY StepTypes DEF Accurate, Next
<1>2. SentIsKnown'
  BY DEF Accurate, TypeOK, SentIsKnown, Choose, rsVars
<1>3. \A q \in Pod : /\ Counted(q)' = Counted(q)
                     /\ \A g \in Group : InGroup(q, g)' = InGroup(q, g)
  BY DEF Accurate, TypeOK, Choose, Outstanding, Counted, InGroup
<1>4. CountsOutstanding'
  BY <1>3 DEF Accurate, CountsOutstanding, Choose, rsVars
<1>5. RatesumOutstanding'
  BY <1>3, RatesumKept DEF Choose, rsVars
<1>6. QED BY <1>1, <1>2, <1>4, <1>5 DEF Accurate

\* A task that is sent is counted once, in its group and on its pod.
LEMMA SendAccurate ==
  ASSUME Accurate, NEW r \in Req, Send(r)
  PROVE  Accurate'
<1> DEFINE d == dest[r]
           k == GetGroupIndex(rate[r])
<1>1. d \in Pod /\ k \in Group \cup {-1} /\ rate[r] \in Int
  <2>1. d \in Pod
    BY DEF Accurate, SentToPod, Send
  <2>2. k \in Group \cup {-1}
    BY GroupType
  <2>3. rate[r] \in Nat
    BY DEF Accurate, TypeOK
  <2>4. QED BY <2>1, <2>2, <2>3
<1>2. /\ known' = known \cup {d}
      /\ reqs' = IF k = -1 THEN reqs ELSE [reqs EXCEPT ![d][k] = @ + 1]
      /\ ratesum' = IF k = -1 THEN ratesum ELSE [ratesum EXCEPT ![d] = @ + rate[r]]
      /\ jobnum' = IF k = -1 THEN jobnum ELSE [jobnum EXCEPT ![d] = @ + 1]
      /\ phase[r] = "chosen" /\ phase' = [phase EXCEPT ![r] = "executing"]
      /\ UNCHANGED <<rate, dest, restarts>>
  BY DEF Send, AddReqToRS
<1> HIDE DEF d, k
<1>3. TypeOK' /\ SentToPod'
  BY StepTypes DEF Accurate, Next
<1>4. SentIsKnown'
  BY <1>1, <1>2 DEF Accurate, TypeOK, SentIsKnown, d
<1>5. ASSUME NEW p \in Pod, NEW g \in Group
      PROVE  /\ InGroup(p, g)' = IF p = d /\ g = k THEN InGroup(p, g) \cup {r} ELSE InGroup(p, g)
             /\ r \notin InGroup(p, g)
  BY <1>2 DEF Accurate, TypeOK, InGroup, Outstanding, d, k
<1>6. ASSUME NEW p \in Pod
      PROVE  /\ Counted(p)' = IF p = d /\ k # -1 THEN Counted(p) \cup {r} ELSE Counted(p)
             /\ r \notin Counted(p)
  BY <1>2 DEF Accurate, TypeOK, Counted, Outstanding, d, k
<1>7. ASSUME restarts' = 0, NEW p \in Pod, NEW g \in Group
      PROVE  reqs'[p][g] = Cardinality(InGroup(p, g)')
  <2>1. reqs[p][g] = Cardinality(InGroup(p, g))
    BY <1>2, <1>7 DEF Accurate, CountsOutstanding
  <2>2. Cardinality(InGroup(p, g) \cup {r}) = Cardinality(InGroup(p, g)) + 1
    BY <1>5, TasksFinite, FS_AddElement
  <2>3. reqs'[p][g] = IF p = d /\ g = k THEN reqs[p][g] + 1 ELSE reqs[p][g]
    BY <1>1, <1>2 DEF Accurate, TypeOK, Group
  <2>4. QED BY <1>5, <2>1, <2>2, <2>3
<1>8. ASSUME restarts' = 0, NEW p \in Pod
      PROVE  jobnum'[p] = Cardinality(Counted(p)')
  <2>1. jobnum[p] = Cardinality(Counted(p))
    BY <1>2, <1>8 DEF Accurate, CountsOutstanding
  <2>2. Cardinality(Counted(p) \cup {r}) = Cardinality(Counted(p)) + 1
    BY <1>6, TasksFinite, FS_AddElement
  <2>3. jobnum'[p] = IF p = d /\ k # -1 THEN jobnum[p] + 1 ELSE jobnum[p]
    BY <1>1, <1>2 DEF Accurate, TypeOK
  <2>4. QED BY <1>6, <2>1, <2>2, <2>3
<1>9. CountsOutstanding'
  BY <1>7, <1>8 DEF CountsOutstanding
<1>10. ASSUME restarts' = 0, NEW p \in Pod
       PROVE  ratesum'[p] = Total(rate', Counted(p)')
  <2>1. ratesum[p] = Total(rate, Counted(p))
    BY <1>2, <1>10, RatesumTotals DEF Accurate
  <2>2. ratesum'[p] = IF p = d /\ k # -1 THEN ratesum[p] + rate[r] ELSE ratesum[p]
    BY <1>1, <1>2 DEF Accurate, TypeOK
  <2>3. Total(rate, Counted(p) \cup {r}) = rate[r] + Total(rate, Counted(p))
    <3> DEFINE S == Counted(p) \cup {r}
    <3>1. S \in SUBSET Req /\ r \in S /\ S \ {r} = Counted(p)
      BY <1>6 DEF Counted, Outstanding
    <3>2. rate \in [Req -> Nat]
      BY DEF Accurate, TypeOK
    <3> HIDE DEF S
    <3>3. Total(rate, S) = rate[r] + Total(rate, S \ {r})
      BY <3>1, <3>2, RSAssumption, TotalRemoves
    <3>4. QED BY <3>1, <3>3 DEF S
  <2>4. ratesum[p] \in Int
    BY DEF Accurate, TypeOK
  <2>5. rate' = rate /\ rate[r] \in Int
    BY <1>1, <1>2
  <2>6. CASE p = d /\ k # -1
    <3>1. Counted(p)' = Counted(p) \cup {r}
      BY <1>6, <2>6
    <3>2. Total(rate', Counted(p)') = rate[r] + ratesum[p]
      BY <2>1, <2>3, <2>5, <3>1
    <3>3. QED BY <2>2, <2>4, <2>5, <2>6, <3>2
  <2>7. CASE ~(p = d /\ k # -1)
    <3>1. Counted(p)' = Counted(p)
      BY <1>6, <2>7
    <3>2. QED BY <2>1, <2>2, <2>5, <2>7, <3>1
  <2>8. QED BY <2>6, <2>7
<1>11. RatesumOutstanding'
  BY <1>10, RatesumTotals
<1>12. QED BY <1>3, <1>4, <1>9, <1>11 DEF Accurate

\* A report discounts its own task, and never finds its group or pod missing.
LEMMA ReportAccurate ==
  ASSUME ReportsRate, Accurate, NEW r \in Req, Report(r)
  PROVE  Accurate'
<1> DEFINE d == dest[r]
           k == GetGroupIndex(rate[r])
           found == Discounts(d, rate[r])
<1>1. d \in Pod /\ k \in Group \cup {-1} /\ rate[r] \in Int
  <2>1. d \in Pod
    BY DEF Accurate, SentToPod, Report
  <2>2. k \in Group \cup {-1}
    BY GroupType
  <2>3. rate[r] \in Nat
    BY DEF Accurate, TypeOK
  <2>4. QED BY <2>1, <2>2, <2>3
<1>2. /\ reqs' = IF found THEN [reqs EXCEPT ![d][k] = @ - 1] ELSE reqs
      /\ ratesum' = IF found THEN [ratesum EXCEPT ![d] = @ - rate[r]] ELSE ratesum
      /\ jobnum' = IF found THEN [jobnum EXCEPT ![d] = @ - 1] ELSE jobnum
      /\ phase[r] = "executing" /\ phase' = [phase EXCEPT ![r] = "reported"]
      /\ UNCHANGED <<known, rate, dest, restarts>>
  BY DEF Report, DelReqFromRS, ReportedRate
<1>3. found <=> d \in known /\ k # -1 /\ reqs[d][k] > 0
  BY DEF Discounts
<1> HIDE DEF d, k, found
<1>4. TypeOK' /\ SentToPod'
  BY StepTypes DEF Accurate, Next
<1>5. SentIsKnown'
  BY <1>2 DEF Accurate, TypeOK, SentIsKnown
<1>6. ASSUME NEW p \in Pod, NEW g \in Group
      PROVE  /\ InGroup(p, g)' = InGroup(p, g) \ {r}
             /\ r \in InGroup(p, g) <=> p = d /\ g = k
  BY <1>2 DEF Accurate, TypeOK, InGroup, Outstanding, d, k
<1>7. ASSUME NEW p \in Pod
      PROVE  /\ Counted(p)' = Counted(p) \ {r}
             /\ r \in Counted(p) <=> p = d /\ k # -1
  BY <1>2 DEF Accurate, TypeOK, Counted, Outstanding, d, k
<1>8. ASSUME restarts = 0
      PROVE  found <=> k # -1
  <2>1. d \in known
    BY <1>2, <1>8 DEF Accurate, SentIsKnown, d
  <2>2. ASSUME k # -1 PROVE reqs[d][k] > 0
    <3>1. k \in Group /\ r \in InGroup(d, k)
      BY <1>1, <1>6, <2>2
    <3>2. Cardinality(InGroup(d, k)) \in Nat /\ Cardinality(InGroup(d, k)) # 0
      BY <3>1, TasksFinite, FS_CardinalityType, FS_EmptySet
    <3>3. QED BY <1>1, <1>8, <3>1, <3>2 DEF Accurate, CountsOutstanding
  <2>3. QED BY <1>3, <2>1, <2>2
<1>9. ASSUME restarts' = 0, NEW p \in Pod, NEW g \in Group
      PROVE  reqs'[p][g] = Cardinality(InGroup(p, g)')
  <2>1. reqs[p][g] = Cardinality(InGroup(p, g))
    BY <1>2, <1>9 DEF Accurate, CountsOutstanding
  <2>2. Cardinality(InGroup(p, g) \ {r}) =
          IF p = d /\ g = k THEN Cardinality(InGroup(p, g)) - 1 ELSE Cardinality(InGroup(p, g))
    BY <1>6, TasksFinite, FS_RemoveElement
  <2>3. found <=> k # -1
    BY <1>2, <1>8, <1>9
  <2>4. reqs'[p][g] = IF p = d /\ g = k THEN reqs[p][g] - 1 ELSE reqs[p][g]
    BY <1>1, <1>2, <2>3 DEF Accurate, TypeOK, Group
  <2>5. QED BY <1>6, <2>1, <2>2, <2>4
<1>10. ASSUME restarts' = 0, NEW p \in Pod
       PROVE  jobnum'[p] = Cardinality(Counted(p)')
  <2>1. jobnum[p] = Cardinality(Counted(p))
    BY <1>2, <1>10 DEF Accurate, CountsOutstanding
  <2>2. Cardinality(Counted(p) \ {r}) =
          IF p = d /\ k # -1 THEN Cardinality(Counted(p)) - 1 ELSE Cardinality(Counted(p))
    BY <1>7, TasksFinite, FS_RemoveElement
  <2>3. found <=> k # -1
    BY <1>2, <1>8, <1>10
  <2>4. jobnum'[p] = IF p = d /\ k # -1 THEN jobnum[p] - 1 ELSE jobnum[p]
    BY <1>1, <1>2, <2>3 DEF Accurate, TypeOK
  <2>5. QED BY <1>7, <2>1, <2>2, <2>4
<1>11. CountsOutstanding'
  BY <1>9, <1>10 DEF CountsOutstanding
<1>12. ASSUME restarts' = 0, NEW p \in Pod
       PROVE  ratesum'[p] = Total(rate', Counted(p)')
  <2>1. ratesum[p] = Total(rate, Counted(p))
    BY <1>2, <1>12, RatesumTotals DEF Accurate
  <2>2. found <=> k # -1
    BY <1>2, <1>8, <1>12
  <2>3. ratesum'[p] = IF p = d /\ k # -1 THEN ratesum[p] - rate[r] ELSE ratesum[p]
    BY <1>1, <1>2, <2>2 DEF Accurate, TypeOK
  <2>4. r \in Counted(p) =>
          /\ Total(rate, Counted(p)) = rate[r] + Total(rate, Counted(p) \ {r})
          /\ Total(rate, Counted(p) \ {r}) \in Nat
    <3>1. Counted(p) \in SUBSET Req /\ Counted(p) \ {r} \in SUBSET Req
      BY DEF Counted, Outstanding
    <3>2. rate \in [Req -> Nat]
      BY DEF Accurate, TypeOK
    <3>3. QED BY <3>1, <3>2, RSAssumption, TotalRemoves, TotalType
  <2>5. rate' = rate /\ rate[r] \in Int
    BY <1>1, <1>2
  <2>6. Counted(p)' = Counted(p) \ {r} /\ (r \in Counted(p) <=> p = d /\ k # -1)
    BY <1>7
  <2>7. CASE p = d /\ k # -1
    <3>1. Total(rate', Counted(p)') \in Nat /\ ratesum[p] = rate[r] + Total(rate', Counted(p)')
      BY <2>1, <2>4, <2>5, <2>6, <2>7
    <3>2. QED BY <2>3, <2>5, <2>7, <3>1
  <2>8. CASE ~(p = d /\ k # -1)
    <3>1. Counted(p)' = Counted(p)
      BY <2>6, <2>8
    <3>2. QED BY <2>1, <2>3, <2>5, <2>8, <3>1
  <2>9. QED BY <2>7, <2>8
<1>13. RatesumOutstanding'
  BY <1>12, RatesumTotals
<1>14. QED BY <1>4, <1>5, <1>11, <1>13 DEF Accurate

\* A task whose report is lost stays counted.
LEMMA EndUnreportedAccurate ==
  ASSUME Accurate, NEW r \in Req, EndUnreported(r)
  PROVE  Accurate'
<1>1. TypeOK' /\ SentToPod' /\ SentIsKnown'
  BY StepTypes DEF Accurate, TypeOK, SentIsKnown, EndUnreported, rsVars, Next
<1>2. \A p \in Pod : /\ Counted(p)' = Counted(p)
                     /\ \A g \in Group : InGroup(p, g)' = InGroup(p, g)
  BY DEF Accurate, TypeOK, EndUnreported, Outstanding, Counted, InGroup
<1>3. CountsOutstanding'
  BY <1>2 DEF Accurate, CountsOutstanding, EndUnreported, rsVars
<1>4. RatesumOutstanding'
  BY <1>2, RatesumKept DEF EndUnreported, rsVars
<1>5. QED BY <1>1, <1>3, <1>4 DEF Accurate

\* After a restart nothing is promised.
LEMMA RestartAccurate ==
  ASSUME Accurate, Restart
  PROVE  Accurate'
<1>1. TypeOK' /\ SentToPod'
  BY StepTypes DEF Accurate, Next
<1>2. restarts' # 0
  BY RSAssumption DEF Accurate, TypeOK, Restart
<1>3. QED BY <1>1, <1>2 DEF Accurate, SentIsKnown, CountsOutstanding, RatesumOutstanding

\* Every step keeps the counts exact.
LEMMA StepAccurate ==
  ASSUME ReportsRate
  PROVE  Accurate /\ [Next]_vars => Accurate'
<1> SUFFICES ASSUME Accurate, [Next]_vars PROVE Accurate'
  OBVIOUS
<1>1. ASSUME NEW r \in Req, Arrives(r) \/ Send(r) \/ \E p \in Pod : Choose(r, p) PROVE Accurate'
  BY <1>1, ArrivesAccurate, ChooseAccurate, SendAccurate
<1>2. ASSUME NEW r \in Req, Report(r) \/ EndUnreported(r) PROVE Accurate'
  BY <1>2, ReportAccurate, EndUnreportedAccurate
<1>3. CASE Restart
  BY <1>3, RestartAccurate
<1>4. CASE UNCHANGED vars
  <2>1. TypeOK' /\ SentToPod' /\ SentIsKnown'
    BY <1>4, StepTypes DEF vars, rsVars, Accurate, SentIsKnown
  <2>2. \A p \in Pod : /\ Counted(p)' = Counted(p)
                       /\ \A g \in Group : InGroup(p, g)' = InGroup(p, g)
    BY <1>4 DEF vars, Outstanding, Counted, InGroup
  <2>3. CountsOutstanding'
    BY <1>4, <2>2 DEF vars, rsVars, Accurate, CountsOutstanding
  <2>4. RatesumOutstanding'
    BY <1>4, <2>2, RatesumKept DEF vars, rsVars
  <2>5. QED BY <2>1, <2>3, <2>4 DEF Accurate
<1>5. QED BY <1>1, <1>2, <1>3, <1>4 DEF Next

\* shared.go: the counts keep their types, reqs never below zero, whatever is reported.
THEOREM CountsTypeCorrect == Spec => []TypeOK
<1>1. Init => TypeOK /\ SentToPod
  BY InitAccurate DEF Accurate
<1>2. TypeOK /\ SentToPod /\ [Next]_vars => TypeOK' /\ SentToPod'
  BY StepTypes
<1>3. QED BY <1>1, <1>2, PTL DEF Spec

\* shared.go:96-141: without a restart the counts of every pod are those of the tasks
\* it was sent and has not reported.
THEOREM CountsExact ==
  ASSUME ReportsRate
  PROVE  Spec => []CountsOutstanding
<1>1. Accurate => CountsOutstanding
  BY DEF Accurate
<1>2. QED BY <1>1, InitAccurate, StepAccurate, PTL DEF Spec

\* shared.go:116: and the sums of the lengths, on which the policies decide, are theirs.
THEOREM RatesumExact ==
  ASSUME ReportsRate
  PROVE  Spec => []RatesumOutstanding
<1>1. Accurate => RatesumOutstanding
  BY DEF Accurate
<1>2. QED BY <1>1, InitAccurate, StepAccurate, PTL DEF Spec

------------------------------------------------------------------------------
(* The read lock *)

\* The draws are trackers of the assigned list, and stay so while the policy looks.
Pinned ==
  /\ assigned \in SUBSET Pod /\ listed \in SUBSET Pod
  /\ phase \in [Req -> {"new", "looking", "chosen", "executing", "reported", "unreported", "dropped"}]
  /\ pair \in [Req -> (Pod \cup {Nil}) \X (Pod \cup {Nil})]
  /\ TargetsArePinned

\* Nobody looks.
LEMMA InitPinned == RoutingInit => Pinned
BY RoutingAssumption DEF RoutingInit, Init, Pinned, TargetsArePinned, NoPair

\* throttler.go:214: a task looks under the read lock, which it gets when no writer waits.
LEMMA BeginsPinned ==
  ASSUME Pinned, NEW r \in Req, BeginsToLook(r)
  PROVE  Pinned'
<1>1. PICK d \in IF policy \in RoundRobinPolicies THEN {NoPair} ELSE Drawn(assigned) :
        pair' = [pair EXCEPT ![r] = d]
  BY DEF BeginsToLook
<1>2. /\ d = NoPair \/ {d[1], d[2]} \subseteq assigned
      /\ d \in (Pod \cup {Nil}) \X (Pod \cup {Nil})
  BY <1>1 DEF NoPair, Drawn, Pinned
<1>3. /\ phase' = [phase EXCEPT ![r] = "looking"]
      /\ UNCHANGED <<assigned, listed>>
  BY DEF BeginsToLook, Arrives, updaterVars
<1>4. QED BY <1>1, <1>2, <1>3 DEF Pinned, TargetsArePinned, NoPair

\* throttler.go:326: the list is written under the write lock, when nobody looks.
LEMMA UpdatePinned ==
  ASSUME Pinned, UpdateArrives \/ handleUpdate
  PROVE  Pinned'
<1>1. CASE UpdateArrives \/ Publishes \/ LocksAgain
  <2>1. UNCHANGED <<phase, pair, assigned>>
    BY <1>1 DEF UpdateArrives, Publishes, LocksAgain, vars
  <2>2. listed' = listed \/ listed' \in Updates
    BY <1>1 DEF UpdateArrives, Publishes, LocksAgain
  <2>3. listed' \in SUBSET Pod
    BY <2>2, RoutingAssumption DEF Pinned
  <2>4. QED BY <2>1, <2>3 DEF Pinned, TargetsArePinned
<1>2. CASE Assigns
  BY <1>2 DEF Assigns, NoReaders, Pinned, TargetsArePinned, vars
<1>3. QED BY <1>1, <1>2 DEF handleUpdate

\* Every step keeps the draws pinned.
LEMMA StepPinned == Pinned /\ [RoutingNext]_routingVars => Pinned'
<1> SUFFICES ASSUME Pinned, [RoutingNext]_routingVars PROVE Pinned'
  OBVIOUS
<1>1. ASSUME NEW r \in Req, BeginsToLook(r) PROVE Pinned'
  BY <1>1, BeginsPinned
<1>2. ASSUME NEW r \in Req, AcquiresDest(r) PROVE Pinned'
  <2>1. /\ phase' = [phase EXCEPT ![r] = "chosen"]
        /\ pair' = [pair EXCEPT ![r] = NoPair]
        /\ UNCHANGED <<assigned, listed>>
    BY <1>2 DEF AcquiresDest, Choose, updaterVars
  <2>2. QED BY <2>1 DEF Pinned, TargetsArePinned, NoPair
<1>3. ASSUME NEW r \in Req, TaskSteps(r) PROVE Pinned'
  <2>1. PICK p \in {"executing", "reported", "unreported"} : phase' = [phase EXCEPT ![r] = p]
    BY <1>3 DEF TaskSteps, Send, Report, EndUnreported
  <2>2. UNCHANGED <<pair, assigned, listed>>
    BY <1>3 DEF TaskSteps, updaterVars
  <2>3. QED BY <2>1, <2>2 DEF Pinned, TargetsArePinned
<1>4. CASE UpdateArrives \/ handleUpdate
  BY <1>4, UpdatePinned
<1>5. CASE RoutingRestart
  BY <1>5, RoutingAssumption DEF RoutingRestart, Restart, Pinned, TargetsArePinned, NoPair
<1>6. CASE UNCHANGED routingVars
  BY <1>6 DEF routingVars, updaterVars, vars, Pinned, TargetsArePinned
<1>7. QED BY <1>1, <1>2, <1>3, <1>4, <1>5, <1>6 DEF RoutingNext

\* lb_policy.go:32: the list of targets is immutable while a policy looks at it, though
\* updates come at any time.
THEOREM ReadLockPinsTargets == RoutingSpec => []TargetsArePinned
<1>1. Pinned => TargetsArePinned
  BY DEF Pinned
<1>2. QED BY <1>1, InitPinned, StepPinned, PTL DEF RoutingSpec

\* Whatever policy chooses, the counts see a task that goes to one of the pods.
LEMMA CountsStep ==
  Pinned /\ [RoutingNext]_routingVars => [Next]_vars
<1> SUFFICES ASSUME Pinned, [RoutingNext]_routingVars PROVE [Next]_vars
  OBVIOUS
<1>1. ASSUME NEW r \in Req, AcquiresDest(r) PROVE Next
  <2>1. assigned \cup {pair[r][1], pair[r][2]} \subseteq Pod \cup {Nil}
    BY DEF Pinned
  <2>2. \E p \in Pod : Choose(r, p)
    BY <1>1, <2>1 DEF AcquiresDest
  <2>3. QED BY <2>2 DEF Next
<1>2. ASSUME NEW r \in Req, BeginsToLook(r) \/ TaskSteps(r) PROVE Next
  BY <1>2 DEF BeginsToLook, TaskSteps, Next
<1>3. CASE RoutingRestart
  BY <1>3 DEF RoutingRestart, Next
<1>4. CASE UpdateArrives \/ handleUpdate \/ UNCHANGED routingVars
  BY <1>4 DEF UpdateArrives, handleUpdate, Publishes, LocksAgain, Assigns, routingVars
<1>5. QED BY <1>1, <1>2, <1>3, <1>4 DEF RoutingNext

\* throttler.go:213-226 with lb_policy.go: routing uses the counts as RequestStatic
\* describes them, so what is proved of them holds of it.
THEOREM RoutingUsesTheCounts == RoutingSpec => Spec
<1>1. RoutingInit => Init
  BY DEF RoutingInit
<1>2. QED BY <1>1, InitPinned, StepPinned, CountsStep, PTL DEF RoutingSpec, Spec

\* shared.go:96-141: while the activator lives the counts of a pod are those of the tasks
\* it was sent and has not reported, under every policy.
THEOREM RoutingCountsExact ==
  ASSUME ReportsRate
  PROVE  RoutingSpec => []CountsOutstanding
BY RoutingUsesTheCounts, CountsExact, PTL
\* shared.go:116: under every policy, too, the sums of the lengths are exact.
THEOREM RoutingRatesumExact ==
  ASSUME ReportsRate
  PROVE  RoutingSpec => []RatesumOutstanding
BY RoutingUsesTheCounts, RatesumExact, PTL

------------------------------------------------------------------------------
(* The types of the policies, and the rounds of pureRoundRobinPolicy *)

Rank(S, a) == Cardinality({b \in S : b < a})

\* The rank of an address is its index in the sorted list.
LEMMA RankBijective ==
  ASSUME NEW S \in SUBSET Nat, IsFiniteSet(S)
  PROVE  /\ Cardinality(S) \in Nat
         /\ \A a \in S : Rank(S, a) \in 0 .. Cardinality(S) - 1
         /\ \A a, b \in S : Rank(S, a) = Rank(S, b) => a = b
         /\ \A i \in 0 .. Cardinality(S) - 1 : \E a \in S : Rank(S, a) = i
<1> DEFINE n == Cardinality(S)
           below(a) == {b \in S : b < a}
           rank == [a \in S |-> Rank(S, a)]
<1>1. n \in Nat
  BY FS_CardinalityType
<1>2. ASSUME NEW B \in SUBSET S, NEW A \in SUBSET B, A # B
      PROVE  Cardinality(A) \in Nat /\ Cardinality(B) \in Nat /\ Cardinality(A) < Cardinality(B)
  <2>1. IsFiniteSet(B) /\ IsFiniteSet(A)
    BY FS_Subset
  <2>2. Cardinality(A) <= Cardinality(B) /\ Cardinality(B) # Cardinality(A)
    BY <1>2, <2>1, FS_Subset
  <2>3. Cardinality(A) \in Nat /\ Cardinality(B) \in Nat
    BY <2>1, FS_CardinalityType
  <2>4. QED BY <2>2, <2>3
<1>3. ASSUME NEW a \in S
      PROVE  Rank(S, a) \in 0 .. n - 1
  <2> DEFINE A == below(a)
  <2>1. A \in SUBSET S /\ A # S
    OBVIOUS
  <2>2. Rank(S, a) = Cardinality(A)
    BY DEF Rank
  <2> HIDE DEF A
  <2>3. Cardinality(A) \in Nat /\ Cardinality(A) < Cardinality(S)
    BY <1>2, <2>1
  <2>4. QED BY <1>1, <2>2, <2>3
<1>4. \A a, b \in S : Rank(S, a) = Rank(S, b) => a = b
  <2>1. ASSUME NEW a \in S, NEW b \in S, a < b
        PROVE  Rank(S, a) < Rank(S, b)
    <3> DEFINE A == below(a)
               B == below(b)
    <3>1. A \in SUBSET B /\ B \in SUBSET S
      <4>1. ASSUME NEW x \in A PROVE x \in B
        <5>1. x \in Nat /\ a \in Nat /\ b \in Nat /\ x < a
          OBVIOUS
        <5>2. QED BY <2>1, <5>1
      <4>2. QED BY <4>1
    <3>2. a \in B /\ a \notin A
      BY <2>1
    <3>3. Rank(S, a) = Cardinality(A) /\ Rank(S, b) = Cardinality(B)
      BY DEF Rank
    <3> HIDE DEF A, B
    <3>4. A # B
      BY <3>2
    <3>5. Cardinality(A) < Cardinality(B)
      BY <1>2, <3>1, <3>4
    <3>6. QED BY <3>3, <3>5
  <2>2. ASSUME NEW a \in S, NEW b \in S, Rank(S, a) = Rank(S, b), a # b PROVE FALSE
    <3>1. a < b \/ b < a
      BY <2>2
    <3>2. Rank(S, a) \in Int /\ Rank(S, b) \in Int
      BY <1>3
    <3>3. QED BY <2>1, <2>2, <3>1, <3>2
  <2>3. QED BY <2>2
<1>5. rank \in Injection(S, 0 .. n - 1)
  BY <1>3, <1>4 DEF Injection, IsInjective
<1>6. IsFiniteSet(0 .. n - 1) /\ Cardinality(0 .. n - 1) = n
  <2> HIDE DEF n
  <2>1. 0 \in Int /\ n - 1 \in Int
    BY <1>1
  <2>2. /\ IsFiniteSet(0 .. n - 1)
        /\ Cardinality(0 .. n - 1) = IF 0 > n - 1 THEN 0 ELSE n - 1 - 0 + 1
    BY <2>1, FS_Interval
  <2>3. QED BY <1>1, <2>2
<1>7. rank \in Surjection(S, 0 .. n - 1)
  <2> DEFINE T == 0 .. n - 1
  <2>1. rank \in Injection(S, T) /\ IsFiniteSet(T) /\ Cardinality(T) = Cardinality(S)
    BY <1>5, <1>6
  <2> HIDE DEF T, rank
  <2>2. rank \in Surjection(S, T)
    BY <2>1, FS_Injection
  <2>3. QED BY <2>2 DEF T
<1>8. \A i \in 0 .. n - 1 : \E a \in S : Rank(S, a) = i
  BY <1>7 DEF Surjection
<1>9. QED BY <1>1, <1>3, <1>4, <1>8

\* The targets are a list without end, in the order of the addresses.
LEMMA Targets ==
  ASSUME assigned \in Updates, NEW i \in Nat
  PROVE  /\ Cardinality(assigned) \in Nat \ {0}
         /\ i % Cardinality(assigned) \in 0 .. Cardinality(assigned) - 1
         /\ Target(i) \in assigned /\ Rank(assigned, Target(i)) = i % Cardinality(assigned)
<1> DEFINE n == Cardinality(assigned)
<1>1. assigned \in SUBSET Nat /\ IsFiniteSet(assigned) /\ assigned # {}
  BY RoutingAssumption
<1>2. n \in Nat \ {0}
  BY <1>1, FS_CardinalityType, FS_EmptySet
<1>3. i % n \in 0 .. n - 1
  <2> HIDE DEF n
  <2>1. QED BY <1>2
<1>4. \E p \in assigned : Rank(assigned, p) = i % n
  BY <1>1, <1>3, RankBijective
<1>5. Target(i) = CHOOSE p \in assigned : Rank(assigned, p) = i % n
  BY DEF Target, Rank
<1>6. QED BY <1>2, <1>3, <1>4, <1>5

\* lb_policy.go:103: the index from which pureRoundRobinPolicy starts.
LEMMA StartType ==
  ASSUME assigned \in Updates, idx \in Nat
  PROVE  Start \in 0 .. Cardinality(assigned) - 1
<1>1. Cardinality(assigned) \in Nat \ {0}
  BY Targets
<1>2. QED BY <1>1 DEF Start

\* A started activator routes consistently.
LEMMA InitRouting == RoutingInit => RoutingInv
<1> SUFFICES ASSUME RoutingInit PROVE RoutingInv
  OBVIOUS
<1>1. TypeOK /\ SentToPod
  BY InitAccurate DEF RoutingInit, Accurate
<1>2. RoutingTypeOK /\ TargetsArePinned /\ ChosenOnce
  BY <1>1, RoutingAssumption DEF RoutingInit, Init, RoutingTypeOK, TargetsArePinned, ChosenOnce, NoPair
<1>3. RoundsAreEven
  <2>1. \A p \in assigned : SentTo(p) = {}
    BY RSAssumption, RoutingAssumption DEF RoutingInit, Init, SentTo
  <2>2. \A p \in assigned : ~Passed(p)
    <3>1. assigned \in SUBSET Nat /\ IsFiniteSet(assigned)
      BY RoutingAssumption DEF RoutingInit
    <3>2. \A p \in assigned : Rank(assigned, p) \in Nat
      BY <3>1, RankBijective
    <3>3. QED BY <3>2 DEF RoutingInit, Passed, Rank
  <2>3. 0 < Cardinality(assigned)
    BY <1>2, Targets DEF RoutingTypeOK
  <2>4. QED BY <2>1, <2>2, <2>3 DEF RoutingInit, RoundsAreEven
<1>4. QED BY <1>1, <1>2, <1>3 DEF RoutingInv

\* lb_policy.go:108-130: the pod that is next becomes one that the round has passed,
\* and a new round begins when all are.
LEMMA RoundGoesOn ==
  ASSUME RoutingInv, NEW r \in Req, AcquiresDest(r)
  PROVE  RoundsAreEven'
<1> SUFFICES ASSUME policy' = "pureRoundRobinPolicy", updates' = 0, restarts' = 0
             PROVE  /\ updater' = "idle" /\ idx' < Cardinality(assigned')
                    /\ \A p, q \in assigned' :
                         Cardinality(SentTo(p)') + (IF Passed(q)' THEN 1 ELSE 0) =
                           Cardinality(SentTo(q)') + (IF Passed(p)' THEN 1 ELSE 0)
  BY DEF RoundsAreEven
<1> DEFINE n == Cardinality(assigned)
<1>1. /\ policy = "pureRoundRobinPolicy" /\ updates = 0 /\ restarts = 0
      /\ phase[r] = "looking"
      /\ UNCHANGED <<assigned, updater>>
  BY DEF AcquiresDest, Choose, updaterVars
<1>2. /\ updater = "idle" /\ idx < n /\ idx \in Nat /\ assigned \in Updates
      /\ \A p, q \in assigned :
           Cardinality(SentTo(p)) + (IF Passed(q) THEN 1 ELSE 0) =
             Cardinality(SentTo(q)) + (IF Passed(p) THEN 1 ELSE 0)
  BY <1>1 DEF RoutingInv, RoutingTypeOK, RoundsAreEven
<1>3. n \in Nat \ {0} /\ assigned \in SUBSET Pod /\ assigned \in SUBSET Nat /\ IsFiniteSet(assigned)
  BY <1>2, Targets, RoutingAssumption
<1>4. Start = idx /\ idx \in 0 .. n - 1
  BY <1>2, <1>3 DEF Start
<1> DEFINE t == Target(idx)
<1>5. dest' = [dest EXCEPT ![r] = t] /\ idx' = (idx + 1) % n
  <2>1. PICK p : /\ Choose(r, p)
                 /\ \/ simpleRandomChoice2Policy(r, p)
                    \/ lateRandomChoice2Policy(r, p)
                    \/ pureRoundRobinPolicy(p)
                    \/ newRoundRobinPolicy(p)
    BY DEF AcquiresDest
  <2>2. pureRoundRobinPolicy(p)
    BY <1>1, <2>1 DEF simpleRandomChoice2Policy, lateRandomChoice2Policy, newRoundRobinPolicy,
                      EarlyPolicies, LatePolicy
  <2>3. QED BY <1>4, <2>1, <2>2 DEF pureRoundRobinPolicy, Choose
<1>6. t \in assigned /\ Rank(assigned, t) = idx
  <2>1. t \in assigned /\ Rank(assigned, t) = idx % n
    BY <1>2, Targets
  <2> HIDE DEF n, t
  <2>2. idx % n = idx
    BY <1>3, <1>4
  <2>3. QED BY <2>1, <2>2
<1>7. /\ \A p \in assigned : Rank(assigned, p) \in 0 .. n - 1 /\ (Rank(assigned, p) = idx => p = t)
      /\ \A p \in assigned : Passed(p) <=> Rank(assigned, p) < idx
      /\ \A p \in assigned : Passed(p)' <=> Rank(assigned, p) < idx'
  <2>1. \A p \in assigned : Passed(p)' <=> Rank(assigned, p) < idx'
    BY <1>1 DEF Passed, Rank
  <2>2. \A p \in assigned : Passed(p) <=> Rank(assigned, p) < idx
    BY DEF Passed, Rank
  <2>3. \A p \in assigned : Rank(assigned, p) \in 0 .. n - 1
    BY <1>3, RankBijective
  <2>4. \A p, q \in assigned : Rank(assigned, p) = Rank(assigned, q) => p = q
    BY <1>3, RankBijective
  <2> HIDE DEF n, t
  <2>5. QED BY <1>6, <2>1, <2>2, <2>3, <2>4
<1>8. ASSUME NEW p \in assigned
      PROVE  /\ Cardinality(SentTo(p)) \in Nat
             /\ Cardinality(SentTo(p)') = Cardinality(SentTo(p)) + (IF p = t THEN 1 ELSE 0)
  <2> DEFINE A == SentTo(p)
  <2>1. A \in SUBSET Req /\ r \notin A
    <3>1. dest[r] = Nil /\ p # Nil
      BY <1>1, <1>3, RSAssumption DEF RoutingInv, ChosenOnce
    <3>2. QED BY <3>1 DEF SentTo
  <2>2. SentTo(p)' = IF p = t THEN A \cup {r} ELSE A
    <3>1. dest \in [Req -> Pod \cup {Nil}]
      BY DEF RoutingInv, RoutingTypeOK, TypeOK
    <3> HIDE DEF t
    <3>2. QED BY <1>5, <2>1, <3>1 DEF SentTo
  <2> HIDE DEF A
  <2>3. IsFiniteSet(A)
    BY <2>1, RSAssumption, FS_Subset
  <2>4. Cardinality(A) \in Nat /\ Cardinality(A \cup {r}) = Cardinality(A) + 1
    BY <2>1, <2>3, FS_CardinalityType, FS_AddElement
  <2>5. QED BY <2>2, <2>4 DEF A
<1> HIDE DEF n, t
<1>9. idx' = IF idx + 1 = n THEN 0 ELSE idx + 1
  BY <1>3, <1>4, <1>5
<1>10. ASSUME NEW p \in assigned
       PROVE  IF idx + 1 = n THEN ~Passed(p)' /\ (Passed(p) <=> p # t)
              ELSE Passed(p)' <=> Passed(p) \/ p = t
  BY <1>3, <1>4, <1>6, <1>7, <1>9
<1>11. ~Passed(t)
  BY <1>4, <1>6, <1>7
<1>12. ASSUME NEW p \in assigned, NEW q \in assigned
       PROVE  Cardinality(SentTo(p)') + (IF Passed(q)' THEN 1 ELSE 0) =
                Cardinality(SentTo(q)') + (IF Passed(p)' THEN 1 ELSE 0)
  <2>1. Cardinality(SentTo(p)) + (IF Passed(q) THEN 1 ELSE 0) =
          Cardinality(SentTo(q)) + (IF Passed(p) THEN 1 ELSE 0)
    BY <1>2
  <2>2. QED BY <1>8, <1>10, <1>11, <2>1
<1>13. updater' = "idle" /\ idx' < Cardinality(assigned')
  BY <1>1, <1>2, <1>3, <1>4, <1>9 DEF n
<1>14. QED BY <1>1, <1>12, <1>13

\* lb_policy.go:94-141: the index of a round robin stays a number.
LEMMA IdxType ==
  ASSUME RoutingInv, NEW r \in Req, AcquiresDest(r)
  PROVE  idx' \in Nat
<1> DEFINE n == Cardinality(assigned)
<1>1. n \in Nat \ {0} /\ Start \in Nat /\ idx \in Nat
  BY Targets, StartType DEF RoutingInv, RoutingTypeOK
<1>2. idx' = idx \/ idx' = (Start + 1) % n \/ \E i \in 0 .. n - 1 : idx' = (Start + i + 1) % n
  BY DEF AcquiresDest, simpleRandomChoice2Policy, lateRandomChoice2Policy, pureRoundRobinPolicy,
         newRoundRobinPolicy
<1> HIDE DEF n
<1>3. \A m \in Nat : m % n \in Nat
  BY <1>1
<1>4. Start + 1 \in Nat /\ \A i \in 0 .. n - 1 : Start + i + 1 \in Nat
  BY <1>1
<1>5. QED BY <1>1, <1>2, <1>3, <1>4

\* The types of what the policies and the updates change.
LEMMA RoutingTypes ==
  ASSUME RoutingInv, TypeOK', Pinned', [RoutingNext]_routingVars
  PROVE  RoutingTypeOK'
<1>1. /\ policy \in EarlyPolicies \cup {LatePolicy} \cup RoundRobinPolicies
      /\ idx \in Nat /\ assigned \in Updates /\ listed \in Updates
      /\ updater \in {"idle", "publish", "published", "assign"} /\ updates \in 0 .. MaxUpdates
  BY DEF RoutingInv, RoutingTypeOK
<1>2. pair' \in [Req -> (Pod \cup {Nil}) \X (Pod \cup {Nil})]
  BY DEF Pinned
<1>3. policy' = policy
  BY DEF RoutingNext, BeginsToLook, AcquiresDest, TaskSteps, UpdateArrives, handleUpdate, Publishes,
         LocksAgain, Assigns, RoutingRestart, routingVars
<1>4. idx' \in Nat
  <2>1. ASSUME ~\E r \in Req : AcquiresDest(r) PROVE idx' = idx \/ idx' = 0
    BY <2>1 DEF RoutingNext, BeginsToLook, TaskSteps, UpdateArrives, handleUpdate, Publishes,
                LocksAgain, Assigns, RoutingRestart, routingVars
  <2>2. QED BY <1>1, <2>1, IdxType
<1>5. assigned' \in Updates /\ listed' \in Updates
  BY <1>1 DEF RoutingNext, BeginsToLook, AcquiresDest, TaskSteps, UpdateArrives, handleUpdate,
              Publishes, LocksAgain, Assigns, RoutingRestart, routingVars, updaterVars
<1>6. /\ updater' \in {"idle", "publish", "published", "assign"}
      /\ updates' = updates \/ (updates < MaxUpdates /\ updates' = updates + 1)
  <2>1. CASE UpdateArrives
    BY <2>1 DEF UpdateArrives
  <2>2. CASE ~UpdateArrives
    <3>1. UNCHANGED updates /\ (UNCHANGED updater \/ updater' \in {"published", "assign", "idle"})
      BY <2>2 DEF RoutingNext, BeginsToLook, AcquiresDest, TaskSteps, handleUpdate,
                  Publishes, LocksAgain, Assigns, RoutingRestart, routingVars, updaterVars
    <3>2. QED BY <1>1, <3>1
  <2>3. QED BY <2>1, <2>2
<1>7. updates' \in 0 .. MaxUpdates
  BY <1>1, <1>6, RoutingAssumption
<1>8. QED BY <1>1, <1>2, <1>3, <1>4, <1>5, <1>6, <1>7 DEF RoutingTypeOK

\* Every other step leaves the rounds as they are, or ends what is promised of them.
LEMMA RoundsKept ==
  ASSUME RoutingInv, [RoutingNext]_routingVars, ~\E r \in Req : AcquiresDest(r)
  PROVE  RoundsAreEven'
<1>1. restarts \in Nat /\ updates \in Nat
  BY RSAssumption, RoutingAssumption DEF RoutingInv, RoutingTypeOK, TypeOK
<1>2. ASSUME UNCHANGED <<policy, idx, assigned, updater, updates, dest, restarts>>
      PROVE  RoundsAreEven'
  <2>1. \A p \in assigned : SentTo(p)' = SentTo(p) /\ (Passed(p)' <=> Passed(p))
    BY <1>2 DEF SentTo, Passed
  <2>2. QED BY <1>2, <2>1 DEF RoutingInv, RoundsAreEven
<1>3. ASSUME NEW r \in Req, BeginsToLook(r) \/ TaskSteps(r) PROVE RoundsAreEven'
  BY <1>2, <1>3 DEF BeginsToLook, Arrives, TaskSteps, Send, Report, EndUnreported, updaterVars
<1>4. CASE UNCHANGED routingVars
  BY <1>2, <1>4 DEF routingVars, vars, updaterVars
<1>5. CASE UpdateArrives
  <2>1. updates' # 0
    BY <1>1, <1>5 DEF UpdateArrives
  <2>2. QED BY <2>1 DEF RoundsAreEven
<1>6. CASE handleUpdate
  <2>1. updater # "idle" /\ UNCHANGED <<policy, updates, restarts>>
    BY <1>6 DEF handleUpdate, Publishes, LocksAgain, Assigns, vars
  <2>2. QED BY <2>1 DEF RoutingInv, RoundsAreEven
<1>7. CASE RoutingRestart
  <2>1. restarts' # 0
    BY <1>1, <1>7 DEF RoutingRestart, Restart
  <2>2. QED BY <2>1 DEF RoundsAreEven
<1>8. QED BY <1>3, <1>4, <1>5, <1>6, <1>7 DEF RoutingNext

\* Only a policy gives a task its pod.
LEMMA ChosenOnceKept ==
  ASSUME RoutingInv, [RoutingNext]_routingVars
  PROVE  ChosenOnce'
<1>1. /\ phase \in [Req -> {"new", "looking", "chosen", "executing", "reported", "unreported", "dropped"}]
      /\ dest \in [Req -> Pod \cup {Nil}] /\ ChosenOnce
  BY DEF RoutingInv, RoutingTypeOK, TypeOK
<1>2. ASSUME NEW r \in Req, BeginsToLook(r) PROVE ChosenOnce'
  BY <1>1, <1>2 DEF ChosenOnce, BeginsToLook, Arrives
<1>3. ASSUME NEW r \in Req, AcquiresDest(r) PROVE ChosenOnce'
  BY <1>1, <1>3 DEF ChosenOnce, AcquiresDest, Choose
<1>4. ASSUME NEW r \in Req, TaskSteps(r) PROVE ChosenOnce'
  BY <1>1, <1>4 DEF ChosenOnce, TaskSteps, Send, Report, EndUnreported
<1>5. CASE UpdateArrives \/ handleUpdate \/ UNCHANGED routingVars
  BY <1>1, <1>5 DEF ChosenOnce, UpdateArrives, handleUpdate, Publishes, LocksAgain, Assigns, vars,
                    routingVars
<1>6. CASE RoutingRestart
  BY <1>1, <1>6 DEF ChosenOnce, RoutingRestart, Restart
<1>7. QED BY <1>2, <1>3, <1>4, <1>5, <1>6 DEF RoutingNext

\* Every step of tasks, policies and updates keeps that.
LEMMA StepRouting == RoutingInv /\ Pinned /\ [RoutingNext]_routingVars => RoutingInv'
<1> SUFFICES ASSUME RoutingInv, Pinned, [RoutingNext]_routingVars PROVE RoutingInv'
  OBVIOUS
<1>1. TypeOK' /\ SentToPod'
  BY CountsStep, StepTypes DEF RoutingInv, RoutingTypeOK
<1>2. Pinned' /\ TargetsArePinned'
  BY StepPinned DEF Pinned
<1>3. RoutingTypeOK'
  BY <1>1, <1>2, RoutingTypes
<1>4. RoundsAreEven'
  BY RoundGoesOn, RoundsKept
<1>5. QED BY <1>1, <1>2, <1>3, <1>4, ChosenOnceKept DEF RoutingInv

\* lb_policy.go: the types, what a policy has drawn and the evenness of the rounds are kept
\* under every policy, whatever updates and reports arrive.
THEOREM RoutingConsistent == RoutingSpec => []RoutingInv
BY InitRouting, StepRouting, InitPinned, StepPinned, PTL DEF RoutingSpec

\* lb_policy.go and shared.go: the index, the draws and the lists of the routing keep
\* their types, and so do the counts, whatever is reported.
THEOREM RoutingTypeCorrect == RoutingSpec => []RoutingTypeOK
<1>1. RoutingInv => RoutingTypeOK
  BY DEF RoutingInv
<1>2. QED BY <1>1, RoutingConsistent, PTL

\* lb_policy.go:108: pureRoundRobinPolicy sends no pod two tasks more than another, for
\* any number of tasks and pods and in whatever order they come.
THEOREM RoundRobinStaysEven == RoutingSpec => []RoundRobinIsEven
<1>1. RoutingInv => RoundRobinIsEven
  <2> SUFFICES ASSUME RoutingInv, policy = "pureRoundRobinPolicy", updates = 0, restarts = 0,
                      NEW p \in assigned, NEW q \in assigned
               PROVE  Cardinality({r \in Req : dest[r] = p}) <= Cardinality({r \in Req : dest[r] = q}) + 1
    BY DEF RoundRobinIsEven
  <2>1. Cardinality(SentTo(p)) + (IF Passed(q) THEN 1 ELSE 0) =
          Cardinality(SentTo(q)) + (IF Passed(p) THEN 1 ELSE 0)
    BY DEF RoutingInv, RoundsAreEven
  <2>2. Cardinality(SentTo(p)) \in Nat /\ Cardinality(SentTo(q)) \in Nat
    <3>1. IsFiniteSet(SentTo(p)) /\ IsFiniteSet(SentTo(q))
      BY RSAssumption, FS_Subset DEF SentTo
    <3>2. QED BY <3>1, FS_CardinalityType
  <2>3. Cardinality(SentTo(p)) <= Cardinality(SentTo(q)) + 1
    BY <2>1, <2>2
  <2>4. QED BY <2>3 DEF SentTo
<1>2. QED BY <1>1, RoutingConsistent, PTL

==============================================================================
