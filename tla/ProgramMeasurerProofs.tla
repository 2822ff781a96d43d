----------------------- MODULE ProgramMeasurerProofs -----------------------
(* The invariants of ProgramMeasurer, for every set of workloads, programs *)
(* and costs, every batch size and every number of measurements.           *)
EXTENDS ProgramMeasurer, TLAPS

(* A set of naturals with 0 and every successor is the set of naturals.    *)
(* The lemmas that need induction have it as a hypothesis, which           *)
(* InductionHolds discharges for the theorems: the provers read every fact *)
(* in sight, and the library that justifies it has many.                   *)
Induction ==
  \A S \in SUBSET Nat : 0 \in S /\ (\A n \in S : n + 1 \in S) => S = Nat

(* Induction over the natural numbers, for a set. *)
LEMMA NatInduct ==
  ASSUME Induction, NEW S \in SUBSET Nat, 0 \in S, \A n \in S : n + 1 \in S
  PROVE  S = Nat
BY Zenon DEF Induction

(* The smaller of two numbers, as the community modules define Min. *)
LEMMA MinOfTwo ==
  ASSUME NEW a \in Nat, NEW b \in Nat
  PROVE  Min({a, b}) \in {a, b} /\ \A y \in {a, b} : Min({a, b}) <= y
<1>1. \E x \in {a, b} : \A y \in {a, b} : x <= y
  OBVIOUS
<1>. QED
  BY <1>1, Zenon DEF Min

(* The facts about sequences that the proofs use. *)
LEMMA LenFacts ==
  ASSUME NEW E, NEW p \in Seq(E)
  PROVE  Len(p) \in Nat /\ DOMAIN p = 1 .. Len(p) /\ p \in [1 .. Len(p) -> E]
  OBVIOUS

(* An element of a sequence over E is in E. *)
LEMMA ElementFact ==
  ASSUME NEW E, NEW p \in Seq(E), NEW i \in 1 .. Len(p)
  PROVE  p[i] \in E
  OBVIOUS

(* The empty sequence is a sequence over any set. *)
LEMMA EmptyFact ==
  ASSUME NEW E
  PROVE  <<>> \in Seq(E) /\ Len(<<>>) = 0
  OBVIOUS

(* Sequences with the same elements in the same places are equal. *)
LEMMA SameSeq ==
  ASSUME NEW E, NEW p \in Seq(E), NEW q \in Seq(E), Len(p) = Len(q),
         \A i \in 1 .. Len(p) : p[i] = q[i]
  PROVE  p = q
  OBVIOUS

(* What Append does to the length and to the elements. *)
LEMMA AppendFacts ==
  ASSUME NEW E, NEW p \in Seq(E), NEW e \in E
  PROVE  /\ Append(p, e) \in Seq(E) /\ Len(Append(p, e)) = Len(p) + 1
         /\ \A i \in 1 .. Len(p) : Append(p, e)[i] = p[i]
         /\ Append(p, e)[Len(p) + 1] = e
  OBVIOUS

(* What concatenation does to the length and to the elements. *)
LEMMA ConcatFacts ==
  ASSUME NEW E, NEW p \in Seq(E), NEW q \in Seq(E)
  PROVE  /\ p \o q \in Seq(E) /\ Len(p \o q) = Len(p) + Len(q)
         /\ \A i \in 1 .. Len(p) + Len(q) :
              (p \o q)[i] = IF i <= Len(p) THEN p[i] ELSE q[i - Len(p)]
  OBVIOUS

(* Concatenating nothing changes nothing. *)
LEMMA ConcatEmpty ==
  ASSUME NEW E, NEW p \in Seq(E)
  PROVE  p \o <<>> = p
<1>1. <<>> \in Seq(E) /\ Len(<<>>) = 0 /\ Len(p) \in Nat
  OBVIOUS
<1>2. /\ p \o <<>> \in Seq(E) /\ Len(p \o <<>>) = Len(p)
      /\ \A i \in 1 .. Len(p) : (p \o <<>>)[i] = p[i]
  BY <1>1, ConcatFacts
<1>. QED
  BY <1>2, SameSeq, Zenon

(* Appending to the second part appends to the whole. *)
LEMMA ConcatAppend ==
  ASSUME NEW E, NEW p \in Seq(E), NEW q \in Seq(E), NEW e \in E
  PROVE  p \o Append(q, e) = Append(p \o q, e)
<1>. DEFINE qe == Append(q, e)
            pq == p \o q
<1>1. /\ qe \in Seq(E) /\ Len(qe) = Len(q) + 1 /\ qe[Len(q) + 1] = e
      /\ \A i \in 1 .. Len(q) : qe[i] = q[i]
  BY AppendFacts
<1>2. /\ pq \in Seq(E) /\ Len(pq) = Len(p) + Len(q)
      /\ \A i \in 1 .. Len(p) + Len(q) : pq[i] = IF i <= Len(p) THEN p[i] ELSE q[i - Len(p)]
  BY ConcatFacts, Zenon
<1>3. Len(p) \in Nat /\ Len(q) \in Nat
  BY LenFacts, Zenon
<1>. HIDE DEF qe, pq
<1>. DEFINE l == p \o qe
            r == Append(pq, e)
<1>4. /\ l \in Seq(E) /\ Len(l) = Len(p) + Len(qe)
      /\ \A i \in 1 .. Len(p) + Len(qe) : l[i] = IF i <= Len(p) THEN p[i] ELSE qe[i - Len(p)]
  BY <1>1, ConcatFacts, Zenon
<1>5. /\ r \in Seq(E) /\ Len(r) = Len(pq) + 1 /\ r[Len(pq) + 1] = e
      /\ \A i \in 1 .. Len(pq) : r[i] = pq[i]
  BY <1>2, AppendFacts
<1>. HIDE DEF l, r
<1>6. ASSUME NEW i \in 1 .. Len(l) PROVE l[i] = r[i]
  <2>1. i \in 1 .. Len(p) + Len(qe) /\ Len(l) = Len(pq) + 1
    BY <1>1, <1>2, <1>3, <1>4
  <2>2. CASE i <= Len(p)
    <3>1. i \in 1 .. Len(pq) /\ i \in 1 .. Len(p) + Len(q)
      BY <1>2, <1>3, <2>2
    <3>. QED
      BY <1>2, <1>4, <1>5, <2>1, <2>2, <3>1, Zenon
  <2>3. CASE ~(i <= Len(p)) /\ i <= Len(pq)
    <3>1. i \in 1 .. Len(pq) /\ i \in 1 .. Len(p) + Len(q) /\ i - Len(p) \in 1 .. Len(q)
      BY <1>2, <1>3, <2>3
    <3>. QED
      BY <1>1, <1>2, <1>4, <1>5, <2>1, <2>3, <3>1, Zenon
  <2>4. CASE i = Len(pq) + 1
    <3>1. ~(i <= Len(p)) /\ i - Len(p) = Len(q) + 1
      BY <1>2, <1>3, <2>4
    <3>. QED
      BY <1>1, <1>4, <1>5, <2>1, <2>4, <3>1, Zenon
  <2>5. i <= Len(pq) \/ i = Len(pq) + 1
    BY <1>2, <1>3, <2>1
  <2>. QED
    BY <2>2, <2>3, <2>4, <2>5, Zenon
<1>7. Len(l) = Len(r)
  BY <1>1, <1>2, <1>3, <1>4, <1>5, SMT, SMTT(20)
<1>8. l = r
  BY <1>4, <1>5, <1>6, <1>7, SameSeq, Zenon
<1>. QED
  BY <1>8, Zenon DEF l, r, qe, pq

(* The length and the elements of a part of a sequence. *)
LEMMA SubSeqFacts ==
  ASSUME NEW E, NEW p \in Seq(E), NEW a \in 1 .. Len(p) + 1, NEW b \in a - 1 .. Len(p)
  PROVE  /\ SubSeq(p, a, b) \in Seq(E) /\ Len(SubSeq(p, a, b)) = b - a + 1
         /\ \A i \in 1 .. b - a + 1 : SubSeq(p, a, b)[i] = p[a + i - 1]
  OBVIOUS

-----------------------------------------------------------------------------
(* The loop over a batch passes through a status for each of its results,  *)
(* each the account of the one before.                                     *)
LEMMA AccountAllSteps ==
  ASSUME Induction, NEW s, NEW key0, NEW b, Len(b) \in Nat
  PROVE  \E after :
           /\ after[0] = s /\ after[Len(b)] = AccountAll(s, key0, b)
           /\ \A i \in 1 .. Len(b) : after[i] = Account(after[i - 1], key0, b[i])
<1>. DEFINE Loop(f, n) ==
       f = [i \in 0 .. n |-> IF i = 0 THEN s ELSE Account(f[i - 1], key0, b[i])]
     S == {n \in Nat : \E f : Loop(f, n)}
<1>1. 0 \in S
  <2>. DEFINE f == [i \in 0 .. 0 |-> s]
  <2>1. Loop(f, 0)
    OBVIOUS
  <2>. QED
    BY <2>1, Zenon
<1>2. ASSUME NEW n \in S PROVE n + 1 \in S
  <2>1. PICK f : Loop(f, n)
    BY Zenon
  <2>. DEFINE g == [i \in 0 .. n + 1 |->
                      IF i = n + 1 THEN Account(f[n], key0, b[n + 1]) ELSE f[i]]
  <2>2. ASSUME NEW i \in 0 .. n + 1
        PROVE  g[i] = IF i = 0 THEN s ELSE Account(g[i - 1], key0, b[i])
    <3>1. CASE i = n + 1
      BY <3>1
    <3>2. CASE i # n + 1
      <4>1. i \in 0 .. n /\ g[i] = f[i] /\ (i # 0 => g[i - 1] = f[i - 1])
        BY <3>2
      <4>. QED
        BY <4>1, <2>1, Zenon
    <3>. QED
      BY <3>1, <3>2, Zenon
  <2>3. g = [i \in 0 .. n + 1 |-> g[i]]
    BY Zenon
  <2>. HIDE DEF g
  <2>. DEFINE r == [i \in 0 .. n + 1 |->
                      IF i = 0 THEN s ELSE Account(g[i - 1], key0, b[i])]
  <2>4. r = [i \in 0 .. n + 1 |-> r[i]] /\ \A i \in 0 .. n + 1 : g[i] = r[i]
    BY <2>2, Zenon
  <2>. HIDE DEF r
  <2>5. g = r
    BY <2>3, <2>4, Zenon
  <2>6. Loop(g, n + 1) /\ n + 1 \in Nat
    BY <2>5 DEF r
  <2>. HIDE DEF Loop
  <2>. QED
    BY <2>6, Zenon
<1>3. Len(b) \in S
  <2>1. S \in SUBSET Nat
    BY Zenon
  <2>. HIDE DEF S
  <2>. QED
    BY <1>1, <1>2, <2>1, NatInduct, Zenon
<1>. DEFINE h == CHOOSE f : Loop(f, Len(b))
<1>4. Loop(h, Len(b))
  BY <1>3, Zenon
<1>5. AccountAll(s, key0, b) = h[Len(b)]
  BY Zenon DEF AccountAll
<1>. HIDE DEF h
<1>6. h[0] = s
  BY <1>4
<1>7. ASSUME NEW i \in 1 .. Len(b) PROVE h[i] = Account(h[i - 1], key0, b[i])
  BY <1>4
<1>. QED
  BY <1>5, <1>6, <1>7, Zenon

(* Results with costs in C and states in T, and the statuses of a measurer *)
(* of such results.                                                        *)
Entries(C, T) == [state : T, cost : C]
Statuses(C, T) ==
  [ct : Nat, error_ct : Nat, has_valid : SUBSET Keys,
   best_cost : [Keys -> C], best_state : [Keys -> T], best_ct : [Keys -> Nat]]

Better(s, key0, r) ==
  r.cost # MaxFloat /\ FlopCt[key0] > 0 /\ r.cost < s.best_cost[key0]

(* What accounting the result r changes, field by field: a is the status   *)
(* after it.                                                               *)
Accounted(s, key0, r, a) ==
  /\ a.ct = s.ct + 1
  /\ a.error_ct = IF r.cost # MaxFloat THEN 0 ELSE s.error_ct + 1
  /\ a.has_valid = IF r.cost # MaxFloat THEN s.has_valid \cup {key0} ELSE s.has_valid
  /\ \A k \in Keys : k # key0 \/ ~Better(s, key0, r) =>
       /\ a.best_cost[k] = s.best_cost[k]
       /\ a.best_state[k] = s.best_state[k]
       /\ a.best_ct[k] = s.best_ct[k]
  /\ Better(s, key0, r) => /\ a.best_cost[key0] = r.cost
                          /\ a.best_state[key0] = r.state
                          /\ a.best_ct[key0] = s.ct

(* One turn of the loop of ProgramMeasurer::Measure over the results: the  *)
(* counts and bests of the other workloads stay, those of this one move as *)
(* the code says.                                                          *)
LEMMA AccountFields ==
  ASSUME NEW C, NEW T, NEW s \in Statuses(C, T), NEW key0 \in Keys,
         NEW r \in Entries(C, T)
  PROVE  /\ Account(s, key0, r) \in Statuses(C, T)
         /\ Accounted(s, key0, r, Account(s, key0, r))
<1>. DEFINE a == Account(s, key0, r)
            mid == IF Better(s, key0, r) THEN Remember(s, key0, r) ELSE s
<1>1. /\ mid \in Statuses(C, T)
      /\ mid.ct = s.ct /\ mid.error_ct = s.error_ct /\ mid.has_valid = s.has_valid
      /\ \A k \in Keys : k # key0 \/ ~Better(s, key0, r) =>
           /\ mid.best_cost[k] = s.best_cost[k]
           /\ mid.best_state[k] = s.best_state[k]
           /\ mid.best_ct[k] = s.best_ct[k]
      /\ Better(s, key0, r) => /\ mid.best_cost[key0] = r.cost
                   /\ mid.best_state[key0] = r.state
                   /\ mid.best_ct[key0] = s.ct
  <2>1. CASE Better(s, key0, r)
    BY <2>1, Zenon DEF Statuses, Remember, Entries
  <2>2. CASE ~Better(s, key0, r)
    BY <2>2, Zenon DEF Statuses
  <2>. QED
    BY <2>1, <2>2, Zenon
<1>2. a = Count(mid, key0, r.cost # MaxFloat)
  BY Zenon DEF Account, Better
<1>. HIDE DEF mid, a
<1>3. /\ a \in Statuses(C, T) /\ a.ct = mid.ct + 1
      /\ a.error_ct = IF r.cost # MaxFloat THEN 0 ELSE mid.error_ct + 1
      /\ a.has_valid = IF r.cost # MaxFloat THEN mid.has_valid \cup {key0}
                                            ELSE mid.has_valid
      /\ a.best_cost = mid.best_cost /\ a.best_state = mid.best_state
      /\ a.best_ct = mid.best_ct
  <2>1. mid \in Statuses(C, T)
    BY <1>1, Zenon
  <2>2. CASE r.cost # MaxFloat
    <3>1. a = [mid EXCEPT !.ct = mid.ct + 1, !.error_ct = 0,
                          !.has_valid = mid.has_valid \cup {key0}]
      BY <1>2, <2>2, Zenon DEF Count
    <3>2. mid.ct + 1 \in Nat /\ 0 \in Nat /\ mid.has_valid \cup {key0} \in SUBSET Keys
      BY <2>1 DEF Statuses
    <3>3. a \in Statuses(C, T)
      BY <2>1, <3>1, <3>2, Zenon DEF Statuses
    <3>4. a.ct = mid.ct + 1 /\ a.error_ct = 0 /\ a.has_valid = mid.has_valid \cup {key0}
      BY <2>1, <3>1, Zenon DEF Statuses
    <3>5. a.best_cost = mid.best_cost /\ a.best_state = mid.best_state
          /\ a.best_ct = mid.best_ct
      BY <2>1, <3>1, Zenon DEF Statuses
    <3>. QED
      BY <2>2, <3>3, <3>4, <3>5, Zenon
  <2>3. CASE r.cost = MaxFloat
    <3>1. a = [mid EXCEPT !.ct = mid.ct + 1, !.error_ct = mid.error_ct + 1]
      BY <1>2, <2>1, <2>3, Zenon DEF Count, Statuses
    <3>2. mid.ct + 1 \in Nat /\ mid.error_ct + 1 \in Nat
      BY <2>1 DEF Statuses
    <3>3. a \in Statuses(C, T)
      BY <2>1, <3>1, <3>2, Zenon DEF Statuses
    <3>4. a.ct = mid.ct + 1 /\ a.error_ct = mid.error_ct + 1 /\ a.has_valid = mid.has_valid
      BY <2>1, <3>1, Zenon DEF Statuses
    <3>5. a.best_cost = mid.best_cost /\ a.best_state = mid.best_state
          /\ a.best_ct = mid.best_ct
      BY <2>1, <3>1, Zenon DEF Statuses
    <3>. QED
      BY <2>3, <3>3, <3>4, <3>5, Zenon
  <2>. QED
    BY <2>2, <2>3, Zenon
<1>. QED
  BY <1>1, <1>3, Zenon DEF a, Accounted
-----------------------------------------------------------------------------
AllCosts == Costs \cup {MaxFloat}
Measured == Keys \X Results

(* A status s accounts for the results t.  A workload without a best       *)
(* program has MaxFloat as best cost: what makes its first success better. *)
Accounts(s, t) ==
  /\ s \in Statuses(AllCosts, States \cup {NoState}) /\ s.error_ct <= s.ct
  /\ FirstMinimum(s, t) /\ Streak(s, t)
  /\ \A k \in Keys : Successes(t, k) = {} \/ FlopCt[k] <= 0 =>
                       s.best_cost[k] = MaxFloat

(* The status accounts for the trace, and what Measure will return is at   *)
(* the end of the record file.                                             *)
MeasurerInv == TypeOK /\ Accounts(m, trace) /\ ResultsAreRecorded

After(t, k, r) == Append(t, <<k, r>>)
-----------------------------------------------------------------------------
(* Appending a result adds its index to the successes of its workload, if  *)
(* it is one.                                                              *)
LEMMA SuccessesAppend ==
  ASSUME NEW t \in Seq(Measured), NEW key0 \in Keys, NEW r \in Results, NEW k \in Keys
  PROVE  /\ After(t, key0, r) \in Seq(Measured) /\ Len(After(t, key0, r)) = Len(t) + 1
         /\ \A i \in 1 .. Len(t) : After(t, key0, r)[i] = t[i]
         /\ After(t, key0, r)[Len(t) + 1] = <<key0, r>>
         /\ k = key0 /\ r.cost # MaxFloat => Successes(After(t, key0, r), k) = Successes(t, k) \cup {Len(t) + 1}
         /\ k # key0 \/ r.cost = MaxFloat => Successes(After(t, key0, r), k) = Successes(t, k)
         /\ Successes(t, k) \subseteq 1 .. Len(t)
<1>. DEFINE u == After(t, key0, r)
<1>1. <<key0, r>> \in Measured
  BY Zenon DEF Measured
<1>2. /\ u \in Seq(Measured) /\ Len(u) = Len(t) + 1
      /\ \A i \in 1 .. Len(t) : u[i] = t[i]
      /\ u[Len(t) + 1] = <<key0, r>>
  BY <1>1, AppendFacts, Zenon DEF After
<1>. HIDE DEF u
<1>3. DOMAIN t = 1 .. Len(t) /\ DOMAIN u = 1 .. Len(t) + 1 /\ Len(t) \in Nat
  BY <1>2, LenFacts, Zenon
<1>4. Successes(t, k) = {i \in 1 .. Len(t) : t[i][1] = k /\ t[i][2].cost # MaxFloat}
  BY <1>3, Zenon DEF Successes
<1>5. Successes(u, k) = {i \in 1 .. Len(t) + 1 : u[i][1] = k /\ u[i][2].cost # MaxFloat}
  BY <1>3, Zenon DEF Successes
<1>6. <<key0, r>>[1] = key0 /\ <<key0, r>>[2] = r
  BY Zenon
<1>7. 1 .. Len(t) + 1 = 1 .. Len(t) \cup {Len(t) + 1}
  BY <1>3
<1>8. /\ k = key0 /\ r.cost # MaxFloat => Successes(u, k) = Successes(t, k) \cup {Len(t) + 1}
      /\ k # key0 \/ r.cost = MaxFloat => Successes(u, k) = Successes(t, k)
      /\ Successes(t, k) \subseteq 1 .. Len(t)
  BY <1>2, <1>3, <1>4, <1>5, <1>6, <1>7, SMT, SMTT(20)
<1>. QED
  BY <1>2, <1>8, Zenon DEF u

(* Accounting a result keeps FirstMinimum: the new best is the first of    *)
(* its cost because it is strictly cheaper than the old one.               *)
LEMMA FirstMinimumStep ==
  ASSUME NEW t \in Seq(Measured), NEW key0 \in Keys, NEW r \in Results,
         NEW s, Accounts(s, t)
  PROVE  /\ FirstMinimum(Account(s, key0, r), After(t, key0, r))
         /\ \A k \in Keys :
              Successes(After(t, key0, r), k) = {} \/ FlopCt[k] <= 0 =>
                Account(s, key0, r).best_cost[k] = MaxFloat
<1>. DEFINE u == After(t, key0, r)
            a == Account(s, key0, r)
            First(k) == s.best_ct[k] + 1
<1>. USE MeasurerAssumption
<1>1. Len(t) \in Nat /\ s.ct = Len(t) /\ s \in Statuses(AllCosts, States \cup {NoState})
  BY LenFacts, Zenon DEF Accounts, Streak
<1>2. r \in Entries(AllCosts, States \cup {NoState})
      /\ r = [state |-> r.state, cost |-> r.cost]
  BY Zenon DEF Entries, Results, AllCosts
<1>3. a \in Statuses(AllCosts, States \cup {NoState}) /\ Accounted(s, key0, r, a)
  BY <1>1, <1>2, AccountFields, Zenon
<1>. HIDE DEF u, a
<1>4. ASSUME NEW k \in Keys
      PROVE  /\ k \in a.has_valid <=> Successes(u, k) # {}
             /\ Successes(u, k) = {} \/ FlopCt[k] <= 0 =>
                  a.best_state[k] = NoState /\ a.best_cost[k] = MaxFloat
             /\ ~(Successes(u, k) = {} \/ FlopCt[k] <= 0) =>
                  /\ a.best_ct[k] + 1 \in Successes(u, k)
                  /\ u[a.best_ct[k] + 1][2] = [state |-> a.best_state[k], cost |-> a.best_cost[k]]
                  /\ \A j \in Successes(u, k) :
                       /\ u[j][2].cost >= a.best_cost[k]
                       /\ u[j][2].cost = a.best_cost[k] => a.best_ct[k] + 1 <= j
  <2>1. /\ u \in Seq(Measured) /\ Len(u) = Len(t) + 1
        /\ \A i \in 1 .. Len(t) : u[i] = t[i]
        /\ u[Len(t) + 1] = <<key0, r>>
        /\ k = key0 /\ r.cost # MaxFloat => Successes(u, k) = Successes(t, k) \cup {Len(t) + 1}
        /\ k # key0 \/ r.cost = MaxFloat => Successes(u, k) = Successes(t, k)
        /\ Successes(t, k) \subseteq 1 .. Len(t)
    BY SuccessesAppend, Zenon DEF u
  <2>2. /\ k \in s.has_valid <=> Successes(t, k) # {}
        /\ Successes(t, k) = {} \/ FlopCt[k] <= 0 =>
             s.best_state[k] = NoState /\ s.best_cost[k] = MaxFloat
        /\ ~(Successes(t, k) = {} \/ FlopCt[k] <= 0) =>
             /\ First(k) \in Successes(t, k)
             /\ t[First(k)][2] = [state |-> s.best_state[k], cost |-> s.best_cost[k]]
             /\ \A j \in Successes(t, k) :
                  /\ t[j][2].cost >= s.best_cost[k]
                  /\ t[j][2].cost = s.best_cost[k] => First(k) <= j
    BY Zenon DEF Accounts, FirstMinimum
  <2>3. /\ FlopCt[k] \in Int /\ s.best_ct[k] \in Nat /\ MaxFloat \in Nat
        /\ s.best_cost[k] \in Nat /\ r.cost \in Nat /\ r.cost <= MaxFloat
        /\ \A j \in 1 .. Len(t) : t[j][2].cost \in Nat
    <3>1. ASSUME NEW j \in 1 .. Len(t) PROVE t[j][2].cost \in Nat
      <4>1. t[j] \in Measured
        BY ElementFact, Zenon
      <4>. QED
        BY <4>1, Zenon DEF Measured, Results
    <3>2. s.best_cost[k] \in AllCosts /\ s.best_ct[k] \in Nat
      BY <1>1, Zenon DEF Statuses
    <3>3. r.cost \in AllCosts
      BY Zenon DEF Results, AllCosts
    <3>4. \A c \in AllCosts : c \in Nat /\ c <= MaxFloat
      BY SMT, SMTT(20) DEF AllCosts
    <3>. QED
      BY <3>1, <3>2, <3>3, <3>4, Zenon
  <2>4. CASE k # key0 \/ r.cost = MaxFloat
    <3>1. Successes(u, k) = Successes(t, k) /\ (k \in a.has_valid <=> k \in s.has_valid)
      BY <1>3, <2>1, <2>4 DEF Accounted
    <3>2. a.best_cost[k] = s.best_cost[k] /\ a.best_state[k] = s.best_state[k]
          /\ a.best_ct[k] = s.best_ct[k]
      BY <1>3, <2>4, Zenon DEF Better, Accounted
    <3>3. \A j \in Successes(t, k) : u[j] = t[j]
      BY <2>1, Zenon
    <3>4. /\ k \in a.has_valid <=> Successes(u, k) # {}
          /\ Successes(u, k) = {} \/ FlopCt[k] <= 0 =>
               a.best_state[k] = NoState /\ a.best_cost[k] = MaxFloat
      BY <2>2, <3>1, <3>2, Zenon
    <3>5. ASSUME ~(Successes(u, k) = {} \/ FlopCt[k] <= 0)
          PROVE  /\ a.best_ct[k] + 1 \in Successes(u, k)
                 /\ u[a.best_ct[k] + 1][2] = [state |-> a.best_state[k], cost |-> a.best_cost[k]]
      BY <2>2, <3>1, <3>2, <3>3, <3>5, Zenon
    <3>6. ASSUME ~(Successes(u, k) = {} \/ FlopCt[k] <= 0), NEW j \in Successes(u, k)
          PROVE  /\ u[j][2].cost >= a.best_cost[k]
                 /\ u[j][2].cost = a.best_cost[k] => a.best_ct[k] + 1 <= j
      BY <2>2, <3>1, <3>2, <3>3, <3>6, Zenon
    <3>. QED
      BY <3>4, <3>5, <3>6, Zenon
  <2>5. CASE k = key0 /\ r.cost # MaxFloat /\ Better(s, key0, r)
    <3>1. Successes(u, k) = Successes(t, k) \cup {Len(t) + 1} /\ k \in a.has_valid
      BY <1>3, <2>1, <2>5, Zenon DEF Accounted
    <3>2. a.best_cost[k] = r.cost /\ a.best_state[k] = r.state /\ a.best_ct[k] = Len(t)
          /\ FlopCt[k] > 0 /\ r.cost < s.best_cost[k]
      BY <1>1, <1>3, <2>5, Zenon DEF Better, Accounted
    <3>3. u[Len(t) + 1][2] = [state |-> r.state, cost |-> r.cost]
      BY <1>2, <2>1, SMT, SMTT(20)
    <3>4. ASSUME NEW j \in Successes(t, k) PROVE u[j][2].cost > r.cost
      <4>1. ~(Successes(t, k) = {} \/ FlopCt[k] <= 0) /\ u[j] = t[j] /\ j \in 1 .. Len(t)
        BY <2>1, <2>3, <3>2, SMT, SMTT(20)
      <4>2. t[j][2].cost >= s.best_cost[k] /\ u[j][2].cost = t[j][2].cost
        BY <2>2, <4>1, Zenon
      <4>3. t[j][2].cost \in Nat /\ s.best_cost[k] \in Nat /\ r.cost \in Nat
        BY <2>3, <4>1, Zenon
      <4>. QED
        BY <3>2, <4>2, <4>3, SMT, SMTT(20)
    <3>5. ASSUME NEW j \in Successes(u, k)
          PROVE u[j][2].cost >= r.cost /\ (u[j][2].cost = r.cost => Len(t) + 1 <= j)
      <4>1. CASE j = Len(t) + 1
        BY <1>1, <2>3, <3>3, <4>1, SMT, SMTT(20)
      <4>2. CASE j \in Successes(t, k)
        <5>1. u[j][2].cost \in Nat
          BY <2>1, <2>3, <4>2, ElementFact, Zenon DEF Measured, Results, AllCosts
        <5>. QED
          BY <2>3, <3>4, <4>2, <5>1, SMT, SMTT(20)
      <4>. QED
        BY <3>1, <4>1, <4>2, Zenon
    <3>6. Len(t) + 1 \in Successes(u, k)
      BY <3>1, Zenon
    <3>7. ~(Successes(u, k) = {} \/ FlopCt[k] <= 0)
      BY <2>3, <3>2, <3>6, SMT, SMTT(20)
    <3>. QED
      BY <3>1, <3>2, <3>3, <3>5, <3>6, <3>7, Zenon
  <2>6. CASE k = key0 /\ r.cost # MaxFloat /\ ~Better(s, key0, r)
    <3>1. Successes(u, k) = Successes(t, k) \cup {Len(t) + 1} /\ k \in a.has_valid
      BY <1>3, <2>1, <2>6, Zenon DEF Accounted
    <3>2. a.best_cost[k] = s.best_cost[k] /\ a.best_state[k] = s.best_state[k]
          /\ a.best_ct[k] = s.best_ct[k]
      BY <1>3, <2>6, Zenon DEF Accounted
    <3>3. CASE FlopCt[k] <= 0
      BY <2>2, <3>1, <3>2, <3>3, Zenon
    <3>4. CASE FlopCt[k] > 0
      <4>1. r.cost >= s.best_cost[k] /\ r.cost < MaxFloat
        BY <2>3, <2>6, <3>4, SMT, SMTT(20) DEF Better, Accounted
      <4>2. ~(Successes(t, k) = {} \/ FlopCt[k] <= 0)
        BY <2>2, <2>3, <3>4, <4>1, SMT, SMTT(20)
      <4>3. First(k) \in Successes(u, k) /\ First(k) \in 1 .. Len(t)
        BY <2>1, <2>2, <3>1, <4>2, Zenon
      <4>4. u[First(k)][2] = [state |-> s.best_state[k], cost |-> s.best_cost[k]]
        BY <2>1, <2>2, <4>2, <4>3, Zenon
      <4>5. ASSUME NEW j \in Successes(u, k)
            PROVE u[j][2].cost >= s.best_cost[k]
                  /\ (u[j][2].cost = s.best_cost[k] => First(k) <= j)
        <5>1. CASE j = Len(t) + 1
          <6>1. u[j][2].cost = r.cost
            BY <2>1, <5>1, SMT, SMTT(20)
          <6>. QED
            BY <1>1, <4>1, <4>3, <5>1, <6>1, SMT, SMTT(20)
        <5>2. CASE j \in Successes(t, k)
          BY <2>1, <2>2, <4>2, <5>2, Zenon
        <5>. QED
          BY <3>1, <5>1, <5>2, Zenon
      <4>. QED
        BY <3>1, <3>2, <4>2, <4>3, <4>4, <4>5, Zenon
    <3>. QED
      BY <2>3, <3>3, <3>4, SMT, SMTT(20)
  <2>. QED
    BY <2>4, <2>5, <2>6, Zenon
<1>5. FirstMinimum(a, u) /\ \A k \in Keys : Successes(u, k) = {} \/ FlopCt[k] <= 0 =>
                                              a.best_cost[k] = MaxFloat
  BY <1>4, Zenon DEF FirstMinimum
<1>. QED
  BY <1>5, Zenon DEF a, u

(* A measurer that was just reset accounts for no results. *)
LEMMA ResetAccounts == Accounts(ResetStatus, <<>>)
<1>. USE MeasurerAssumption
<1>1. \A k \in Keys : Successes(<<>>, k) = {}
  BY SMT, SMTT(20) DEF Successes
<1>2. ResetStatus \in Statuses(AllCosts, States \cup {NoState})
  BY Zenon DEF ResetStatus, Statuses, AllCosts
<1>3. FirstMinimum(ResetStatus, <<>>)
  BY <1>1, Zenon DEF FirstMinimum, ResetStatus
<1>4. Streak(ResetStatus, <<>>)
  BY SMT, SMTT(20) DEF Streak, ResetStatus
<1>. QED
  BY <1>2, <1>3, <1>4, SMT, SMTT(20) DEF Accounts, ResetStatus

(* What the type invariant says of the status. *)
LEMMA AccountsTypes ==
  ASSUME NEW s, NEW t, Accounts(s, t)
  PROVE  /\ s.ct \in Nat /\ s.error_ct \in 0 .. s.ct /\ s.has_valid \subseteq Keys
         /\ s.best_cost \in [Keys -> Costs \cup {MaxFloat}]
         /\ s.best_state \in [Keys -> States \cup {NoState}]
         /\ s.best_ct \in [Keys -> Nat]
BY SMT, SMTT(20) DEF Accounts, Statuses, AllCosts

(* Accounting a result keeps Streak: a failure makes the run of errors one *)
(* longer, a success ends it.                                              *)
LEMMA StreakStep ==
  ASSUME NEW t \in Seq(Measured), NEW key0 \in Keys, NEW r \in Results,
         NEW s, Accounts(s, t)
  PROVE  /\ Streak(Account(s, key0, r), After(t, key0, r))
         /\ Account(s, key0, r).error_ct <= Account(s, key0, r).ct
<1>. DEFINE u == After(t, key0, r)
            a == Account(s, key0, r)
<1>1. /\ Len(t) \in Nat /\ s.ct = Len(t) /\ s.error_ct \in Nat /\ s.error_ct <= s.ct
      /\ s \in Statuses(AllCosts, States \cup {NoState})
  BY LenFacts, Zenon DEF Accounts, Streak, Statuses
<1>2. r \in Entries(AllCosts, States \cup {NoState})
  BY Zenon DEF Entries, Results, AllCosts
<1>3. Accounted(s, key0, r, a)
  BY <1>1, <1>2, AccountFields, Zenon
<1>4. /\ Len(u) = Len(t) + 1 /\ u[Len(t) + 1] = <<key0, r>>
      /\ \A i \in 1 .. Len(t) : u[i] = t[i]
  BY SuccessesAppend, Zenon
<1>. HIDE DEF u, a
<1>5. u[a.ct][2] = r /\ a.ct = Len(t) + 1
  BY <1>1, <1>3, <1>4, SMT, SMTT(20) DEF Accounted
<1>6. CASE r.cost # MaxFloat
  <2>1. a.error_ct = 0
    BY <1>3, <1>6, Zenon DEF Accounted
  <2>. QED
    BY <1>1, <1>4, <1>5, <1>6, <2>1, SMT, SMTT(20) DEF Streak, u, a
<1>7. CASE r.cost = MaxFloat
  <2>1. a.error_ct = s.error_ct + 1
    BY <1>3, <1>7, Zenon DEF Accounted
  <2>2. ASSUME NEW i \in 0 .. a.error_ct - 1 PROVE u[a.ct - i][2].cost = MaxFloat
    <3>1. CASE i = 0
      BY <1>1, <1>5, <1>7, <3>1, SMT, SMTT(20)
    <3>2. CASE i # 0
      <4>1. i - 1 \in 0 .. s.error_ct - 1 /\ a.ct - i = s.ct - (i - 1)
            /\ s.ct - (i - 1) \in 1 .. Len(t)
        BY <1>1, <1>5, <2>1, <3>2, SMT, SMTT(20)
      <4>2. t[s.ct - (i - 1)][2].cost = MaxFloat
        BY <4>1, Zenon DEF Accounts, Streak
      <4>. QED
        BY <1>4, <4>1, <4>2, Zenon
    <3>. QED
      BY <3>1, <3>2, Zenon
  <2>3. ASSUME a.error_ct < a.ct PROVE u[a.ct - a.error_ct][2].cost # MaxFloat
    <3>1. s.error_ct < s.ct /\ a.ct - a.error_ct = s.ct - s.error_ct
          /\ s.ct - s.error_ct \in 1 .. Len(t)
      BY <1>1, <1>5, <2>1, <2>3, SMT, SMTT(20)
    <3>2. t[s.ct - s.error_ct][2].cost # MaxFloat
      BY <3>1, Zenon DEF Accounts, Streak
    <3>. QED
      BY <1>4, <3>1, <3>2, Zenon
  <2>4. a.error_ct <= a.ct /\ a.ct = Len(u)
    BY <1>1, <1>4, <1>5, <2>1, SMT, SMTT(20)
  <2>. QED
    BY <2>2, <2>3, <2>4, Zenon DEF Streak, u, a
<1>. QED
  BY <1>6, <1>7, Zenon

(* One turn of that loop, against the trace: what the measurer keeps still *)
(* accounts for every result it has seen, the new one included.            *)
LEMMA AccountsStep ==
  ASSUME NEW t \in Seq(Measured), NEW key0 \in Keys, NEW r \in Results,
         NEW s, Accounts(s, t)
  PROVE  Accounts(Account(s, key0, r), After(t, key0, r))
<1>1. s \in Statuses(AllCosts, States \cup {NoState})
  BY Zenon DEF Accounts
<1>2. r \in Entries(AllCosts, States \cup {NoState})
  BY Zenon DEF Entries, Results, AllCosts
<1>3. Account(s, key0, r) \in Statuses(AllCosts, States \cup {NoState})
  BY <1>1, <1>2, AccountFields, Zenon
<1>4. /\ FirstMinimum(Account(s, key0, r), After(t, key0, r))
      /\ \A k \in Keys :
           Successes(After(t, key0, r), k) = {} \/ FlopCt[k] <= 0 =>
             Account(s, key0, r).best_cost[k] = MaxFloat
  BY FirstMinimumStep, Zenon
<1>5. /\ Streak(Account(s, key0, r), After(t, key0, r))
      /\ Account(s, key0, r).error_ct <= Account(s, key0, r).ct
  BY StreakStep, Zenon
<1>. QED
  BY <1>3, <1>4, <1>5, Zenon DEF Accounts

(* The loop over a batch keeps Accounts, by induction over the batch.      *)
Tagged(k, b) == [j \in 1 .. Len(b) |-> <<k, b[j]>>]

(* The whole loop, by induction over the batch. *)
LEMMA AccountsBatch ==
  ASSUME Induction, NEW t \in Seq(Measured), NEW key0 \in Keys, NEW b \in Seq(Results),
         NEW s, Accounts(s, t)
  PROVE  /\ Accounts(AccountAll(s, key0, b), t \o Tagged(key0, b))
         /\ t \o Tagged(key0, b) \in Seq(Measured)
<1>. DEFINE Part(i) == [j \in 1 .. i |-> <<key0, b[j]>>]
<1>1. Len(b) \in Nat
  BY LenFacts, Zenon
<1>2. PICK after : /\ after[0] = s /\ after[Len(b)] = AccountAll(s, key0, b)
                   /\ \A i \in 1 .. Len(b) : after[i] = Account(after[i - 1], key0, b[i])
  BY <1>1, AccountAllSteps, SMT, SMTT(20)
<1>3. ASSUME NEW i \in 0 .. Len(b)
      PROVE  /\ Part(i) \in Seq(Measured) /\ Len(Part(i)) = i
             /\ \A j \in 1 .. i : Part(i)[j] = <<key0, b[j]>>
  <2>1. ASSUME NEW j \in 1 .. i PROVE <<key0, b[j]>> \in Measured
    <3>1. b[j] \in Results
      BY <1>1, ElementFact, SMT, SMTT(20)
    <3>. QED
      BY <3>1, Zenon DEF Measured
  <2>2. i \in Nat /\ Part(i) \in [1 .. i -> Measured]
    BY <1>1, <2>1, SMT, SMTT(20)
  <2>. QED
    BY <2>2, SMT, SMTT(20)
<1>. DEFINE S == {i \in Nat : i <= Len(b) => Accounts(after[i], t \o Part(i))}
<1>4. 0 \in S
  <2>1. Part(0) = <<>>
    BY SMT, SMTT(20)
  <2>2. t \o Part(0) = t
    BY <2>1, ConcatEmpty, Zenon
  <2>. QED
    BY <1>2, <2>2, Zenon
<1>5. ASSUME NEW i \in S PROVE i + 1 \in S
  <2>1. SUFFICES ASSUME i + 1 <= Len(b)
                 PROVE  Accounts(after[i + 1], t \o Part(i + 1))
    BY SMT, SMTT(20)
  <2>2. i \in 0 .. Len(b) /\ i + 1 \in 1 .. Len(b) /\ i + 1 \in 0 .. Len(b)
    BY <1>1, <2>1, SMT, SMTT(20)
  <2>3. Accounts(after[i], t \o Part(i))
    BY <2>2, SMT, SMTT(20)
  <2>4. b[i + 1] \in Results /\ after[i + 1] = Account(after[i], key0, b[i + 1])
    BY <1>1, <1>2, <2>2, ElementFact, SMT, SMTT(20)
  <2>5. Part(i + 1) = Append(Part(i), <<key0, b[i + 1]>>)
    BY <1>3, <2>2, SMT, SMTT(20)
  <2>6. <<key0, b[i + 1]>> \in Measured /\ Part(i) \in Seq(Measured)
    BY <1>3, <2>2, <2>4, Zenon DEF Measured
  <2>7. t \o Part(i + 1) = After(t \o Part(i), key0, b[i + 1])
        /\ t \o Part(i) \in Seq(Measured)
    <3>. DEFINE q == Part(i)
                e == <<key0, b[i + 1]>>
    <3>1. Part(i + 1) = Append(q, e) /\ q \in Seq(Measured) /\ e \in Measured
      BY <2>5, <2>6, Zenon
    <3>. HIDE DEF q, e
    <3>2. t \o Append(q, e) = Append(t \o q, e)
      BY <3>1, ConcatAppend, SMT, SMTT(20)
    <3>3. t \o q \in Seq(Measured)
      BY <3>1, ConcatFacts, Zenon
    <3>4. t \o Part(i + 1) = Append(t \o q, e)
      BY <3>1, <3>2, Zenon
    <3>. QED
      BY <3>3, <3>4, Zenon DEF After, q, e
  <2>. QED
    BY <2>3, <2>4, <2>7, AccountsStep, Zenon
<1>6. S = Nat
  <2>1. S \in SUBSET Nat
    BY Zenon
  <2>. HIDE DEF S
  <2>. QED
    BY <1>4, <1>5, <2>1, NatInduct, Zenon
<1>7. Tagged(key0, b) = Part(Len(b))
  BY Zenon DEF Tagged
<1>8. t \o Part(Len(b)) \in Seq(Measured)
  BY <1>1, <1>3, ConcatFacts, SMT, SMTT(20)
<1>9. Accounts(after[Len(b)], t \o Part(Len(b)))
  <2>1. Len(b) \in S
    BY <1>1, <1>6, Zenon
  <2>. QED
    BY <1>1, <2>1, SMT, SMTT(20)
<1>. QED
  BY <1>2, <1>7, <1>8, <1>9, Zenon
-----------------------------------------------------------------------------

(* The elements of a reversed sequence. *)
LEMMA ReverseElements ==
  ASSUME NEW E, NEW p \in Seq(E)
  PROVE  /\ Reverse(p) \in Seq(E) /\ Len(Reverse(p)) = Len(p)
         /\ \A i \in 1 .. Len(p) : Reverse(p)[i] = p[(Len(p) - i) + 1]
<1>. DEFINE r == Reverse(p)
<1>1. Len(p) \in Nat
  BY LenFacts, Zenon
<1>2. ASSUME NEW i \in 1 .. Len(p) PROVE p[(Len(p) - i) + 1] \in E
  BY <1>1, ElementFact, SMT, SMTT(20)
<1>3. r \in [1 .. Len(p) -> E] /\ \A i \in 1 .. Len(p) : r[i] = p[(Len(p) - i) + 1]
  BY <1>2, Zenon DEF Reverse
<1>. HIDE DEF r
<1>4. r \in Seq(E)
  BY <1>1, <1>3, SMT, SMTT(20)
<1>5. Len(r) = Len(p)
  BY <1>1, <1>3, <1>4, LenFacts, SMT, SMTT(20)
<1>. QED
  BY <1>3, <1>4, <1>5, Zenon DEF r

(* A suffix, element by element. *)
LEMMA SuffixIndexed ==
  ASSUME NEW E, NEW p \in Seq(E), NEW q \in Seq(E)
  PROVE  IsSuffix(p, q) <=>
           /\ Len(p) <= Len(q)
           /\ \A i \in 1 .. Len(p) : p[i] = q[(Len(q) - Len(p)) + i]
<1>. DEFINE rp == Reverse(p)
            rq == Reverse(q)
<1>1. Len(p) \in Nat /\ Len(q) \in Nat
  BY LenFacts, Zenon
<1>2. /\ rp \in Seq(E) /\ Len(rp) = Len(p)
      /\ \A i \in 1 .. Len(p) : rp[i] = p[(Len(p) - i) + 1]
  BY ReverseElements, Zenon
<1>3. /\ rq \in Seq(E) /\ Len(rq) = Len(q)
      /\ \A i \in 1 .. Len(q) : rq[i] = q[(Len(q) - i) + 1]
  BY ReverseElements, Zenon
<1>4. IsSuffix(p, q) <=> Len(rp) <= Len(rq) /\ SubSeq(rp, 1, Len(rp)) = SubSeq(rq, 1, Len(rp))
  BY Zenon DEF IsSuffix, IsPrefix
<1>. HIDE DEF rp, rq
<1>5. CASE ~(Len(p) <= Len(q))
  BY <1>2, <1>3, <1>4, <1>5, Zenon
<1>6. CASE Len(p) <= Len(q)
  <2>1. /\ SubSeq(rp, 1, Len(p)) \in Seq(E) /\ Len(SubSeq(rp, 1, Len(p))) = Len(p)
        /\ \A i \in 1 .. Len(p) : SubSeq(rp, 1, Len(p))[i] = rp[i]
    BY <1>1, <1>2, SubSeqFacts, SMT, SMTT(20)
  <2>2. /\ SubSeq(rq, 1, Len(p)) \in Seq(E) /\ Len(SubSeq(rq, 1, Len(p))) = Len(p)
        /\ \A i \in 1 .. Len(p) : SubSeq(rq, 1, Len(p))[i] = rq[i]
    BY <1>1, <1>3, <1>6, SubSeqFacts, SMT, SMTT(20)
  <2>3. IsSuffix(p, q) <=> \A i \in 1 .. Len(p) : rp[i] = rq[i]
    <3>1. SubSeq(rp, 1, Len(p)) = SubSeq(rq, 1, Len(p)) <=>
            \A i \in 1 .. Len(p) : SubSeq(rp, 1, Len(p))[i] = SubSeq(rq, 1, Len(p))[i]
      BY <2>1, <2>2, SameSeq, Zenon
    <3>. QED
      BY <1>2, <1>3, <1>4, <1>6, <2>1, <2>2, <3>1, Zenon
  <2>4. ASSUME \A i \in 1 .. Len(p) : rp[i] = rq[i], NEW i \in 1 .. Len(p)
        PROVE  p[i] = q[(Len(q) - Len(p)) + i]
    <3>. DEFINE j == (Len(p) - i) + 1
    <3>1. j \in 1 .. Len(p) /\ j \in 1 .. Len(q) /\ (Len(p) - j) + 1 = i
          /\ (Len(q) - j) + 1 = (Len(q) - Len(p)) + i
      BY <1>1, <1>6, SMT, SMTT(20)
    <3>. HIDE DEF j
    <3>2. rp[j] = rq[j]
      BY <2>4, <3>1, Zenon
    <3>3. rp[j] = p[i] /\ rq[j] = q[(Len(q) - Len(p)) + i]
      BY <1>2, <1>3, <3>1, Zenon
    <3>. QED
      BY <3>2, <3>3, Zenon
  <2>5. ASSUME \A i \in 1 .. Len(p) : p[i] = q[(Len(q) - Len(p)) + i],
               NEW i \in 1 .. Len(p)
        PROVE  rp[i] = rq[i]
    <3>. DEFINE j == (Len(p) - i) + 1
    <3>1. j \in 1 .. Len(p) /\ i \in 1 .. Len(q)
          /\ (Len(q) - i) + 1 = (Len(q) - Len(p)) + j
      BY <1>1, <1>6, SMT, SMTT(20)
    <3>2. rp[i] = p[j] /\ rq[i] = q[(Len(q) - i) + 1]
      BY <1>2, <1>3, <3>1, Zenon
    <3>. HIDE DEF j
    <3>. QED
      BY <2>5, <3>1, <3>2, Zenon
  <2>. QED
    BY <1>6, <2>3, <2>4, <2>5, Zenon
<1>. QED
  BY <1>5, <1>6, Zenon

(* The empty sequence is a suffix of every sequence. *)
LEMMA EmptySuffix ==
  ASSUME NEW E, NEW q \in Seq(E)
  PROVE  IsSuffix(<<>>, q)
<1>. DEFINE p == <<>>
<1>1. p \in Seq(E) /\ Len(p) = 0 /\ Len(q) \in Nat
  BY LenFacts, SMT, SMTT(20)
<1>. HIDE DEF p
<1>2. Len(p) <= Len(q) /\ \A i \in 1 .. Len(p) : p[i] = q[(Len(q) - Len(p)) + i]
  BY <1>1, SMT, SMTT(20)
<1>3. IsSuffix(p, q)
  BY <1>1, <1>2, SuffixIndexed, Zenon
<1>. QED
  BY <1>3, Zenon DEF p

(* What is appended to both keeps the one a suffix of the other. *)
LEMMA SuffixExtends ==
  ASSUME NEW E, NEW p \in Seq(E), NEW q \in Seq(E), NEW b \in Seq(E), IsSuffix(p, q)
  PROVE  IsSuffix(p \o b, q \o b)
<1>. DEFINE pb == p \o b
            qb == q \o b
<1>1. /\ Len(p) \in Nat /\ Len(q) \in Nat /\ Len(b) \in Nat /\ Len(p) <= Len(q)
      /\ \A i \in 1 .. Len(p) : p[i] = q[(Len(q) - Len(p)) + i]
  BY LenFacts, SuffixIndexed, Zenon
<1>2. /\ pb \in Seq(E) /\ Len(pb) = Len(p) + Len(b)
      /\ \A i \in 1 .. Len(p) + Len(b) : pb[i] = IF i <= Len(p) THEN p[i] ELSE b[i - Len(p)]
  BY ConcatFacts, Zenon
<1>3. /\ qb \in Seq(E) /\ Len(qb) = Len(q) + Len(b)
      /\ \A i \in 1 .. Len(q) + Len(b) : qb[i] = IF i <= Len(q) THEN q[i] ELSE b[i - Len(q)]
  BY ConcatFacts, Zenon
<1>. HIDE DEF pb, qb
<1>4. ASSUME NEW i \in 1 .. Len(pb) PROVE pb[i] = qb[(Len(qb) - Len(pb)) + i]
  <2>. DEFINE j == (Len(q) - Len(p)) + i
  <2>1. (Len(qb) - Len(pb)) + i = j /\ j \in 1 .. Len(q) + Len(b) /\ i \in 1 .. Len(p) + Len(b)
        /\ (j <= Len(q) <=> i <= Len(p)) /\ j - Len(q) = i - Len(p)
    BY <1>1, <1>2, <1>3, SMT, SMTT(20)
  <2>2. i <= Len(p) => p[i] = q[j]
    BY <1>1, <2>1, SMT, SMTT(20)
  <2>. HIDE DEF j
  <2>. QED
    BY <1>2, <1>3, <2>1, <2>2, Zenon
<1>5. Len(pb) <= Len(qb)
  BY <1>1, <1>2, <1>3, SMT, SMTT(20)
<1>6. IsSuffix(pb, qb)
  BY <1>2, <1>3, <1>4, <1>5, SuffixIndexed, Zenon
<1>. QED
  BY <1>6, Zenon DEF pb, qb
-----------------------------------------------------------------------------

(* A sequence of bounded length is a sequence. *)
LEMMA BoundedSeqIsSeq ==
  ASSUME NEW E, NEW n \in Nat, NEW q \in BoundedSeq(E, n)
  PROVE  q \in Seq(E)
<1>1. PICK i \in 0 .. n : q \in [1 .. i -> E]
  BY Zenon DEF BoundedSeq, SeqOf
<1>. QED
  BY <1>1, SMT, SMTT(20)

(* The results of a batch, each with the workload key it was measured for. *)
LEMMA TaggedSeq ==
  ASSUME NEW k \in Keys, NEW b \in Seq(Results)
  PROVE  /\ Tagged(k, b) \in Seq(Measured) /\ Len(Tagged(k, b)) = Len(b)
         /\ Tagged(k, b) = [j \in DOMAIN b |-> <<k, b[j]>>]
         /\ \A j \in 1 .. Len(b) : Tagged(k, b)[j] = <<k, b[j]>>
<1>. DEFINE r == Tagged(k, b)
<1>1. Len(b) \in Nat /\ DOMAIN b = 1 .. Len(b)
  BY LenFacts, Zenon
<1>2. ASSUME NEW j \in 1 .. Len(b) PROVE <<k, b[j]>> \in Measured
  <2>1. b[j] \in Results
    BY <1>1, ElementFact, Zenon
  <2>. QED
    BY <2>1, Zenon DEF Measured
<1>3. r \in [1 .. Len(b) -> Measured] /\ \A j \in 1 .. Len(b) : r[j] = <<k, b[j]>>
  BY <1>2, Zenon DEF Tagged
<1>4. r = [j \in DOMAIN b |-> <<k, b[j]>>]
  BY <1>1, Zenon DEF Tagged
<1>. HIDE DEF r
<1>5. r \in Seq(Measured)
  BY <1>1, <1>3, SMT, SMTT(20)
<1>6. Len(r) = Len(b)
  BY <1>1, <1>3, <1>5, LenFacts, SMT, SMTT(20)
<1>. QED
  BY <1>3, <1>4, <1>5, <1>6, Zenon DEF r

(* Recording the results of two batches one after the other. *)
LEMMA TaggedConcat ==
  ASSUME NEW k \in Keys, NEW b \in Seq(Results), NEW c \in Seq(Results)
  PROVE  Tagged(k, b \o c) = Tagged(k, b) \o Tagged(k, c)
<1>. DEFINE bc == b \o c
            l == Tagged(k, bc)
            r == Tagged(k, b) \o Tagged(k, c)
<1>1. /\ bc \in Seq(Results) /\ Len(bc) = Len(b) + Len(c)
      /\ Len(b) \in Nat /\ Len(c) \in Nat
      /\ \A i \in 1 .. Len(b) + Len(c) : bc[i] = IF i <= Len(b) THEN b[i] ELSE c[i - Len(b)]
  BY ConcatFacts, LenFacts, Zenon
<1>2. /\ Tagged(k, b) \in Seq(Measured) /\ Len(Tagged(k, b)) = Len(b)
      /\ \A j \in 1 .. Len(b) : Tagged(k, b)[j] = <<k, b[j]>>
  BY TaggedSeq, Zenon
<1>3. /\ Tagged(k, c) \in Seq(Measured) /\ Len(Tagged(k, c)) = Len(c)
      /\ \A j \in 1 .. Len(c) : Tagged(k, c)[j] = <<k, c[j]>>
  BY TaggedSeq, Zenon
<1>. HIDE DEF bc
<1>4. /\ l \in Seq(Measured) /\ Len(l) = Len(b) + Len(c)
      /\ \A j \in 1 .. Len(bc) : l[j] = <<k, bc[j]>>
  BY <1>1, TaggedSeq, Zenon
<1>5. /\ r \in Seq(Measured) /\ Len(r) = Len(b) + Len(c)
      /\ \A i \in 1 .. Len(b) + Len(c) :
           r[i] = IF i <= Len(b) THEN Tagged(k, b)[i] ELSE Tagged(k, c)[i - Len(b)]
  <2>. DEFINE x == Tagged(k, b)
              y == Tagged(k, c)
  <2>1. x \in Seq(Measured) /\ y \in Seq(Measured) /\ Len(x) = Len(b) /\ Len(y) = Len(c)
    BY <1>2, <1>3, Zenon
  <2>. HIDE DEF x, y
  <2>2. /\ x \o y \in Seq(Measured) /\ Len(x \o y) = Len(x) + Len(y)
        /\ \A i \in 1 .. Len(x) + Len(y) :
             (x \o y)[i] = IF i <= Len(x) THEN x[i] ELSE y[i - Len(x)]
    BY <2>1, ConcatFacts, Zenon
  <2>. QED
    BY <2>1, <2>2, Zenon DEF x, y
<1>. HIDE DEF l, r
<1>6. ASSUME NEW i \in 1 .. Len(b) + Len(c) PROVE l[i] = r[i]
  <2>1. CASE i <= Len(b)
    <3>1. i \in 1 .. Len(b)
      BY <1>1, <2>1, SMT, SMTT(20)
    <3>. QED
      BY <1>1, <1>2, <1>4, <1>5, <2>1, <3>1, Zenon
  <2>2. CASE ~(i <= Len(b))
    <3>1. i - Len(b) \in 1 .. Len(c)
      BY <1>1, <2>2, SMT, SMTT(20)
    <3>. QED
      BY <1>1, <1>3, <1>4, <1>5, <2>2, <3>1, Zenon
  <2>. QED
    BY <2>1, <2>2, Zenon
<1>7. l = r
  BY <1>4, <1>5, <1>6, SameSeq, Zenon
<1>. QED
  BY <1>7, Zenon DEF l, r, bc
-----------------------------------------------------------------------------

(* Before the first batch of a call there is no result to look for in the  *)
(* file.                                                                   *)
LEMMA NothingToRecord ==
  ASSUME NEW r, r = <<>>, NEW k, NEW f \in Seq(Measured)
  PROVE  IsSuffix([j \in DOMAIN r |-> <<k, r[j]>>], f)
<1>1. [j \in DOMAIN r |-> <<k, r[j]>>] = <<>>
  BY SMT, SMTT(20)
<1>. QED
  BY <1>1, EmptySuffix, Zenon

(* The invariant holds of a new measurer. *)
LEMMA MeasurerInit == Init => MeasurerInv
<1>. SUFFICES ASSUME Init PROVE MeasurerInv
  BY Zenon
<1>. USE MeasurerAssumption
<1>. DEFINE s == ResetStatus
<1>1. m = s /\ trace = <<>> /\ file = <<>> /\ results = <<>> /\ batch = <<>>
      /\ inputs = <<>> /\ pc = "idle" /\ key \in Keys /\ verbose = Verbose
      /\ old_verbosity = Verbose
  BY Zenon DEF Init
<1>2. Accounts(s, <<>>)
  BY ResetAccounts, Zenon
<1>3. TypeOK
  BY <1>1, <1>2, EmptyFact, AccountsTypes, SMT, SMTT(20) DEF TypeOK
<1>4. ResultsAreRecorded
  BY <1>1, EmptyFact, NothingToRecord, Zenon DEF ResultsAreRecorded
<1>. QED
  BY <1>1, <1>2, <1>3, <1>4, Zenon DEF MeasurerInv

(* TypeOK, but for the types of the status. *)
TypesButStatus ==
  /\ pc \in {"idle", "batch", "callbacks"} /\ key \in Keys
  /\ inputs \in Seq(States) /\ batch \in Seq(Results) /\ results \in Seq(Results)
  /\ Len(batch) <= BatchSize
  /\ old_verbosity \in {Verbose, 2} /\ verbose \in {Verbose, 2}
  /\ trace \in Seq(Measured) /\ file \in Seq(Measured)

(* The invariant, split into the parts that the actions disturb one at a   *)
(* time.                                                                   *)
LEMMA TypesSplit ==
  /\ MeasurerInv <=> TypesButStatus /\ Accounts(m, trace) /\ ResultsAreRecorded
  /\ MeasurerInv' <=> TypesButStatus' /\ Accounts(m', trace') /\ ResultsAreRecorded'
<1>1. MeasurerInv <=> TypesButStatus /\ Accounts(m, trace) /\ ResultsAreRecorded
  BY AccountsTypes, Zenon DEF MeasurerInv, TypeOK, TypesButStatus, Measured
<1>2. MeasurerInv' <=> TypesButStatus' /\ Accounts(m', trace') /\ ResultsAreRecorded'
  BY AccountsTypes, Zenon DEF MeasurerInv, TypeOK, TypesButStatus, Measured
<1>. QED
  BY <1>1, <1>2, Zenon

(* ProgramMeasurer::Reset forgets the counts and the bests together with   *)
(* what they account for.                                                  *)
LEMMA ResetKeeps == MeasurerInv /\ Reset => MeasurerInv'
<1>. SUFFICES ASSUME TypesButStatus, ResultsAreRecorded, Reset
              PROVE  TypesButStatus' /\ Accounts(m', trace') /\ ResultsAreRecorded'
  BY TypesSplit, Zenon
<1>1. TypesButStatus'
  BY EmptyFact, Zenon DEF Reset, TypesButStatus
<1>2. Accounts(m', trace')
  BY ResetAccounts, Zenon DEF Reset
<1>3. ResultsAreRecorded'
  BY Zenon DEF Reset, ResultsAreRecorded
<1>. QED
  BY <1>1, <1>2, <1>3, Zenon

(* Entering ProgramMeasurer::Measure leaves the accounts alone. *)
LEMMA MeasureKeeps == MeasurerInv /\ Measure => MeasurerInv'
<1>. SUFFICES ASSUME TypesButStatus, Accounts(m, trace), Measure
              PROVE  TypesButStatus' /\ Accounts(m', trace') /\ ResultsAreRecorded'
  BY TypesSplit, Zenon
<1>1. inputs' \in Seq(States)
  BY MeasurerAssumption, BoundedSeqIsSeq, Zenon DEF Measure
<1>2. TypesButStatus'
  BY <1>1, EmptyFact, Zenon DEF Measure, TypesButStatus
<1>3. Accounts(m', trace')
  BY Zenon DEF Measure
<1>4. ResultsAreRecorded'
  BY NothingToRecord, Zenon DEF Measure, ResultsAreRecorded, TypesButStatus
<1>. QED
  BY <1>2, <1>3, <1>4, Zenon

(* A batch measured in Measure is accounted for result by result. *)
LEMMA MeasureBatchKeeps ==
  ASSUME Induction
  PROVE  MeasurerInv /\ MeasureBatch => MeasurerInv'
<1>. SUFFICES ASSUME TypesButStatus, Accounts(m, trace), ResultsAreRecorded, MeasureBatch
              PROVE  TypesButStatus' /\ Accounts(m', trace') /\ ResultsAreRecorded'
  BY TypesSplit, Zenon
<1>. USE MeasurerAssumption
<1>1. BatchLength \in 0 .. Len(inputs) /\ BatchLength <= BatchSize /\ Len(inputs) \in Nat
  <2>1. Len(inputs) \in Nat /\ BatchSize \in Nat
    BY LenFacts, Zenon DEF TypesButStatus
  <2>2. BatchLength \in {BatchSize, Len(inputs)} /\ BatchLength <= BatchSize
        /\ BatchLength <= Len(inputs)
    BY <2>1, MinOfTwo, Zenon DEF BatchLength
  <2>. QED
    BY <2>1, <2>2, SMT, SMTT(20)
<1>2. PICK c \in [1 .. BatchLength -> AllCosts] :
        /\ batch' = [j \in 1 .. BatchLength |-> [state |-> inputs[j], cost |-> c[j]]]
        /\ m' = AccountAll(m, key, batch')
        /\ trace' = trace \o [j \in 1 .. BatchLength |-> <<key, batch'[j]>>]
  BY Zenon DEF MeasureBatch, AllCosts
<1>3. batch' \in Seq(Results) /\ Len(batch') = BatchLength
  <2>1. ASSUME NEW j \in 1 .. BatchLength
        PROVE  [state |-> inputs[j], cost |-> c[j]] \in Results
    <3>1. inputs[j] \in States
      BY <1>1, ElementFact, SMT, SMTT(20) DEF TypesButStatus
    <3>. QED
      BY <3>1, Zenon DEF Results, AllCosts
  <2>2. batch' \in [1 .. BatchLength -> Results]
    BY <1>2, <2>1, Zenon
  <2>. QED
    BY <1>1, <2>2, SMT, SMTT(20)
<1>4. Accounts(m', trace') /\ trace' \in Seq(Measured)
  <2>1. trace' = trace \o Tagged(key, batch')
    BY <1>2, <1>3, Zenon DEF Tagged
  <2>2. trace \in Seq(Measured) /\ key \in Keys
    BY Zenon DEF TypesButStatus
  <2>3. Accounts(AccountAll(m, key, batch'), trace \o Tagged(key, batch'))
        /\ trace \o Tagged(key, batch') \in Seq(Measured)
    BY <1>3, <2>2, AccountsBatch, Zenon
  <2>. QED
    BY <1>2, <2>1, <2>3, Zenon
<1>5. inputs' \in Seq(States)
  BY <1>1, SubSeqFacts, SMT, SMTT(20) DEF MeasureBatch, TypesButStatus
<1>6. TypesButStatus'
  <2>1. batch' \in Seq(Results) /\ Len(batch') <= BatchSize
    BY <1>1, <1>3, Zenon
  <2>. QED
    BY <1>4, <1>5, <2>1, Zenon DEF MeasureBatch, TypesButStatus
<1>7. ResultsAreRecorded'
  BY Zenon DEF MeasureBatch, ResultsAreRecorded
<1>. QED
  BY <1>4, <1>6, <1>7, Zenon

(* What the file holds once the callbacks of a batch have run. *)
LEMMA RecordedFile ==
  ASSUME TypesButStatus
  PROVE  Recorded \in Seq(Measured) /\ Recorded = file \o Tagged(key, batch)
<1>1. Tagged(key, batch) \in Seq(Measured)
      /\ Tagged(key, batch) = [j \in DOMAIN batch |-> <<key, batch[j]>>]
  BY TaggedSeq, Zenon DEF TypesButStatus
<1>2. file \in Seq(Measured)
  BY Zenon DEF TypesButStatus
<1>3. Recorded = file \o Tagged(key, batch)
  BY <1>1, Zenon DEF Recorded
<1>. QED
  BY <1>1, <1>2, <1>3, ConcatFacts, Zenon

(* The RecordToFile callbacks put the whole batch behind what the file     *)
(* held.                                                                   *)
LEMMA CallbacksKeep == MeasurerInv /\ Callbacks => MeasurerInv'
<1>. SUFFICES ASSUME TypesButStatus, Accounts(m, trace), ResultsAreRecorded, Callbacks
              PROVE  TypesButStatus' /\ Accounts(m', trace') /\ ResultsAreRecorded'
  BY TypesSplit, Zenon
<1>1. file' \in Seq(Measured) /\ file' = file \o Tagged(key, batch)
  BY RecordedFile, Zenon DEF Callbacks
<1>2. results' = results \o batch /\ results' \in Seq(Results)
  BY ConcatFacts, Zenon DEF Callbacks, TypesButStatus
<1>3. TypesButStatus'
  BY <1>1, <1>2, EmptyFact, MeasurerAssumption, SMT, SMTT(20) DEF Callbacks, TypesButStatus
<1>4. Accounts(m', trace')
  BY Zenon DEF Callbacks
<1>5. ResultsAreRecorded'
  <2>1. /\ Tagged(key, results) \in Seq(Measured) /\ Tagged(key, batch) \in Seq(Measured)
        /\ Tagged(key, results) = [j \in DOMAIN results |-> <<key, results[j]>>]
    BY TaggedSeq, Zenon DEF TypesButStatus
  <2>2. IsSuffix(Tagged(key, results), file) /\ file \in Seq(Measured)
    BY <2>1, Zenon DEF ResultsAreRecorded, TypesButStatus
  <2>3. IsSuffix(Tagged(key, results) \o Tagged(key, batch), file \o Tagged(key, batch))
    BY <2>1, <2>2, SuffixExtends, Zenon
  <2>4. Tagged(key, results') = Tagged(key, results) \o Tagged(key, batch)
    BY <1>2, TaggedConcat, Zenon DEF TypesButStatus
  <2>5. Tagged(key, results') = [j \in DOMAIN results' |-> <<key, results'[j]>>]
    BY <1>2, TaggedSeq, Zenon DEF TypesButStatus
  <2>6. key' = key
    BY Zenon DEF Callbacks
  <2>. QED
    BY <1>1, <2>3, <2>4, <2>5, <2>6, Zenon DEF ResultsAreRecorded
<1>. QED
  BY <1>3, <1>4, <1>5, Zenon

(* A call that raises leaves accounts and file consistent. *)
LEMMA RaiseKeeps == MeasurerInv /\ Raise => MeasurerInv'
<1>. SUFFICES ASSUME TypesButStatus, Accounts(m, trace), Raise
              PROVE  TypesButStatus' /\ Accounts(m', trace') /\ ResultsAreRecorded'
  BY TypesSplit, Zenon
<1>1. file' \in Seq(Measured)
  BY RecordedFile, Zenon DEF Raise, TypesButStatus
<1>2. TypesButStatus'
  BY <1>1, EmptyFact, MeasurerAssumption, SMT, SMTT(20) DEF Raise, TypesButStatus
<1>3. Accounts(m', trace')
  BY Zenon DEF Raise
<1>4. ResultsAreRecorded'
  BY <1>1, NothingToRecord, Zenon DEF Raise, ResultsAreRecorded
<1>. QED
  BY <1>2, <1>3, <1>4, Zenon

(* Every step preserves the invariant. *)
LEMMA MeasurerNext ==
  ASSUME Induction
  PROVE  MeasurerInv /\ [Next]_vars => MeasurerInv'
<1>. SUFFICES ASSUME MeasurerInv, [Next]_vars PROVE MeasurerInv'
  BY Zenon
<1>1. CASE UNCHANGED vars \/ Return \/ Terminated
  <2>1. pc' \in {pc, "idle"} /\ UNCHANGED <<key, inputs, batch, results, old_verbosity,
                                            verbose, m, file, trace>>
    BY <1>1, Zenon DEF vars, Return, Terminated
  <2>2. TypesButStatus /\ Accounts(m, trace) /\ ResultsAreRecorded
    BY TypesSplit, Zenon
  <2>3. TypesButStatus' /\ Accounts(m', trace') /\ ResultsAreRecorded'
    BY <2>1, <2>2, Zenon DEF TypesButStatus, ResultsAreRecorded
  <2>. QED
    BY <2>3, TypesSplit, Zenon
<1>. QED
  BY <1>1, ResetKeeps, MeasureKeeps, MeasureBatchKeeps, CallbacksKeep, RaiseKeeps, Zenon
     DEF Next

-----------------------------------------------------------------------------
INSTANCE WellFoundedInduction

(* The induction principle taken as a hypothesis above holds. *)
LEMMA InductionHolds == Induction
<1>. SUFFICES ASSUME NEW S \in SUBSET Nat, 0 \in S, \A n \in S : n + 1 \in S
              PROVE  S = Nat
  BY Zenon DEF Induction
<1>1. IsWellFoundedOn(OpToRel(<, Nat), Nat)
  BY NatLessThanWellFounded, Zenon
<1>2. SUFFICES ASSUME Nat \ S # {} PROVE FALSE
  BY Zenon
<1>3. PICK x \in Nat \ S : \A y \in Nat \ S : <<y, x>> \notin OpToRel(<, Nat)
  BY <1>1, <1>2, WFMin, Zenon
<1>4. x # 0 /\ x - 1 \in Nat
  BY SMT, SMTT(20)
<1>5. <<x - 1, x>> \in OpToRel(<, Nat)
  BY <1>4, SMT, SMTT(20) DEF OpToRel
<1>6. x - 1 \in S
  BY <1>3, <1>4, <1>5, Zenon
<1>7. (x - 1) + 1 \in S
  BY <1>6
<1>8. (x - 1) + 1 = x
  BY SMT, SMTT(20)
<1>. QED
  BY <1>7, <1>8, Zenon

(* The invariant holds in every reachable state. *)
LEMMA MeasurerInvHolds == Spec => []MeasurerInv
<1>1. Init => MeasurerInv
  BY MeasurerInit, Zenon
<1>2. MeasurerInv /\ [Next]_vars => MeasurerInv'
  BY InductionHolds, MeasurerNext, Zenon
<1>. QED
  BY <1>1, <1>2, PTL DEF Spec

(* The fields keep their types and a batch never exceeds BatchSize.        *)
THEOREM TypesHold == Spec => []TypeOK
<1>1. MeasurerInv => TypeOK
  BY DEF MeasurerInv
<1>. QED
  BY <1>1, MeasurerInvHolds, PTL

(* For every workload the measurer remembers the first of its fastest      *)
(* programs since the last Reset, and that program's index, whatever       *)
(* calls, failures and exceptions came in between.                         *)
THEOREM BestHolds == Spec => []BestIsFirstMinimum
<1>1. MeasurerInv => BestIsFirstMinimum
  BY DEF MeasurerInv, Accounts, BestIsFirstMinimum
<1>. QED
  BY <1>1, MeasurerInvHolds, PTL

(* error_ct is the length of the run of failures that ends with the last   *)
(* measured program, across batches, calls and workloads.                  *)
THEOREM ErrorStreakHolds == Spec => []ErrorStreak
<1>1. MeasurerInv => ErrorStreak
  BY Zenon DEF MeasurerInv, Accounts, ErrorStreak
<1>. QED
  BY <1>1, MeasurerInvHolds, PTL

(* The results a call has so far, and what it returns, are the end of the  *)
(* record file.                                                            *)
THEOREM ResultsRecordedHolds == Spec => []ResultsAreRecorded
<1>1. MeasurerInv => ResultsAreRecorded
  BY Zenon DEF MeasurerInv
<1>. QED
  BY <1>1, MeasurerInvHolds, PTL
=============================================================================
