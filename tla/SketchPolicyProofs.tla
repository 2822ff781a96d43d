------------------------- MODULE SketchPolicyProofs -------------------------
(* SketchPolicy implements SearchPolicy, for every set of programs, every  *)
(* model, every setting of its parameters and every record file.           *)
EXTENDS SketchPolicy, TLAPS

(* What the proofs take from the library: induction, stated with a set of  *)
(* naturals, and the sizes of finite sets.  The lemmas that need it have   *)
(* it as a hypothesis, which LibraryHolds discharges for the theorems: the *)
(* provers read every fact in sight, and the library has many.             *)
Library ==
  /\ \A S \in SUBSET Nat : 0 \in S /\ (\A n \in S : n + 1 \in S) => S = Nat
  /\ IsFiniteSet({}) /\ Cardinality({}) = 0
  /\ \A S : IsFiniteSet(S) => Cardinality(S) \in Nat
  /\ \A S : IsFiniteSet(S) =>
       /\ \A T \in SUBSET S : /\ IsFiniteSet(T) /\ Cardinality(T) <= Cardinality(S)
                              /\ Cardinality(S) = Cardinality(T) => S = T
       /\ \A x : /\ IsFiniteSet(S \cup {x})
                 /\ Cardinality(S \cup {x}) = IF x \in S THEN Cardinality(S) ELSE Cardinality(S) + 1
                 /\ IsFiniteSet(S \ {x})
                 /\ Cardinality(S \ {x}) = IF x \in S THEN Cardinality(S) - 1 ELSE Cardinality(S)

(* Induction over the natural numbers, for a set. *)
LEMMA NatInduct ==
  ASSUME Library, NEW S \in SUBSET Nat, 0 \in S, \A n \in S : n + 1 \in S
  PROVE  S = Nat
BY Zenon DEF Library

(* The smaller of two numbers, as the community modules define Min. *)
LEMMA MinOfTwo ==
  ASSUME NEW a \in Nat, NEW b \in Nat
  PROVE  Min({a, b}) \in {a, b} /\ \A y \in {a, b} : Min({a, b}) <= y
<1>1. \E x \in {a, b} : \A y \in {a, b} : x <= y
  OBVIOUS
<1>. QED
  BY <1>1, Zenon DEF Min
-----------------------------------------------------------------------------
(* Results with costs in C and states in T, and the statuses of a measurer *)
(* of such results.                                                        *)
Entries(C, T) == [state : T, cost : C]

Statuses(C, T) ==
  [ct : Nat, error_ct : Nat, has_valid : SUBSET Keys,
   best_cost : [Keys -> C], best_state : [Keys -> T], best_ct : [Keys -> Nat]]

(* The statuses of the measurer keep their types over a batch. *)
LEMMA AccountAllTypes ==
  ASSUME Library, NEW C, NEW T, NEW s \in Statuses(C, T), NEW key \in Keys,
         NEW b \in Seq(Entries(C, T))
  PROVE  AccountAll(s, key, b) \in Statuses(C, T)
<1>1. Len(b) \in Nat /\ \A i \in 1 .. Len(b) : b[i] \in Entries(C, T)
  OBVIOUS
(* The loop over a batch passes through a status for each of its results,  *)
(* each the account of the one before.                                     *)
<1>2. PICK after : /\ after[0] = s /\ after[Len(b)] = AccountAll(s, key, b)
                   /\ \A i \in 1 .. Len(b) : after[i] = Account(after[i - 1], key, b[i])
  <2>. DEFINE Loop(f, n) ==
         f = [i \in 0 .. n |-> IF i = 0 THEN s ELSE Account(f[i - 1], key, b[i])]
       S == {n \in Nat : \E f : Loop(f, n)}
  <2>1. 0 \in S
    <3>. DEFINE f == [i \in 0 .. 0 |-> s]
    <3>1. Loop(f, 0)
      OBVIOUS
    <3>. QED
      BY <3>1, ZenonT(40)
  <2>2. ASSUME NEW n \in S PROVE n + 1 \in S
    <3>1. PICK f : Loop(f, n)
      BY Zenon
    <3>. DEFINE g == [i \in 0 .. n + 1 |->
                        IF i = n + 1 THEN Account(f[n], key, b[n + 1]) ELSE f[i]]
    <3>2. ASSUME NEW i \in 0 .. n + 1
          PROVE  g[i] = IF i = 0 THEN s ELSE Account(g[i - 1], key, b[i])
      <4>1. CASE i = n + 1
        BY <4>1
      <4>2. CASE i # n + 1
        <5>1. i \in 0 .. n /\ g[i] = f[i] /\ (i # 0 => g[i - 1] = f[i - 1])
          BY <4>2
        <5>. QED
          BY <5>1, <3>1, Zenon
      <4>. QED
        BY <4>1, <4>2, Zenon
    <3>3. g = [i \in 0 .. n + 1 |-> g[i]]
      BY Zenon
    <3>. HIDE DEF g
    <3>. DEFINE r == [i \in 0 .. n + 1 |->
                        IF i = 0 THEN s ELSE Account(g[i - 1], key, b[i])]
    <3>4. r = [i \in 0 .. n + 1 |-> r[i]] /\ \A i \in 0 .. n + 1 : g[i] = r[i]
      BY <3>2, Zenon
    <3>. HIDE DEF r
    <3>5. g = r
      BY <3>3, <3>4, Zenon
    <3>6. Loop(g, n + 1) /\ n + 1 \in Nat
      BY <3>5 DEF r
    <3>. HIDE DEF Loop
    <3>. QED
      BY <3>6, Zenon
  <2>3. Len(b) \in S
    <3>1. S \in SUBSET Nat
      BY Zenon
    <3>. HIDE DEF S
    <3>. QED
      BY <1>1, <2>1, <2>2, <3>1, NatInduct, Zenon
  <2>. DEFINE h == CHOOSE f : Loop(f, Len(b))
  <2>4. Loop(h, Len(b))
    BY <2>3, Zenon
  <2>5. AccountAll(s, key, b) = h[Len(b)]
    BY Zenon DEF AccountAll
  <2>. HIDE DEF h
  <2>6. h[0] = s
    <3>1. 0 \in 0 .. Len(b)
      BY <1>1
    <3>. QED
      BY <2>4, <3>1, Zenon
  <2>7. ASSUME NEW i \in 1 .. Len(b) PROVE h[i] = Account(h[i - 1], key, b[i])
    <3>1. i \in 0 .. Len(b) /\ i # 0
      BY <1>1
    <3>. QED
      BY <2>4, <3>1, Zenon
  <2>. QED
    BY <2>5, <2>6, <2>7, Zenon
(* One account keeps the types. *)
<1>AccountTypes.
    ASSUME NEW x \in Statuses(C, T), NEW r \in Entries(C, T)
    PROVE  Account(x, key, r) \in Statuses(C, T)
  <2>1. Remember(x, key, r) \in Statuses(C, T)
    BY Zenon DEF Statuses, Remember, Entries
  <2>2. ASSUME NEW y \in Statuses(C, T), NEW valid \in BOOLEAN
        PROVE  Count(y, key, valid) \in Statuses(C, T)
    <3>1. /\ y.ct + 1 \in Nat /\ y.error_ct + 1 \in Nat /\ 0 \in Nat
          /\ y.has_valid \cup {key} \in SUBSET Keys /\ y.has_valid \in SUBSET Keys
      BY SMT, SMTT(20) DEF Statuses
    <3>. QED
      BY <3>1, Zenon DEF Statuses, Count
  <2>. QED
    BY <2>1, <2>2, Zenon DEF Account
<1>. DEFINE S == {n \in Nat : n <= Len(b) => after[n] \in Statuses(C, T)}
<1>3. 0 \in S
  BY <1>2, Zenon
<1>4. ASSUME NEW n \in S PROVE n + 1 \in S
  <2>1. SUFFICES ASSUME n + 1 <= Len(b) PROVE after[n + 1] \in Statuses(C, T)
    OBVIOUS
  <2>2. n \in Nat /\ after[n] \in Statuses(C, T) /\ n + 1 \in 1 .. Len(b)
        /\ (n + 1) - 1 = n
    BY <2>1, <1>1
  <2>3. after[n + 1] = Account(after[n], key, b[n + 1])
    BY <2>2, <1>2, Zenon
  <2>4. b[n + 1] \in Entries(C, T)
    BY <2>2, <1>1, Zenon
  <2>5. Account(after[n], key, b[n + 1]) \in Statuses(C, T)
    BY <2>2, <2>4, <1>AccountTypes, Zenon
  <2>. QED
    BY <2>3, <2>5, Zenon
<1>5. S = Nat
  <2>1. S \in SUBSET Nat
    BY Zenon
  <2>. HIDE DEF S
  <2>. QED
    BY <1>3, <1>4, <2>1, NatInduct, Zenon
<1>. QED
  BY <1>1, <1>2, <1>5
-----------------------------------------------------------------------------
(* The record r is the first of its state among the first n of records. *)
FirstOf(records, n, r) ==
  \E j \in 1 .. n : /\ records[j] = r
                    /\ \A k \in 1 .. j - 1 : records[k].state # r.state

(* What the loop keeps of the first n records: first records, each of a    *)
(* state of its own.                                                       *)
KeptOf(records, kept, n) ==
  /\ kept \in Seq(Results)
  /\ \A p, q \in 1 .. Len(kept) : kept[p].state = kept[q].state => p = q
  /\ \A p \in 1 .. Len(kept) : FirstOf(records, n, kept[p])

(* The record file says first of the state s that it cost c. *)
FirstRecord(records, s, c) ==
  FirstOf(records, Len(records), [state |-> s, cost |-> c])

AllCosts == Costs \cup {MaxFloat}

(* A policy made from the record file: a throughput for each measured      *)
(* state, no state twice.                                                  *)
LEMMA PreloadedPolicy ==
  ASSUME Library, NEW records \in Seq(Results)
  PROVE  /\ PreloadVector(records) \in Seq(States)
         /\ PreloadCosts(records) \in Seq(AllCosts)
         /\ Len(PreloadVector(records)) = Len(PreloadCosts(records))
         /\ \A i, j \in 1 .. Len(PreloadVector(records)) :
              PreloadVector(records)[i] = PreloadVector(records)[j] => i = j
         /\ \A i \in 1 .. Len(PreloadVector(records)) :
              /\ PreloadVector(records)[i] \in PreloadKnown(records)
              /\ FirstRecord(records, PreloadVector(records)[i], PreloadCosts(records)[i])
         /\ PreloadKnown(records) \subseteq States
(* PreloadMeasuredStates passes through a sequence of kept records for     *)
(* each record of the file.                                                *)
<1>PreloadedSteps.
    ASSUME NEW b, Len(b) \in Nat
    PROVE  \E kept :
             /\ kept[0] = <<>> /\ kept[Len(b)] = Preloaded(b)
             /\ \A i \in 1 .. Len(b) : kept[i] = Keep(b, kept[i - 1], i)
  <2>. USE <1>PreloadedSteps
  <2>. DEFINE Loop(f, n) ==
         f = [i \in 0 .. n |-> IF i = 0 THEN <<>> ELSE Keep(b, f[i - 1], i)]
       S == {n \in Nat : \E f : Loop(f, n)}
  <2>1. 0 \in S
    <3>. DEFINE f == [i \in 0 .. 0 |-> <<>>]
    <3>1. Loop(f, 0)
      OBVIOUS
    <3>. QED
      BY <3>1, Zenon
  <2>2. ASSUME NEW n \in S PROVE n + 1 \in S
    <3>1. PICK f : Loop(f, n)
      BY Zenon
    <3>. DEFINE g == [i \in 0 .. n + 1 |->
                        IF i = n + 1 THEN Keep(b, f[n], n + 1) ELSE f[i]]
    <3>2. ASSUME NEW i \in 0 .. n + 1
          PROVE  g[i] = IF i = 0 THEN <<>> ELSE Keep(b, g[i - 1], i)
      <4>1. CASE i = n + 1
        BY <4>1
      <4>2. CASE i # n + 1
        <5>1. i \in 0 .. n /\ g[i] = f[i] /\ (i # 0 => g[i - 1] = f[i - 1])
          BY <4>2
        <5>. QED
          BY <5>1, <3>1, Zenon
      <4>. QED
        BY <4>1, <4>2, Zenon
    <3>3. g = [i \in 0 .. n + 1 |-> g[i]]
      BY Zenon
    <3>. HIDE DEF g
    <3>. DEFINE r == [i \in 0 .. n + 1 |-> IF i = 0 THEN <<>> ELSE Keep(b, g[i - 1], i)]
    <3>4. r = [i \in 0 .. n + 1 |-> r[i]] /\ \A i \in 0 .. n + 1 : g[i] = r[i]
      BY <3>2, Zenon
    <3>. HIDE DEF r
    <3>5. g = r
      BY <3>3, <3>4, Zenon
    <3>6. Loop(g, n + 1) /\ n + 1 \in Nat
      BY <3>5 DEF r
    <3>. HIDE DEF Loop
    <3>. QED
      BY <3>6, Zenon
  <2>3. Len(b) \in S
    <3>1. S \in SUBSET Nat
      BY Zenon
    <3>. HIDE DEF S
    <3>. QED
      BY <2>1, <2>2, <3>1, NatInduct, Zenon
  <2>. DEFINE h == CHOOSE f : Loop(f, Len(b))
  <2>4. Loop(h, Len(b))
    BY <2>3, Zenon
  <2>5. Preloaded(b) = h[Len(b)]
    BY Zenon DEF Preloaded
  <2>. HIDE DEF h
  <2>6. h[0] = <<>>
    <3>1. 0 \in 0 .. Len(b)
      OBVIOUS
    <3>. QED
      BY <2>4, <3>1, Zenon
  <2>7. ASSUME NEW i \in 1 .. Len(b) PROVE h[i] = Keep(b, h[i - 1], i)
    <3>1. i \in 0 .. Len(b) /\ i # 0
      OBVIOUS
    <3>. QED
      BY <2>4, <3>1, Zenon
  <2>. QED
    BY <2>5, <2>6, <2>7, Zenon
<1>FirstOfMore.
    ASSUME NEW n \in Nat, NEW m \in Nat, n <= m, NEW r,
           FirstOf(records, n, r)
    PROVE  FirstOf(records, m, r)
  <2>. USE <1>FirstOfMore
  <2>1. PICK j \in 1 .. n : records[j] = r /\ \A k \in 1 .. j - 1 : records[k].state # r.state
    BY Zenon DEF FirstOf
  <2>2. j \in 1 .. m
    OBVIOUS
  <2>. QED
    BY <2>1, <2>2, Zenon DEF FirstOf
<1>KeepOne.
    ASSUME NEW n \in 1 .. Len(records), NEW kept,
           KeptOf(records, kept, n - 1)
    PROVE  KeptOf(records, Keep(records, kept, n), n)
  <2>. USE <1>KeepOne
  <2>1. Len(records) \in Nat /\ n \in Nat /\ n - 1 \in Nat /\ n - 1 <= n
    OBVIOUS
  <2>2. kept \in Seq(Results) /\ Len(kept) \in Nat /\ records[n] \in Results
    BY DEF KeptOf
  <2>3. \A p \in 1 .. Len(kept) : FirstOf(records, n, kept[p])
    BY <2>1, <1>FirstOfMore, Zenon DEF KeptOf
  <2>4. CASE Keep(records, kept, n) = kept
    BY <2>2, <2>3, <2>4, Zenon DEF KeptOf
  <2>5. CASE Keep(records, kept, n) # kept
    <3>1. /\ \A j \in 1 .. n - 1 : records[j].state # records[n].state
          /\ Keep(records, kept, n) = Append(kept, records[n])
      BY <2>5, Zenon DEF Keep
    <3>. DEFINE w == Append(kept, records[n])
    <3>2. /\ w \in Seq(Results) /\ Len(w) = Len(kept) + 1
          /\ \A p \in 1 .. Len(kept) : w[p] = kept[p]
          /\ w[Len(kept) + 1] = records[n]
      BY <2>2
    <3>. HIDE DEF w
    <3>3. FirstOf(records, n, records[n])
      BY <3>1, <2>1 DEF FirstOf
    <3>4. ASSUME NEW p \in 1 .. Len(kept) PROVE kept[p].state # records[n].state
      <4>1. FirstOf(records, n - 1, kept[p])
        BY Zenon DEF KeptOf
      <4>2. PICK j \in 1 .. n - 1 : records[j] = kept[p]
        BY <4>1, Zenon DEF FirstOf
      <4>. QED
        BY <3>1, <4>2, Zenon
    <3>5. ASSUME NEW p \in 1 .. Len(w) PROVE FirstOf(records, n, w[p])
      <4>1. CASE p = Len(kept) + 1
        BY <4>1, <3>2, <3>3, Zenon
      <4>2. CASE p # Len(kept) + 1
        <5>1. p \in 1 .. Len(kept)
          BY <4>2, <3>2, <2>2
        <5>. QED
          BY <5>1, <3>2, <2>3, Zenon
      <4>. QED
        BY <4>1, <4>2, Zenon
    <3>6. ASSUME NEW p \in 1 .. Len(w), NEW q \in 1 .. Len(w), w[p].state = w[q].state
          PROVE  p = q
      <4>1. p \in 1 .. Len(kept) \/ p = Len(kept) + 1
        BY <3>2, <2>2
      <4>2. q \in 1 .. Len(kept) \/ q = Len(kept) + 1
        BY <3>2, <2>2
      <4>3. CASE p \in 1 .. Len(kept) /\ q \in 1 .. Len(kept)
        BY <4>3, <3>6, <3>2, Zenon DEF KeptOf
      <4>. QED
        BY <4>1, <4>2, <4>3, <3>2, <3>4, <3>6, Zenon
    <3>. QED
      BY <3>1, <3>2, <3>5, <3>6, Zenon DEF KeptOf, w
  <2>. QED
    BY <2>4, <2>5, Zenon
<1>PreloadedRecords.
    KeptOf(records, Preloaded(records), Len(records))
  <2>1. Len(records) \in Nat
    OBVIOUS
  <2>2. PICK kept : /\ kept[0] = <<>> /\ kept[Len(records)] = Preloaded(records)
                    /\ \A i \in 1 .. Len(records) : kept[i] = Keep(records, kept[i - 1], i)
    BY <2>1, <1>PreloadedSteps, Zenon
  <2>. DEFINE S == {n \in Nat : n <= Len(records) => KeptOf(records, kept[n], n)}
  <2>3. 0 \in S
    <3>1. kept[0] \in Seq(Results) /\ Len(kept[0]) = 0
      BY <2>2
    <3>2. KeptOf(records, kept[0], 0)
      BY <3>1 DEF KeptOf
    <3>. QED
      BY <3>2, Zenon
  <2>4. ASSUME NEW n \in S PROVE n + 1 \in S
    <3>1. SUFFICES ASSUME n + 1 <= Len(records) PROVE KeptOf(records, kept[n + 1], n + 1)
      OBVIOUS
    <3>2. n \in Nat /\ KeptOf(records, kept[n], n) /\ n + 1 \in 1 .. Len(records)
      BY <3>1, <2>1
    <3>. HIDE DEF S
    <3>3. (n + 1) - 1 = n
      BY <3>2
    <3>4. kept[n + 1] = Keep(records, kept[n], n + 1)
      BY <3>2, <3>3, <2>2, Zenon
    <3>5. KeptOf(records, kept[n], (n + 1) - 1)
      BY <3>2, <3>3, Zenon
    <3>6. KeptOf(records, Keep(records, kept[n], n + 1), n + 1)
      BY <3>2, <3>5, <1>KeepOne, Zenon
    <3>. QED
      BY <3>4, <3>6, Zenon
  <2>5. S = Nat
    <3>1. S \in SUBSET Nat
      BY Zenon
    <3>. HIDE DEF S
    <3>. QED
      BY <2>3, <2>4, <3>1, NatInduct, Zenon
  <2>. QED
    BY <2>1, <2>2, <2>5
<1>. DEFINE P == Preloaded(records)
            V == [n \in DOMAIN P |-> P[n].state]
            C == [n \in DOMAIN P |-> P[n].cost]
<1>1. V = PreloadVector(records) /\ C = PreloadCosts(records)
  BY Zenon DEF PreloadVector, PreloadCosts
<1>2. KeptOf(records, P, Len(records))
  BY <1>PreloadedRecords, Zenon
<1>. HIDE DEF P
<1>3. /\ P \in Seq(Results) /\ Len(P) \in Nat /\ DOMAIN P = 1 .. Len(P)
      /\ \A i \in 1 .. Len(P) : P[i] \in Results
      /\ DOMAIN records = 1 .. Len(records) /\ Len(records) \in Nat
      /\ \A i \in 1 .. Len(records) : records[i] \in Results
  BY <1>2 DEF KeptOf
<1>4. \A i \in 1 .. Len(P) : P[i].state \in States /\ P[i].cost \in AllCosts
                             /\ P[i] = [state |-> P[i].state, cost |-> P[i].cost]
  BY <1>3, Zenon DEF Results, AllCosts
<1>5. V \in [1 .. Len(P) -> States] /\ C \in [1 .. Len(P) -> AllCosts]
  BY <1>3, <1>4, Zenon
<1>6. V \in Seq(States) /\ C \in Seq(AllCosts) /\ Len(V) = Len(P) /\ Len(C) = Len(P)
  BY <1>3, <1>5
<1>7. \A i \in 1 .. Len(P) : V[i] = P[i].state /\ C[i] = P[i].cost
  BY <1>3, Zenon
<1>. HIDE DEF V, C
<1>8. \A i, j \in 1 .. Len(P) : V[i] = V[j] => i = j
  BY <1>2, <1>7, Zenon DEF KeptOf
<1>9. ASSUME NEW i \in 1 .. Len(P)
      PROVE  V[i] \in PreloadKnown(records) /\ FirstRecord(records, V[i], C[i])
  <2>1. [state |-> V[i], cost |-> C[i]] = P[i]
    BY <1>4, <1>7, Zenon
  <2>2. FirstOf(records, Len(records), P[i])
    BY <1>2, Zenon DEF KeptOf
  <2>3. PICK j \in 1 .. Len(records) : records[j] = P[i]
    BY <2>2, Zenon DEF FirstOf
  <2>4. V[i] = records[j].state /\ j \in DOMAIN records
    BY <1>3, <1>7, <2>3, Zenon
  <2>. QED
    BY <2>1, <2>2, <2>4, Zenon DEF FirstRecord, PreloadKnown
<1>10. PreloadKnown(records) \subseteq States
  BY <1>3, Zenon DEF PreloadKnown, Results
<1>. QED
  BY <1>1, <1>6, <1>8, <1>9, <1>10, Zenon
-----------------------------------------------------------------------------
RecordsOf(K) == [state : K, cost : Costs \cup {MaxFloat}]

(* The inputs of a round are distinct known states, and those not yet      *)
(* measured are not in the record file, all of whose states are known.     *)
PromiseInv ==
  /\ inputs \in Seq(known) /\ log \in Seq(RecordsOf(known))
  /\ results \in Seq(RecordsOf(known)) /\ Len(results) <= Len(inputs)
  /\ pc \in {"idle", "sample", "assemble", "evolve"} => inputs = <<>>
  /\ pc \in {"pick"} => results = <<>>
  /\ \A i, j \in 1 .. Len(inputs) : inputs[i] = inputs[j] => i = j
  /\ \A i \in Len(results) + 1 .. Len(inputs), j \in 1 .. Len(log) :
       inputs[i] # log[j].state

Pending == {inputs[i] : i \in Len(results) + 1 .. Len(inputs)}

Recorded == {log[i].state : i \in DOMAIN log}

(* A sequence of records is one over the states it holds. *)
LEMMA RecordsOfOwnStates ==
  ASSUME NEW K, NEW s \in Seq(RecordsOf(K))
  PROVE  s \in Seq(RecordsOf({s[i].state : i \in DOMAIN s}))
<1>. DEFINE T == RecordsOf({s[i].state : i \in DOMAIN s})
<1>1. Len(s) \in Nat /\ s \in [1 .. Len(s) -> RecordsOf(K)] /\ DOMAIN s = 1 .. Len(s)
  OBVIOUS
<1>2. ASSUME NEW i \in 1 .. Len(s) PROVE s[i] \in T
  BY <1>1, Zenon DEF RecordsOf
<1>3. s \in [1 .. Len(s) -> T]
  BY <1>1, <1>2, Zenon
<1>4. ASSUME NEW U, s \in [1 .. Len(s) -> U] PROVE s \in Seq(U)
  BY <1>1, <1>4
<1>. QED
  BY <1>3, <1>4, Zenon

(* A new policy has promised nothing yet. *)
LEMMA PromiseInit == Init => PromiseInv
<1>. SUFFICES ASSUME Init PROVE PromiseInv
  BY Zenon
<1>1. log \in Seq(RecordsOf(States))
  BY PolicyAssumption, Zenon DEF Init, RecordsOf, Results
<1>2. log \in Seq(RecordsOf(known))
  BY <1>1, RecordsOfOwnStates DEF Init, PreloadKnown
<1>. QED
  BY <1>2 DEF Init, PromiseInv

(* A step that leaves the set, the inputs, the results and the file alone  *)
(* or ends a round.                                                        *)
LEMMA PromiseQuiet ==
  ASSUME PromiseInv, UNCHANGED <<known, log>>,
         \/ inputs' = <<>> /\ results' = <<>>
         \/ /\ UNCHANGED <<inputs, results>>
            /\ pc' \in {"idle", "sample", "assemble", "evolve"} => inputs = <<>>
            /\ pc' = "pick" => results = <<>>
  PROVE  PromiseInv'
<1>1. CASE inputs' = <<>> /\ results' = <<>>
  <2>1. Len(inputs') = 0 /\ Len(results') = 0
    BY <1>1, Zenon
  <2>2. inputs' \in Seq(known') /\ results' \in Seq(RecordsOf(known'))
    BY <1>1
  <2>. QED
    BY <1>1, <2>1, <2>2 DEF PromiseInv
<1>2. CASE UNCHANGED <<inputs, results>>
  <2>1. UNCHANGED RecordsOf(known)
    BY Zenon DEF RecordsOf
  <2>. QED
    BY <1>2, <2>1 DEF PromiseInv
<1>. QED
  BY <1>1, <1>2, Zenon

(* What a quiet step is for SearchPolicy: a stutter, or Drop. *)
LEMMA QuietSteps ==
  ASSUME PromiseInv, UNCHANGED <<known, log>>,
         (inputs' = <<>> /\ results' = <<>>) \/ UNCHANGED <<inputs, results>>
  PROVE  [Abstract!Next]_(Abstract!policyVars)
<1>1. UNCHANGED Recorded
  BY Zenon DEF Recorded
<1>2. CASE inputs' = <<>> /\ results' = <<>>
  <2>1. Pending' = {}
    BY <1>2 DEF Pending
  <2>. QED
    BY <1>1, <2>1, Zenon DEF Abstract!Next, Abstract!Drop, Pending, Recorded
<1>3. CASE UNCHANGED <<inputs, results>>
  <2>1. UNCHANGED Pending
    BY <1>3, Zenon DEF Pending
  <2>. QED
    BY <1>1, <2>1, Zenon DEF Abstract!policyVars, Pending, Recorded
<1>. QED
  BY <1>2, <1>3, Zenon

(* A state is picked: it is new, and so neither an input nor recorded. *)
LEMMA PickOneStep ==
  ASSUME PromiseInv, PickOne
  PROVE  PromiseInv' /\ [Abstract!Next]_(Abstract!policyVars)
(* Records of fewer states are records of more. *)
<1>RecordsMonotonic.
    ASSUME NEW K, NEW L, K \subseteq L, NEW s \in Seq(RecordsOf(K))
    PROVE  s \in Seq(RecordsOf(L))
  <2>. USE <1>RecordsMonotonic
  <2>1. RecordsOf(K) \subseteq RecordsOf(L)
    BY Zenon DEF RecordsOf
  <2>. QED
    BY <2>1
<1>RecordedStates.
    ASSUME NEW K, NEW s \in Seq(RecordsOf(K)), NEW i \in 1 .. Len(s)
    PROVE  s[i].state \in K
  <2>1. s[i] \in RecordsOf(K)
    OBVIOUS
  <2>. QED
    BY <2>1, Zenon DEF RecordsOf
<1>. DEFINE s == IF FromBest THEN Head(best_states) ELSE Head(random_states)
<1>1. CASE s \in known
  <2>1. UNCHANGED <<known, log, inputs, results>> /\ pc' = "pick" /\ pc = "pick"
    BY <1>1, Zenon DEF PickOne
  <2>2. PromiseInv'
    <3>1. results = <<>>
      BY <2>1, Zenon DEF PromiseInv
    <3>. QED
      BY <2>1, <3>1, PromiseQuiet, Zenon
  <2>. QED
    BY <2>1, <2>2, QuietSteps, Zenon
<1>2. CASE s \notin known
  <2>1. /\ known' = known \cup {s} /\ inputs' = Append(inputs, s)
        /\ UNCHANGED <<log, results>> /\ pc' = "pick" /\ pc = "pick" /\ results = <<>>
    BY <1>2, Zenon DEF PickOne, PromiseInv
  <2>. HIDE DEF s
  <2>2. /\ inputs \in Seq(known') /\ log \in Seq(RecordsOf(known'))
        /\ results' \in Seq(RecordsOf(known')) /\ known \subseteq known'
    BY <2>1, <1>RecordsMonotonic, SMT, SMTT(20) DEF PromiseInv
  <2>3. /\ inputs' \in Seq(known') /\ Len(inputs') = Len(inputs) + 1
        /\ Len(inputs) \in Nat /\ Len(results) = 0
        /\ \A i \in 1 .. Len(inputs) : inputs'[i] = inputs[i]
        /\ inputs'[Len(inputs) + 1] = s
    <3>1. s \in known' /\ Len(inputs) \in Nat
      BY <2>1, <2>2
    <3>2. /\ Append(inputs, s) \in Seq(known')
          /\ Len(Append(inputs, s)) = Len(inputs) + 1
          /\ \A i \in 1 .. Len(inputs) : Append(inputs, s)[i] = inputs[i]
          /\ Append(inputs, s)[Len(inputs) + 1] = s
      BY <3>1, <2>2
    <3>. QED
      BY <2>1, <3>1, <3>2, Zenon
  <2>4. \A i \in 1 .. Len(inputs) : inputs[i] \in known
    BY DEF PromiseInv
  <2>5. \A j \in 1 .. Len(log) : log[j].state \in known
    BY <1>RecordedStates, Zenon DEF PromiseInv
  <2>6. \A i, j \in 1 .. Len(inputs') : inputs'[i] = inputs'[j] => i = j
    <3>. SUFFICES ASSUME NEW i \in 1 .. Len(inputs'), NEW j \in 1 .. Len(inputs'),
                         inputs'[i] = inputs'[j]
                  PROVE  i = j
      BY Zenon
    <3>1. CASE i \in 1 .. Len(inputs) /\ j \in 1 .. Len(inputs)
      BY <3>1, <2>3 DEF PromiseInv
    <3>2. CASE i = Len(inputs) + 1 \/ j = Len(inputs) + 1
      BY <3>2, <2>3, <2>4, <1>2
    <3>. QED
      BY <3>1, <3>2, <2>3
  <2>7. \A i \in 1 .. Len(inputs'), j \in 1 .. Len(log) : inputs'[i] # log[j].state
    BY <2>1, <2>3, <2>5, <1>2 DEF PromiseInv
  <2>8. PromiseInv'
    BY <2>1, <2>2, <2>3, <2>6, <2>7 DEF PromiseInv
  <2>9. Pending' = Pending \cup {s}
    <3>1. Pending = {inputs[i] : i \in 1 .. Len(inputs)}
      BY <2>3 DEF Pending
    <3>2. Pending' = {inputs'[i] : i \in 1 .. Len(inputs) + 1}
      BY <2>1, <2>3 DEF Pending
    <3>. QED
      BY <3>1, <3>2, <2>3
  <2>10. UNCHANGED Recorded
    BY <2>1, Zenon DEF Recorded
  <2>11. s \in known' \ known
    BY <2>1, <1>2, Zenon
  <2>12. Abstract!Offer
    BY <2>1, <2>9, <2>10, <2>11, Zenon DEF Abstract!Offer, Pending, Recorded
  <2>. QED
    BY <2>8, <2>12, Zenon DEF Abstract!Next
<1>. QED
  BY <1>1, <1>2, Zenon

(* A batch is recorded: it is a prefix of the pending inputs. *)
LEMMA MeasureBatchStep ==
  ASSUME PromiseInv, MeasureBatch
  PROVE  PromiseInv' /\ [Abstract!Next]_(Abstract!policyVars)
<1>. DEFINE r == Len(results)
            n == Min({BatchSize, Len(inputs) - r})
<1>1. Len(inputs) \in Nat /\ r \in Nat /\ r < Len(inputs) /\ Len(log) \in Nat
  BY DEF PromiseInv, MeasureBatch
<1>2. n \in Nat /\ r + n <= Len(inputs)
  <2>1. {BatchSize, Len(inputs) - r} \subseteq Nat
    BY <1>1, PolicyAssumption
  <2>2. n \in {BatchSize, Len(inputs) - r}
        /\ \A y \in {BatchSize, Len(inputs) - r} : n <= y
    BY <2>1, MinOfTwo, Zenon
  <2>. QED
    BY <2>1, <2>2, <1>1
<1>. HIDE DEF n
<1>3. PICK c \in [1 .. n -> Costs \cup {MaxFloat}] :
        LET batch == [j \in 1 .. n |-> [state |-> inputs[r + j], cost |-> c[j]]]
        IN results' = results \o batch /\ log' = log \o batch
  BY Zenon DEF MeasureBatch, n
<1>. DEFINE batch == [j \in 1 .. n |-> [state |-> inputs[r + j], cost |-> c[j]]]
<1>4. /\ results' = results \o batch /\ log' = log \o batch
      /\ UNCHANGED <<known, inputs>> /\ pc' = "measure"
  BY <1>3, Zenon DEF MeasureBatch, policy
<1>5. \A j \in 1 .. n : inputs[r + j] \in known
  BY <1>1, <1>2 DEF PromiseInv
<1>6. batch \in Seq(RecordsOf(known)) /\ Len(batch) = n
  <2>1. \A j \in 1 .. n : [state |-> inputs[r + j], cost |-> c[j]] \in RecordsOf(known)
    BY <1>5, Zenon DEF RecordsOf
  <2>2. batch \in [1 .. n -> RecordsOf(known)]
    BY <2>1, Zenon
  <2>. QED
    BY <2>2, <1>2
<1>7. \A j \in 1 .. n : batch[j].state = inputs[r + j]
  BY Zenon
<1>. HIDE DEF batch
<1>8. /\ results' \in Seq(RecordsOf(known)) /\ Len(results') = r + n
      /\ log' \in Seq(RecordsOf(known)) /\ Len(log') = Len(log) + n
      /\ \A j \in 1 .. Len(log) + n :
           log'[j] = IF j <= Len(log) THEN log[j] ELSE batch[j - Len(log)]
  BY <1>4, <1>6 DEF PromiseInv
<1>old. ASSUME NEW j \in 1 .. Len(log)
        PROVE  j \in 1 .. Len(log) + n /\ log'[j] = log[j]
  <2>1. j \in 1 .. Len(log) + n /\ j <= Len(log)
    BY <1>1, <1>2
  <2>. QED
    BY <2>1, <1>8, Zenon
<1>new. ASSUME NEW j \in 1 .. n
        PROVE  Len(log) + j \in 1 .. Len(log) + n /\ log'[Len(log) + j] = batch[j]
  <2>1. Len(log) + j \in 1 .. Len(log) + n /\ ~ (Len(log) + j <= Len(log))
        /\ Len(log) + j - Len(log) = j
    BY <1>1, <1>2
  <2>2. log'[Len(log) + j] = batch[Len(log) + j - Len(log)]
    BY <2>1, <1>8, SMT, SMTT(20)
  <2>. QED
    BY <2>1, <2>2, Zenon
<1>9. ASSUME NEW i \in r + n + 1 .. Len(inputs), NEW j \in 1 .. Len(log')
      PROVE  inputs[i] # log'[j].state
  <2>1. CASE j <= Len(log)
    <3>1. j \in 1 .. Len(log) /\ i \in r + 1 .. Len(inputs)
      BY <2>1, <1>1, <1>2
    <3>2. log'[j] = log[j]
      BY <3>1, <1>old, Zenon
    <3>. QED
      BY <3>1, <3>2, Zenon DEF PromiseInv
  <2>2. CASE j > Len(log)
    <3>0. Len(log') = Len(log) + n
      BY <1>8, Zenon
    <3>a. /\ j \in 1 .. Len(log) + n /\ ~ (j <= Len(log))
          /\ j - Len(log) \in 1 .. n
      BY <2>2, <3>0, <1>1, <1>2
    <3>b. log'[j] = batch[j - Len(log)]
      BY <3>a, <1>8, Zenon
    <3>1. j - Len(log) \in 1 .. n /\ log'[j] = batch[j - Len(log)]
      BY <3>a, <3>b, Zenon
    <3>2. log'[j].state = inputs[r + (j - Len(log))]
      BY <3>1, <1>7, Zenon
    <3>3. r + (j - Len(log)) \in 1 .. Len(inputs) /\ r + (j - Len(log)) # i
          /\ i \in 1 .. Len(inputs)
      BY <3>1, <1>1, <1>2, SMT, SMTT(20)
    <3>. QED
      BY <3>2, <3>3, ZenonT(40) DEF PromiseInv
  <2>. QED
    BY <2>1, <2>2, <1>1, <1>8
<1>10. PromiseInv'
  <2>1. RecordsOf(known') = RecordsOf(known)
    BY <1>4, Zenon DEF RecordsOf
  <2>. QED
    BY <1>1, <1>2, <1>4, <1>8, <1>9, <2>1, SMT, SMTT(20) DEF PromiseInv
<1>. DEFINE B == {inputs[r + j] : j \in 1 .. n}
<1>11. B \in SUBSET (Pending \ Recorded)
  <2>1. ASSUME NEW j \in 1 .. n PROVE inputs[r + j] \in Pending \ Recorded
    <3>1. r + j \in r + 1 .. Len(inputs)
      BY <1>1, <1>2
    <3>a. log \in Seq(RecordsOf(known))
      BY Zenon DEF PromiseInv
    <3>b. DOMAIN log = 1 .. Len(log)
      BY <3>a
    <3>c. \A k \in 1 .. Len(log) : inputs[r + j] # log[k].state
      BY <3>1, Zenon DEF PromiseInv
    <3>2. \A k \in DOMAIN log : inputs[r + j] # log[k].state
      BY <3>b, <3>c, Zenon
    <3>. QED
      BY <3>1, <3>2, Zenon DEF Pending, Recorded
  <2>. QED
    BY <2>1, Zenon
<1>12. Recorded' = Recorded \cup B
  <2>1. Recorded = {log[j].state : j \in 1 .. Len(log)}
    <3>1. log \in Seq(RecordsOf(known))
      BY Zenon DEF PromiseInv
    <3>2. DOMAIN log = 1 .. Len(log)
      BY <3>1
    <3>. QED
      BY <3>2, Zenon DEF Recorded
  <2>2. Recorded' = {log'[j].state : j \in 1 .. Len(log) + n}
    <3>1. DOMAIN log' = 1 .. Len(log) + n
      BY <1>8
    <3>. QED
      BY <3>1, Zenon DEF Recorded
  <2>3. ASSUME NEW j \in 1 .. n
        PROVE  Len(log) + j \in 1 .. Len(log) + n
               /\ log'[Len(log) + j].state = inputs[r + j]
    BY <1>7, <1>new, Zenon
  <2>4. ASSUME NEW j \in 1 .. Len(log) + n
        PROVE  log'[j].state \in Recorded \cup B
    <3>1. CASE j <= Len(log)
      BY <3>1, <1>1, <1>8, <2>1, SMT, SMTT(20)
    <3>2. CASE j > Len(log)
      <4>1. j - Len(log) \in 1 .. n /\ Len(log) + (j - Len(log)) = j
        BY <3>2, <1>1, <1>2
      <4>. QED
        BY <4>1, <2>3, Zenon
    <3>. QED
      BY <3>1, <3>2, <1>1, <1>2
  <2>5. ASSUME NEW j \in 1 .. Len(log) PROVE log[j].state \in Recorded'
    BY <1>old, <2>2, Zenon
  <2>6. ASSUME NEW j \in 1 .. n PROVE inputs[r + j] \in Recorded'
    BY <2>2, <2>3, Zenon
  <2>. QED
    BY <2>1, <2>2, <2>4, <2>5, <2>6, SMT, ZenonT(40)
<1>13. Pending' = Pending \ B
  <2>1. Pending' = {inputs[i] : i \in r + n + 1 .. Len(inputs)}
    BY <1>4, <1>8, Zenon DEF Pending
  <2>2. ASSUME NEW i \in r + n + 1 .. Len(inputs) PROVE inputs[i] \in Pending \ B
    <3>1. i \in r + 1 .. Len(inputs) /\ i \in 1 .. Len(inputs)
      BY <1>1, <1>2
    <3>2. \A j \in 1 .. n : r + j \in 1 .. Len(inputs) /\ r + j # i
      BY <1>1, <1>2
    <3>. QED
      BY <3>1, <3>2, Zenon DEF Pending, PromiseInv
  <2>3. ASSUME NEW i \in r + 1 .. Len(inputs), inputs[i] \notin B
        PROVE  i \in r + n + 1 .. Len(inputs)
    <3>1. CASE i <= r + n
      <4>1. i - r \in 1 .. n /\ r + (i - r) = i
        BY <3>1, <1>1, <1>2
      <4>. QED
        BY <4>1, <2>3, Zenon
    <3>. QED
      BY <3>1, <1>1, <1>2
  <2>. QED
    BY <2>1, <2>2, <2>3, ZenonT(40) DEF Pending
<1>14. Abstract!Record
  BY <1>4, <1>11, <1>12, <1>13, Zenon DEF Abstract!Record, Pending, Recorded
<1>. QED
  BY <1>10, <1>14, Zenon DEF Abstract!Next

(* A new process knows the states of the file. *)
LEMMA RestartStep ==
  ASSUME PromiseInv, Restart
  PROVE  PromiseInv' /\ [Abstract!Next]_(Abstract!policyVars)
<1>1. /\ known' = Recorded /\ log' = log /\ inputs' = <<>> /\ results' = <<>>
  BY Zenon DEF Restart, PreloadKnown, Recorded
<1>2. log' \in Seq(RecordsOf(known'))
  BY <1>1, RecordsOfOwnStates DEF PromiseInv, Recorded
<1>3. PromiseInv'
  <2>1. Len(inputs') = 0 /\ Len(results') = 0
    BY <1>1, Zenon
  <2>2. inputs' \in Seq(known') /\ results' \in Seq(RecordsOf(known'))
    BY <1>1
  <2>. QED
    BY <1>1, <1>2, <2>1, <2>2 DEF PromiseInv
<1>4. Pending' = {} /\ Recorded' = Recorded
  BY <1>1 DEF Pending, Recorded
<1>5. Abstract!Restart
  BY <1>1, <1>4, Zenon DEF Abstract!Restart, Pending, Recorded
<1>. QED
  BY <1>3, <1>5, Zenon DEF Abstract!Next

(* Every step keeps the promise, and is a step of the abstract search or a *)
(* stutter.                                                                *)
LEMMA PromiseNext ==
  ASSUME PromiseInv, [Next]_vars
  PROVE  PromiseInv' /\ [Abstract!Next]_(Abstract!policyVars)
<1>. DEFINE Ended == UNCHANGED <<known, log>> /\ inputs' = <<>> /\ results' = <<>>
            Same == /\ UNCHANGED <<known, log, inputs, results>>
                    /\ pc' \in {"idle", "sample", "assemble", "evolve"} => inputs = <<>>
                    /\ pc' = "pick" => results = <<>>
<1>empty. inputs = <<>> => results = <<>>
  BY DEF PromiseInv
<1>1. Call => Same
  BY Zenon DEF Call, policy
<1>2. Round => Ended
  BY Zenon DEF Round
<1>3. EndSearch => Ended
  BY Zenon DEF EndSearch, EndCall, policy
<1>4. ASSUME NEW found, SampleIter(found) PROVE Same
  BY <1>4, Zenon DEF SampleIter, PromiseInv
<1>5. EndSample => Same
  BY Zenon DEF EndSample, PromiseInv
<1>6. Assemble => Same
  BY Zenon DEF Assemble, PromiseInv, policy
<1>7. AssembleUndefined => Same
  BY Zenon DEF AssembleUndefined, policy
<1>8. Visit => Same
  BY Zenon DEF Visit, PromiseInv, policy
<1>9. Mutate => Same
  BY Zenon DEF Mutate, PromiseInv, policy
<1>10. EndPotential => Same
  BY Zenon DEF EndPotential, PromiseInv
<1>11. EndEvolution => Ended \/ Same
  <2>1. CASE op = "best"
    BY <2>1, Zenon DEF EndEvolution, EndCall, policy
  <2>2. CASE op # "best"
    BY <2>2, <1>empty, Zenon DEF EndEvolution, PromiseInv, policy
  <2>. QED
    BY <2>1, <2>2, Zenon
<1>12. EmptyRound => Ended \/ Same
  <2>1. CASE call.retry > 0
    BY <2>1, Zenon DEF EmptyRound, policy
  <2>2. CASE ~ (call.retry > 0)
    BY <2>2, Zenon DEF EmptyRound, EndCall, policy
  <2>. QED
    BY <2>1, <2>2, Zenon
<1>13. StartMeasure => Same
  BY Zenon DEF StartMeasure, policy
<1>14. EndContinue => Ended
  BY Zenon DEF EndContinue, EndCall
<1>15. EndEarly => Ended
  BY Zenon DEF EndEarly, EndCall, policy
<1>16. EndRound => Same
  BY Zenon DEF EndRound
<1>17. Raise => Ended
  BY Zenon DEF Raise, EndCall, policy
<1>18. (Terminated \/ UNCHANGED vars) => Same
  BY Zenon DEF Terminated, PromiseInv, vars, policy
<1>19. Ended \/ Same \/ PickOne \/ MeasureBatch \/ Restart
  <2>. HIDE DEF Ended, Same
  <2>. QED
    BY <1>1, <1>2, <1>3, <1>4, <1>5, <1>6, <1>7, <1>8, <1>9, <1>10, <1>11,
       <1>12, <1>13, <1>14, <1>15, <1>16, <1>17, <1>18, Zenon DEF Next, Step
<1>20. CASE Ended
  BY <1>20, PromiseQuiet, QuietSteps, Zenon
<1>21. CASE Same
  BY <1>21, PromiseQuiet, QuietSteps, Zenon
<1>. QED
  BY <1>19, <1>20, <1>21, PickOneStep, MeasureBatchStep, RestartStep, Zenon

(* The policy keeps its promise, for every model, population, parameter    *)
(* and record file, across exceptions and restarts: no known or recorded   *)
(* state is handed to the measurer.  Each step of SketchPolicy is a step   *)
(* of SearchPolicy or leaves its variables alone.                          *)
THEOREM KeepsPromiseHolds == Spec => KeepsPromise
<1>1. Init => PromiseInv
  BY PromiseInit, Zenon
<1>2. PromiseInv /\ [Next]_vars => PromiseInv' /\ [Abstract!Next]_(Abstract!policyVars)
  BY PromiseNext, Zenon
<1>3. Init => Abstract!Init
  BY DEF Init, Abstract!Init, PreloadKnown
<1>. QED
  BY <1>1, <1>2, <1>3, PTL DEF Spec, KeepsPromise, Abstract!Spec
-----------------------------------------------------------------------------
(* The types of a call, of a sampling and of an evolutionary search. *)
CallTypes == [ct : 0 .. NTrials, retry : 0 .. RetryCount,
              m : Statuses(AllCosts, States \cup {NoState})]

SampleTypes == [states : SUBSET States, count : Nat, unchanged : Nat]

SearchTypes == [mode : {"potential", "final"}, k : Nat, todo : SUBSET States,
                heap : SUBSET States, in_heap : SUBSET States, seen : SUBSET States]

(* What the policy object and the record file hold. *)
PolicyState ==
  /\ known \subseteq States /\ vector \in Seq(States) /\ costs \in Seq(AllCosts)
  /\ min_pop \in 1 .. MinPop /\ change_iter \in 0 .. PotentialIter - 1
  /\ potential_space_cache \subseteq States /\ model \in Models
  /\ Cardinality(potential_space_cache) <= PotentialSize
  /\ log \in Seq(Results)

(* What a call keeps to itself. *)
CallState ==
  /\ pc \in {"idle", "round", "sample", "assemble", "evolve", "pick", "measure", "undefined"}
  /\ op \in Ops /\ call \in CallTypes /\ sample \in SampleTypes
  /\ ga \in SearchTypes /\ ga.heap \subseteq ga.in_heap
  /\ best_states \in Seq(States) /\ random_states \in Seq(States)
  /\ inputs \in Seq(States) /\ results \in Seq(Results)

(* The inputs picked whose throughputs are still to come: the argsort of   *)
(* the throughputs stays within the measured states, and Search within its *)
(* budget.                                                                 *)
Open == IF pc \in {"pick", "measure"} THEN Len(inputs) ELSE 0

LengthInv ==
  /\ Len(costs) + Open <= Len(vector)
  /\ op = "search" => call.ct + Open <= NTrials

(* The heap of a search and the set of states that may not enter it. *)
HeapInv == pc = "evolve" => ga.in_heap = known \cup ga.heap /\ HeapKeepsBest

PolicyInv == PromiseInv /\ PolicyState /\ CallState /\ LengthInv /\ HeapInv

(* The invariant implies what the runs check. *)
LEMMA InvTypes == PolicyInv => TypeOK /\ SearchBudget /\ HeapKeepsBest
<1>. SUFFICES ASSUME PolicyInv PROVE TypeOK /\ SearchBudget /\ HeapKeepsBest
  BY Zenon
<1>1. call.ct \in 0 .. NTrials /\ call.retry \in 0 .. RetryCount /\ NTrials \in Nat
  BY PolicyAssumption, Zenon DEF PolicyInv, CallState, CallTypes
<1>2. TypeOK
  <2>1. call.ct \in Nat
    BY <1>1, SMT, SMTT(20)
  <2>. QED
    BY <1>1, <2>1, Zenon DEF PolicyInv, PolicyState, CallState, TypeOK, AllCosts
<1>3. SearchBudget
  BY Zenon DEF PolicyInv, LengthInv, SearchBudget, Open
<1>4. HeapKeepsBest
  BY Zenon DEF PolicyInv, HeapInv, HeapKeepsBest
<1>. QED
  BY <1>2, <1>3, <1>4, Zenon

(* The parameters, one by one. *)
LEMMA Parameters ==
  /\ Population \in Nat /\ MinPop \in Nat /\ PotentialIter \in Nat
  /\ PotentialSize \in Nat /\ NumMeasure \in Nat /\ BatchSize \in Nat
  /\ MinPop # 0 /\ PotentialIter # 0 /\ PotentialSize # 0 /\ NumMeasure # 0
  /\ BatchSize # 0 /\ UseMeasured \in Nat /\ NumIters \in Nat
  /\ NumItersPotential \in Nat /\ NumRandom \in Nat /\ RetryCount \in Nat
  /\ NTrials \in Nat /\ EarlyStopping \in Nat
  /\ Key \in Keys /\ FlopCt \in [Keys -> Int] /\ IsFiniteSet(States)
  /\ Models \subseteq [States -> Int] /\ PSA \in [States -> Int]
  /\ Sampleable \subseteq States
  BY PolicyAssumption, Zenon

(* The empty call, sampling and search have their types. *)
LEMMA NoneTypes ==
  /\ NoCall \in CallTypes /\ NoCall.ct = 0 /\ NoSample \in SampleTypes
  /\ NoEvolution \in SearchTypes /\ NoEvolution.heap \subseteq NoEvolution.in_heap
<1>1. ResetStatus \in Statuses(AllCosts, States \cup {NoState})
  BY Zenon DEF ResetStatus, Statuses, AllCosts
<1>2. NTrials \in Nat /\ RetryCount \in Nat
  BY PolicyAssumption, Zenon
<1>3. NoCall \in CallTypes /\ NoCall.ct = 0
  BY <1>1, <1>2, SMT, SMTT(20) DEF NoCall, CallTypes
<1>4. NoSample \in SampleTypes
  BY Zenon DEF NoSample, SampleTypes
<1>5. NoEvolution \in SearchTypes /\ NoEvolution.heap \subseteq NoEvolution.in_heap
  BY Zenon DEF NoEvolution, Evolution, SearchTypes
<1>. QED
  BY <1>3, <1>4, <1>5, Zenon

(* A step that opens no input leaves the lengths in order. *)
LEMMA LengthQuiet ==
  ASSUME PolicyInv, CallState', UNCHANGED <<vector, costs>>,
         Open' = 0 \/ (Open' = Open /\ call'.ct = call.ct /\ op' = op)
  PROVE  LengthInv'
<1>1. /\ Len(vector) \in Nat /\ Len(costs) \in Nat /\ Open \in Nat
      /\ Len(costs) + Open <= Len(vector)
  <2>1. /\ vector \in Seq(States) /\ costs \in Seq(AllCosts) /\ inputs \in Seq(States)
        /\ Len(costs) + Open <= Len(vector)
    BY Zenon DEF PolicyInv, PolicyState, CallState, LengthInv
  <2>. QED
    BY <2>1, SMT, SMTT(20) DEF Open
<1>2. call'.ct \in 0 .. NTrials /\ NTrials \in Nat
  BY Parameters, Zenon DEF CallState, CallTypes
<1>3. Len(costs') + Open' <= Len(vector')
  BY <1>1, SMT, SMTT(20)
<1>4. op' = "search" => call'.ct + Open' <= NTrials
  BY <1>2, SMT, SMTT(20) DEF PolicyInv, LengthInv
<1>. QED
  BY <1>3, <1>4, Zenon DEF LengthInv

(* A step that touches neither the policy object nor the file keeps their  *)
(* types.                                                                  *)
LEMMA PolicyStateSame ==
  ASSUME PolicyInv, UNCHANGED <<policy, log>>
  PROVE  PolicyState'
BY Zenon DEF PolicyInv, PolicyState, policy
-----------------------------------------------------------------------------

(* A finite set has a size. *)
LEMMA FiniteSize ==
  ASSUME Library, NEW S, IsFiniteSet(S)
  PROVE  Cardinality(S) \in Nat
BY Zenon DEF Library

(* A part of a finite set is finite, no larger, and everything when it is  *)
(* as large.                                                               *)
LEMMA FiniteSubset ==
  ASSUME Library, NEW S, IsFiniteSet(S), NEW T \in SUBSET S
  PROVE  /\ IsFiniteSet(T) /\ Cardinality(T) <= Cardinality(S)
         /\ Cardinality(S) = Cardinality(T) => S = T
BY Zenon DEF Library

(* The heap of the size best candidates under the scores. *)
HeapBest(heap, candidates, size, scores) ==
  /\ heap \subseteq candidates
  /\ Cardinality(heap) = Min({size, Cardinality(candidates)})
  /\ \A s \in heap, t \in candidates \ heap : scores[s] >= scores[t]

(* The heap property that the runs check, in the form the steps preserve. *)
LEMMA HeapBestIs ==
  HeapKeepsBest <=> (pc = "evolve" => HeapBest(ga.heap, ga.seen \ known, OutSize, Scores))
BY Zenon DEF HeapKeepsBest, HeapBest

(* Candidates and heap are finite, the heap no larger than its size. *)
LEMMA HeapSizes ==
  ASSUME Library, NEW candidates \in SUBSET States, NEW heap, NEW size \in Nat, NEW scores,
         HeapBest(heap, candidates, size, scores)
  PROVE  /\ IsFiniteSet(candidates) /\ IsFiniteSet(heap)
         /\ Cardinality(candidates) \in Nat /\ Cardinality(heap) \in Nat
         /\ Cardinality(heap) <= size /\ Cardinality(heap) <= Cardinality(candidates)
         /\ Cardinality(heap) < size => heap = candidates
<1>1. IsFiniteSet(candidates) /\ heap \subseteq candidates
  BY Parameters, FiniteSubset, Zenon DEF HeapBest
<1>2. /\ IsFiniteSet(heap) /\ Cardinality(heap) <= Cardinality(candidates)
      /\ Cardinality(heap) = Cardinality(candidates) => heap = candidates
  BY <1>1, FiniteSubset, Zenon
<1>3. Cardinality(candidates) \in Nat /\ Cardinality(heap) \in Nat
  BY <1>1, <1>2, FiniteSize, Zenon
<1>. DEFINE m == Min({size, Cardinality(candidates)})
<1>4. m \in {size, Cardinality(candidates)} /\ m <= size
  BY <1>3, MinOfTwo, Zenon
<1>5. Cardinality(heap) = m
  BY Zenon DEF HeapBest
<1>. HIDE DEF m
<1>6. Cardinality(heap) <= size
  BY <1>4, <1>5, Zenon
<1>7. Cardinality(heap) < size => Cardinality(heap) = Cardinality(candidates)
  BY <1>3, <1>4, <1>5, SMT, SMTT(20)
<1>. QED
  BY <1>1, <1>2, <1>3, <1>6, <1>7, Zenon

(* One element more. *)
LEMMA OneMore ==
  ASSUME Library, NEW S, NEW x, IsFiniteSet(S)
  PROVE  /\ IsFiniteSet(S \cup {x})
         /\ Cardinality(S \cup {x}) = IF x \in S THEN Cardinality(S) ELSE Cardinality(S) + 1
BY Zenon DEF Library

(* One element less. *)
LEMMA OneLess ==
  ASSUME Library, NEW S, NEW x, IsFiniteSet(S)
  PROVE  /\ IsFiniteSet(S \ {x})
         /\ Cardinality(S \ {x}) = IF x \in S THEN Cardinality(S) - 1 ELSE Cardinality(S)
BY Zenon DEF Library

(* What a visit changes of the search: the state is seen, and the heap and *)
(* the set beside it may change.                                           *)
Visited(G, s) == [G EXCEPT !.todo = @ \ {s}, !.seen = @ \cup {s}]

Entered(G, s) == [G EXCEPT !.heap = @ \cup {s}, !.in_heap = @ \cup {s}]

Replaced(G, front, s) == [G EXCEPT !.heap = (@ \ {front}) \cup {s},
                                   !.in_heap = (@ \ {front}) \cup {s}]

(* A visit keeps the best candidates in the heap. *)
LEMMA VisitStep ==
  ASSUME Library, PolicyInv, Visit
  PROVE  PolicyState' /\ CallState' /\ LengthInv' /\ HeapInv'
(* While there is room every new candidate enters. *)
<1>HeapGrows.
    ASSUME NEW candidates \in SUBSET States, NEW heap, NEW size \in Nat, NEW scores,
           HeapBest(heap, candidates, size, scores), Cardinality(heap) < size,
           NEW s \in States, s \notin heap
    PROVE  HeapBest(heap \cup {s}, candidates \cup {s}, size, scores)
  <2>. USE <1>HeapGrows
  <2>1. heap = candidates /\ IsFiniteSet(candidates) /\ Cardinality(heap) \in Nat
    BY HeapSizes, Zenon
  <2>. DEFINE n == Cardinality(candidates \cup {s})
  <2>2. n = Cardinality(candidates) + 1
    BY <2>1, OneMore, Zenon
  <2>3. n \in Nat /\ n <= size
    BY <2>1, <2>2, SMT, SMTT(20)
  <2>. HIDE DEF n
  <2>4. Min({size, n}) \in {size, n} /\ \A y \in {size, n} : Min({size, n}) <= y
    BY <2>3, MinOfTwo, Zenon
  <2>5. Min({size, n}) = n
    BY <2>3, <2>4, SMT, SMTT(20)
  <2>. QED
    BY <2>1, <2>5, Zenon DEF HeapBest, n
(* A full heap stays as large as it may be when a candidate is added. *)
<1>HeapStaysFull.
    ASSUME NEW candidates \in SUBSET States, NEW heap, NEW size \in Nat, NEW scores,
           HeapBest(heap, candidates, size, scores), Cardinality(heap) >= size,
           NEW s \in States
    PROVE  Cardinality(heap) = Min({size, Cardinality(candidates \cup {s})})
  <2>. USE <1>HeapStaysFull
  <2>1. /\ IsFiniteSet(candidates) /\ Cardinality(candidates) \in Nat
        /\ Cardinality(heap) \in Nat
        /\ Cardinality(heap) <= size /\ Cardinality(heap) <= Cardinality(candidates)
    BY HeapSizes, Zenon
  <2>. DEFINE n == Cardinality(candidates \cup {s})
  <2>2. n = Cardinality(candidates) \/ n = Cardinality(candidates) + 1
    <3>1. CASE s \in candidates
      BY <3>1, Zenon
    <3>2. CASE s \notin candidates
      BY <2>1, <3>2, OneMore, Zenon
    <3>. QED
      BY <3>1, <3>2, Zenon
  <2>. HIDE DEF n
  <2>3. n \in Nat /\ n >= size /\ Cardinality(heap) = size
    BY <2>1, <2>2, SMT, SMTT(20)
  <2>4. Min({size, n}) \in {size, n} /\ \A y \in {size, n} : Min({size, n}) <= y
    BY <2>3, MinOfTwo, Zenon
  <2>5. Min({size, n}) = size
    BY <2>3, <2>4, SMT, SMTT(20)
  <2>. QED
    BY <2>3, <2>5, Zenon DEF n
(* A candidate no better than the heap's front stays outside. *)
<1>HeapRefuses.
    ASSUME NEW candidates \in SUBSET States, NEW heap, NEW size \in Nat,
           NEW scores \in [States -> Int],
           HeapBest(heap, candidates, size, scores), Cardinality(heap) >= size,
           NEW s \in States, NEW front \in heap,
           \A t \in heap : scores[front] <= scores[t], ~ (scores[s] > scores[front])
    PROVE  HeapBest(heap, candidates \cup {s}, size, scores)
  <2>. USE <1>HeapRefuses
  <2>1. Cardinality(heap) = Min({size, Cardinality(candidates \cup {s})})
    BY <1>HeapStaysFull, SMT, SMTT(20)
  <2>2. heap \subseteq candidates /\ heap \subseteq States
    BY Zenon DEF HeapBest
  <2>3. ASSUME NEW h \in heap, NEW t \in (candidates \cup {s}) \ heap
        PROVE  scores[h] >= scores[t]
    <3>1. CASE t \in candidates
      BY <3>1, Zenon DEF HeapBest
    <3>2. CASE t = s
      BY <2>2, <3>2, SMT, SMTT(20)
    <3>. QED
      BY <3>1, <3>2, Zenon
  <2>. QED
    BY <2>1, <2>2, <2>3, Zenon DEF HeapBest
(* A better one takes the front's place. *)
<1>HeapReplaces.
    ASSUME NEW candidates \in SUBSET States, NEW heap, NEW size \in Nat,
           NEW scores \in [States -> Int],
           HeapBest(heap, candidates, size, scores), Cardinality(heap) >= size,
           NEW s \in States, s \notin heap, NEW front \in heap,
           \A t \in heap : scores[front] <= scores[t], scores[s] > scores[front]
    PROVE  HeapBest((heap \ {front}) \cup {s}, candidates \cup {s}, size, scores)
  <2>. USE <1>HeapReplaces
  <2>. DEFINE new == (heap \ {front}) \cup {s}
  <2>1. heap \subseteq candidates /\ heap \subseteq States /\ candidates \subseteq States
    BY Zenon DEF HeapBest
  <2>2. Cardinality(new) = Cardinality(heap)
    <3>1. IsFiniteSet(heap) /\ Cardinality(heap) \in Nat
      BY HeapSizes, Zenon
    <3>2. /\ IsFiniteSet(heap \ {front})
          /\ Cardinality(heap \ {front}) = Cardinality(heap) - 1
      BY <3>1, OneLess, Zenon
    <3>3. s \notin heap \ {front}
      BY Zenon
    <3>4. Cardinality(new) = Cardinality(heap \ {front}) + 1
      BY <3>2, <3>3, OneMore, Zenon
    <3>. QED
      BY <3>1, <3>2, <3>4, SMT, SMTT(20)
  <2>3. Cardinality(heap) = Min({size, Cardinality(candidates \cup {s})})
    BY <1>HeapStaysFull, SMT, SMTT(20)
  <2>4. ASSUME NEW h \in new, NEW t \in (candidates \cup {s}) \ new
        PROVE  scores[h] >= scores[t]
    <3>1. /\ scores[front] \in Int /\ scores[s] \in Int /\ scores[t] \in Int
          /\ scores[h] \in Int
      BY <2>1, Zenon
    <3>2. scores[h] >= scores[front]
      BY <2>1, <3>1, SMT, SMTT(20)
    <3>3. t = front \/ t \in candidates \ heap
      BY Zenon
    <3>4. CASE t \in candidates \ heap
      <4>1. scores[front] >= scores[t]
        BY <3>4, Zenon DEF HeapBest
      <4>. QED
        BY <3>1, <3>2, <4>1, SMT, SMTT(20)
    <3>. QED
      BY <3>2, <3>3, <3>4, Zenon
  <2>5. new \subseteq candidates \cup {s}
    BY <2>1, Zenon
  <2>. QED
    BY <2>2, <2>3, <2>4, <2>5, Zenon DEF HeapBest
<1>VisitedFields.
    ASSUME NEW G \in SearchTypes, NEW s \in States
    PROVE  /\ Visited(G, s) \in SearchTypes
           /\ Visited(G, s).mode = G.mode /\ Visited(G, s).heap = G.heap
           /\ Visited(G, s).in_heap = G.in_heap
           /\ Visited(G, s).seen = G.seen \cup {s}
  BY Zenon DEF Visited, SearchTypes
<1>EnteredFields.
    ASSUME NEW G \in SearchTypes, NEW s \in States
    PROVE  /\ Entered(G, s) \in SearchTypes
           /\ Entered(G, s).mode = G.mode /\ Entered(G, s).seen = G.seen
           /\ Entered(G, s).heap = G.heap \cup {s}
           /\ Entered(G, s).in_heap = G.in_heap \cup {s}
  BY Zenon DEF Entered, SearchTypes
<1>ReplacedFields.
    ASSUME NEW G \in SearchTypes, NEW s \in States, NEW front
    PROVE  /\ Replaced(G, front, s) \in SearchTypes
           /\ Replaced(G, front, s).mode = G.mode /\ Replaced(G, front, s).seen = G.seen
           /\ Replaced(G, front, s).heap = (G.heap \ {front}) \cup {s}
           /\ Replaced(G, front, s).in_heap = (G.in_heap \ {front}) \cup {s}
  BY Zenon DEF Replaced, SearchTypes
(* The four outcomes of a visit. *)
<1>VisitCases.
    \E s \in ga.todo :
      \/ s \in ga.in_heap /\ ga' = Visited(ga, s)
      \/ /\ s \notin ga.in_heap /\ Cardinality(ga.heap) < OutSize
         /\ ga' = Entered(Visited(ga, s), s)
      \/ /\ s \notin ga.in_heap /\ Cardinality(ga.heap) >= OutSize
         /\ \E front \in HeapFronts :
              \/ Scores[s] > Scores[front] /\ ga' = Replaced(Visited(ga, s), front, s)
              \/ ~ (Scores[s] > Scores[front]) /\ ga' = Visited(ga, s)
  BY Zenon DEF Visit, Visited, Entered, Replaced
(* The modes of a search. *)
<1>SearchScores.
    Scores \in [States -> Int] /\ OutSize \in Nat
  BY Parameters, SMT, SMTT(20) DEF Scores, OutSize, PolicyInv, PolicyState
<1>1. pc = "evolve" /\ pc' = "evolve" /\ UNCHANGED <<known, vector, costs, model, op, call>>
  BY Zenon DEF Visit, policy
<1>2. PolicyState'
  BY PolicyStateSame, Zenon DEF Visit
<1>3. PICK s \in ga.todo :
        \/ s \in ga.in_heap /\ ga' = Visited(ga, s)
        \/ /\ s \notin ga.in_heap /\ Cardinality(ga.heap) < OutSize
           /\ ga' = Entered(Visited(ga, s), s)
        \/ /\ s \notin ga.in_heap /\ Cardinality(ga.heap) >= OutSize
           /\ \E front \in HeapFronts :
                \/ Scores[s] > Scores[front] /\ ga' = Replaced(Visited(ga, s), front, s)
                \/ ~ (Scores[s] > Scores[front]) /\ ga' = Visited(ga, s)
  BY <1>VisitCases, Zenon
<1>4. /\ ga \in SearchTypes /\ ga.in_heap = known \cup ga.heap /\ known \subseteq States
      /\ s \in States /\ ga.seen \subseteq States
  BY <1>1, Zenon DEF PolicyInv, PolicyState, CallState, HeapInv, SearchTypes
<1>5. HeapBest(ga.heap, ga.seen \ known, OutSize, Scores)
  BY <1>1, HeapBestIs, Zenon DEF PolicyInv, HeapInv
<1>6. ga.heap \cap known = {} /\ ga.seen \ known \in SUBSET States /\ ga.heap \subseteq States
  BY <1>4, <1>5, Zenon DEF HeapBest
<1>7. Scores \in [States -> Int] /\ OutSize \in Nat
  BY <1>SearchScores, Zenon
<1>8. /\ Visited(ga, s) \in SearchTypes /\ Visited(ga, s).mode = ga.mode
      /\ Visited(ga, s).heap = ga.heap /\ Visited(ga, s).in_heap = ga.in_heap
      /\ Visited(ga, s).seen = ga.seen \cup {s}
  BY <1>4, <1>VisitedFields, Zenon
<1>. DEFINE Goal == /\ ga' \in SearchTypes /\ ga'.mode = ga.mode
                    /\ ga'.in_heap = known \cup ga'.heap
                    /\ HeapBest(ga'.heap, ga'.seen \ known, OutSize, Scores)
<1>9. ASSUME s \in ga.in_heap, ga' = Visited(ga, s) PROVE Goal
  <2>1. ga'.seen \ known = ga.seen \ known
    <3>1. s \in known \/ s \in ga.seen
      BY <1>4, <1>5, <1>9, Zenon DEF HeapBest
    <3>2. ga'.seen = ga.seen \cup {s}
      BY <1>8, <1>9, Zenon
    <3>. QED
      BY <3>1, <3>2, Zenon
  <2>. QED
    BY <1>4, <1>5, <1>8, <1>9, <2>1, Zenon
<1>10. ASSUME s \notin ga.in_heap
       PROVE  s \notin ga.heap /\ (ga.seen \cup {s}) \ known = (ga.seen \ known) \cup {s}
  BY <1>4, <1>10, Zenon
<1>11. ASSUME s \notin ga.in_heap, Cardinality(ga.heap) < OutSize,
              ga' = Entered(Visited(ga, s), s)
       PROVE  Goal
  <2>1. /\ ga' \in SearchTypes /\ ga'.mode = ga.mode /\ ga'.seen = ga.seen \cup {s}
        /\ ga'.heap = ga.heap \cup {s} /\ ga'.in_heap = ga.in_heap \cup {s}
    BY <1>4, <1>8, <1>11, <1>EnteredFields, ZenonT(40)
  <2>2. HeapBest(ga.heap \cup {s}, (ga.seen \ known) \cup {s}, OutSize, Scores)
    BY <1>4, <1>5, <1>6, <1>7, <1>10, <1>11, <1>HeapGrows, Zenon
  <2>3. ga'.in_heap = known \cup ga'.heap
    BY <1>4, <2>1, Zenon
  <2>. QED
    BY <2>1, <2>2, <2>3, <1>10, <1>11, Zenon
<1>12. ASSUME s \notin ga.in_heap, Cardinality(ga.heap) >= OutSize, NEW front \in HeapFronts,
              \/ Scores[s] > Scores[front] /\ ga' = Replaced(Visited(ga, s), front, s)
              \/ ~ (Scores[s] > Scores[front]) /\ ga' = Visited(ga, s)
       PROVE  Goal
  <2>1. front \in ga.heap /\ \A t \in ga.heap : Scores[front] <= Scores[t]
    BY <1>12, Zenon DEF HeapFronts
  <2>2. CASE Scores[s] > Scores[front] /\ ga' = Replaced(Visited(ga, s), front, s)
    <3>1. /\ ga' \in SearchTypes /\ ga'.mode = ga.mode /\ ga'.seen = ga.seen \cup {s}
          /\ ga'.heap = (ga.heap \ {front}) \cup {s}
          /\ ga'.in_heap = (ga.in_heap \ {front}) \cup {s}
      BY <1>4, <1>8, <2>2, <1>ReplacedFields, SMT, SMTT(20)
    <3>2. HeapBest((ga.heap \ {front}) \cup {s}, (ga.seen \ known) \cup {s}, OutSize, Scores)
      BY <1>4, <1>5, <1>6, <1>7, <1>10, <1>12, <2>1, <2>2, <1>HeapReplaces, Zenon
    <3>3. ga'.in_heap = known \cup ga'.heap
      BY <1>4, <1>6, <2>1, <3>1, Zenon
    <3>. QED
      BY <3>1, <3>2, <3>3, <1>10, <1>12, Zenon
  <2>3. CASE ~ (Scores[s] > Scores[front]) /\ ga' = Visited(ga, s)
    <3>1. HeapBest(ga.heap, (ga.seen \ known) \cup {s}, OutSize, Scores)
      BY <1>4, <1>5, <1>6, <1>7, <1>12, <2>1, <2>3, <1>HeapRefuses, Zenon
    <3>. QED
      BY <3>1, <2>3, <1>4, <1>8, <1>10, <1>12, Zenon
  <2>. QED
    BY <1>12, <2>2, <2>3, ZenonT(40)
<1>13. Goal
  BY <1>3, <1>9, <1>11, <1>12, Zenon
<1>14. CallState'
  BY <1>13, Zenon DEF Visit, PolicyInv, CallState
<1>15. HeapInv'
  <2>1. OutSize' = OutSize /\ Scores' = Scores
    BY <1>1, <1>13, Zenon DEF OutSize, Scores
  <2>2. HeapBest(ga.heap, ga.seen \ known, OutSize, Scores)'
    BY <1>1, <1>13, <2>1, Zenon DEF HeapBest
  <2>3. HeapKeepsBest'
    BY <2>2, Zenon DEF HeapKeepsBest, HeapBest
  <2>. QED
    BY <1>1, <1>13, <2>3, Zenon DEF HeapInv
<1>16. Open' = 0
  BY <1>1, Zenon DEF Open
<1>. QED
  BY <1>1, <1>2, <1>14, <1>15, <1>16, LengthQuiet, Zenon

(* The next generation: the states still to be scored are other ones, the  *)
(* heap stays.                                                             *)
LEMMA MutateStep ==
  ASSUME PolicyInv, Mutate
  PROVE  PolicyState' /\ CallState' /\ LengthInv' /\ HeapInv'
<1>1. /\ pc = "evolve" /\ UNCHANGED <<pc, op, policy, call, sample, best_states,
                                      random_states, inputs, results, log>>
  BY Zenon DEF Mutate
<1>2. PICK next \in SUBSET States : ga' = [ga EXCEPT !.k = @ + 1, !.todo = next]
  BY Zenon DEF Mutate
<1>3. ga \in SearchTypes
  BY Zenon DEF PolicyInv, CallState
<1>a. ga' = [ga EXCEPT !.k = ga.k + 1, !.todo = next] /\ ga.k + 1 \in Nat
  BY <1>2, <1>3, SMT, SMTT(20) DEF SearchTypes
<1>4. /\ ga' \in SearchTypes /\ ga'.mode = ga.mode /\ ga'.heap = ga.heap
      /\ ga'.in_heap = ga.in_heap /\ ga'.seen = ga.seen
  BY <1>a, <1>3, Zenon DEF SearchTypes
<1>5. CallState'
  BY <1>1, <1>4, Zenon DEF PolicyInv, CallState
<1>6. OutSize' = OutSize /\ Scores' = Scores /\ known' = known
  BY <1>1, <1>4, Zenon DEF OutSize, Scores, policy
<1>7. HeapBest(ga.heap, ga.seen \ known, OutSize, Scores)
  BY <1>1, HeapBestIs, Zenon DEF PolicyInv, HeapInv
<1>8. HeapKeepsBest'
  BY <1>4, <1>6, <1>7, Zenon DEF HeapKeepsBest, HeapBest
<1>9. HeapInv'
  BY <1>1, <1>4, <1>6, <1>8, Zenon DEF PolicyInv, HeapInv
<1>10. Open' = 0 /\ UNCHANGED <<vector, costs>>
  BY <1>1, Zenon DEF Open, policy
<1>. QED
  BY <1>1, <1>5, <1>9, <1>10, PolicyStateSame, LengthQuiet, Zenon

(* The draft is the heap, no larger than potential_space_size. *)
LEMMA EndPotentialStep ==
  ASSUME Library, PolicyInv, EndPotential
  PROVE  PolicyState' /\ CallState' /\ LengthInv' /\ HeapInv'
<1>1. /\ pc = "evolve" /\ ga.mode = "potential" /\ potential_space_cache' = ga.heap
      /\ pc' = "assemble" /\ ga' = NoEvolution
      /\ UNCHANGED <<op, known, vector, costs, min_pop, change_iter, model, call,
                     sample, best_states, random_states, inputs, results, log>>
  BY Zenon DEF EndPotential
<1>2. ga.heap \subseteq States /\ ga.seen \ known \in SUBSET States
  BY Zenon DEF PolicyInv, CallState, SearchTypes
<1>3. HeapBest(ga.heap, ga.seen \ known, OutSize, Scores)
  BY <1>1, HeapBestIs, Zenon DEF PolicyInv, HeapInv
<1>4. OutSize = PotentialSize /\ OutSize \in Nat
  BY <1>1, Parameters, Zenon DEF OutSize
<1>5. Cardinality(ga.heap) <= OutSize
  BY <1>2, <1>3, <1>4, HeapSizes, Zenon
<1>6. PolicyState'
  BY <1>1, <1>2, <1>4, <1>5, Zenon DEF PolicyInv, PolicyState
<1>7. CallState' /\ HeapInv' /\ Open' = 0
  BY <1>1, NoneTypes, Zenon DEF PolicyInv, CallState, HeapInv, Open
<1>. QED
  BY <1>1, <1>6, <1>7, LengthQuiet, Zenon

(* One iteration of SampleInitPopulation. *)
LEMMA SampleIterStep ==
  ASSUME Library, PolicyInv, NEW found \in SUBSET Sampleable, SampleIter(found)
  PROVE  PolicyState' /\ CallState' /\ LengthInv' /\ HeapInv'
<1>. DEFINE u == IF found = {} THEN sample.unchanged + 1 ELSE 0
<1>1. min_pop \in 1 .. MinPop /\ MinPop \in Nat /\ min_pop' = ReducedTarget(u)
  BY Parameters, Zenon DEF PolicyInv, PolicyState, SampleIter
<1>2. min_pop' \in 1 .. MinPop
  <2>. HIDE DEF u
  <2>1. min_pop > 1 => min_pop \div 2 \in 1 .. MinPop
    BY <1>1, SMT, SMTT(20)
  <2>. QED
    BY <1>1, <2>1, Zenon DEF ReducedTarget
<1>3. PolicyState'
  BY <1>2, Zenon DEF PolicyInv, PolicyState, SampleIter
<1>4. sample' \in SampleTypes
  <2>1. /\ sample.states \subseteq States /\ sample.count \in Nat /\ sample.unchanged \in Nat
    BY Zenon DEF PolicyInv, CallState, SampleTypes
  <2>2. IsFiniteSet(found) /\ found \subseteq States
    BY Parameters, FiniteSubset, Zenon
  <2>3. Cardinality(found) \in Nat
    BY <2>2, FiniteSize, Zenon
  <2>4. PICK n \in IF found = {} THEN {0} ELSE Cardinality(found) .. Population :
          sample' = [states |-> sample.states \cup found,
                     count |-> sample.count + n, unchanged |-> u % 5]
    BY Zenon DEF SampleIter
  <2>5. n \in Nat
    BY <2>3, Parameters, SMT, SMTT(20)
  <2>6. u \in Nat
    BY <2>1, SMT, SMTT(20)
  <2>. HIDE DEF u
  <2>7. u % 5 \in Nat /\ sample.count + n \in Nat
    BY <2>1, <2>5, <2>6, SMT, SMTT(20)
  <2>. QED
    BY <2>1, <2>2, <2>4, <2>7, Zenon DEF SampleTypes
<1>5. CallState'
  BY <1>4, Zenon DEF PolicyInv, CallState, SampleIter
<1>6. Open' = 0 /\ UNCHANGED <<vector, costs>>
  BY Zenon DEF SampleIter, Open
<1>7. HeapInv'
  BY Zenon DEF SampleIter, HeapInv
<1>. QED
  BY <1>3, <1>5, <1>6, <1>7, LengthQuiet, Zenon

(* A call that returns or raises leaves no more throughputs than states.   *)
LEMMA EndCallTypes ==
  ASSUME PolicyInv, EndCall, PolicyState', Len(costs') <= Len(vector')
  PROVE  CallState' /\ LengthInv' /\ HeapInv'
<1>1. pc' = "idle" /\ op' = op /\ call' = NoCall /\ sample' = NoSample /\ ga' = NoEvolution
  BY Zenon DEF EndCall
<1>2. best_states' = <<>> /\ random_states' = <<>> /\ inputs' = <<>> /\ results' = <<>>
  BY Zenon DEF EndCall
<1>3. /\ best_states' \in Seq(States) /\ random_states' \in Seq(States)
      /\ inputs' \in Seq(States) /\ results' \in Seq(Results)
  BY <1>2, SMT, SMTT(20)
<1>4. CallState'
  BY <1>1, <1>3, NoneTypes, Zenon DEF CallState, PolicyInv
<1>5. Open' = 0 /\ call'.ct = 0
  BY <1>1, NoneTypes, Zenon DEF Open
<1>6. LengthInv'
  BY <1>5, PolicyAssumption, SMT, SMTT(20) DEF LengthInv, PolicyState
<1>7. HeapInv'
  BY <1>1, Zenon DEF HeapInv
<1>. QED
  BY <1>4, <1>6, <1>7, Zenon

(* A call that ends without having added throughputs. *)
LEMMA EndsStep ==
  ASSUME PolicyInv, EndCall, UNCHANGED <<policy, log>>
  PROVE  PolicyState' /\ CallState' /\ LengthInv' /\ HeapInv'
<1>1. PolicyState'
  BY PolicyStateSame, Zenon
<1>2. Len(vector) \in Nat /\ Len(costs) \in Nat /\ Open \in Nat
  BY SMT, SMTT(20) DEF PolicyInv, PolicyState, CallState, Open
<1>3. Len(costs') <= Len(vector')
  BY <1>2, SMT, SMTT(20) DEF PolicyInv, LengthInv, policy
<1>. QED
  BY <1>1, <1>3, EndCallTypes, Zenon

(* The end of EvolutionarySearch: its heap becomes the cache or the        *)
(* candidates.                                                             *)
LEMMA EndEvolutionStep ==
  ASSUME Library, PolicyInv, EndEvolution
  PROVE  PolicyState' /\ CallState' /\ LengthInv' /\ HeapInv'
<1>1. pc = "evolve" /\ UNCHANGED <<policy, log>>
  BY ZenonT(40) DEF EndEvolution
<1>2. CASE op = "best"
  BY <1>1, <1>2, EndsStep, Zenon DEF EndEvolution
<1>3. CASE op # "best"
  <2>1. /\ best_states' \in Injection(1 .. Cardinality(ga.heap), ga.heap)
        /\ pc' = "pick" /\ ga' = NoEvolution
        /\ UNCHANGED <<op, call, sample, random_states, inputs, results>>
    BY <1>3, Zenon DEF EndEvolution
  <2>2. best_states' \in [1 .. Cardinality(ga.heap) -> ga.heap]
    BY <2>1, Zenon DEF Injection
  <2>3. ga.heap \subseteq States /\ IsFiniteSet(ga.heap)
    BY Parameters, FiniteSubset, Zenon DEF PolicyInv, CallState, SearchTypes
  <2>4. Cardinality(ga.heap) \in Nat
    BY <2>3, FiniteSize, Zenon
  <2>5. best_states' \in [1 .. Cardinality(ga.heap) -> States]
    BY <2>2, <2>3, Zenon
  <2>6. best_states' \in Seq(States)
    BY <2>4, <2>5, SMT, SMTT(20)
  <2>7. CallState'
    BY <2>1, <2>6, NoneTypes, Zenon DEF PolicyInv, CallState
  <2>8. inputs = <<>> /\ Len(inputs') = 0
    BY <1>1, <2>1, Zenon DEF PolicyInv, PromiseInv
  <2>9. Open' = 0 /\ HeapInv' /\ UNCHANGED <<vector, costs>>
    BY <1>1, <2>1, <2>8, Zenon DEF Open, HeapInv, policy
  <2>. QED
    BY <1>1, <2>7, <2>9, PolicyStateSame, LengthQuiet, Zenon
<1>. QED
  BY <1>2, <1>3, Zenon

(* The empty set is finite and its size is 0. *)
LEMMA EmptyFinite ==
  ASSUME Library
  PROVE  IsFiniteSet({}) /\ Cardinality({}) = 0
BY Zenon DEF Library

(* An empty heap holds the best of no states. *)
LEMMA HeapEmpty ==
  ASSUME Library, NEW size \in Nat, NEW scores
  PROVE  HeapBest({}, {}, size, scores)
<1>1. Cardinality({}) = 0
  BY EmptyFinite, Zenon
<1>2. Min({size, 0}) \in {size, 0} /\ \A y \in {size, 0} : Min({size, 0}) <= y
  BY MinOfTwo, Zenon
<1>3. Min({size, 0}) = 0
  BY <1>2, SMT, SMTT(20)
<1>. QED
  BY <1>1, <1>3, Zenon DEF HeapBest

(* A search starts with an empty heap, and without the measured states. *)
LEMMA SearchStarts ==
  ASSUME Library, PolicyInv, known' = known, model' = model, NEW mode \in {"potential", "final"},
         NEW population \in SUBSET States, ga' = Evolution(mode, population, known)
  PROVE  ga' \in SearchTypes /\ ga'.heap \subseteq ga'.in_heap /\ HeapInv'
<1>1. known \subseteq States
  BY Zenon DEF PolicyInv, PolicyState
<1>2. /\ ga' \in SearchTypes /\ ga'.heap = {} /\ ga'.in_heap = known /\ ga'.seen = {}
  BY <1>1, Zenon DEF Evolution, SearchTypes
<1>3. OutSize' \in Nat
  BY Parameters, SMT, SMTT(20) DEF OutSize
<1>4. HeapBest({}, {}, OutSize', Scores')
  BY <1>3, HeapEmpty, Zenon
<1>5. (ga.seen \ known)' = {}
  BY <1>2, ZenonT(40)
<1>6. HeapKeepsBest'
  BY <1>2, <1>4, <1>5, Zenon DEF HeapKeepsBest, HeapBest
<1>. QED
  BY <1>2, <1>6, Zenon DEF HeapInv

(* The end of sampling: a search with an empty heap, or none. *)
LEMMA EndSampleStep ==
  ASSUME Library, PolicyInv, EndSample
  PROVE  PolicyState' /\ CallState' /\ LengthInv' /\ HeapInv'
<1>1. /\ UNCHANGED <<op, known, vector, costs, min_pop, change_iter, model, call,
                     sample, best_states, random_states, inputs, results, log>>
      /\ pc' \in {"evolve", "assemble"}
  BY Zenon DEF EndSample
<1>2. Open' = 0
  BY <1>1, Zenon DEF Open
<1>3. sample.states \in SUBSET States
  BY Zenon DEF PolicyInv, CallState, SampleTypes
<1>4. CASE change_iter = 0
  <2>1. potential_space_cache' = {} /\ ga' = Evolution("potential", sample.states, known)
    BY <1>4, Zenon DEF EndSample
  <2>2. ga' \in SearchTypes /\ ga'.heap \subseteq ga'.in_heap /\ HeapInv'
    BY <1>1, <1>3, <2>1, SearchStarts, Zenon
  <2>3. Cardinality({}) <= PotentialSize
    BY EmptyFinite, Parameters, SMT, SMTT(20)
  <2>4. PolicyState'
    BY <1>1, <2>1, <2>3, Zenon DEF PolicyInv, PolicyState
  <2>5. CallState'
    BY <1>1, <2>2, Zenon DEF PolicyInv, CallState
  <2>. QED
    BY <1>1, <1>2, <2>2, <2>4, <2>5, LengthQuiet, Zenon
<1>5. CASE change_iter # 0
  <2>1. UNCHANGED <<potential_space_cache, ga>> /\ pc' = "assemble"
    BY <1>5, Zenon DEF EndSample
  <2>2. PolicyState'
    BY <1>1, <2>1, Zenon DEF PolicyInv, PolicyState
  <2>3. CallState' /\ HeapInv'
    BY <1>1, <2>1, Zenon DEF PolicyInv, CallState, HeapInv
  <2>. QED
    BY <1>1, <1>2, <2>2, <2>3, LengthQuiet, Zenon
<1>. QED
  BY <1>4, <1>5, Zenon

(* The population of the final search: the argsort picks measured states.  *)
LEMMA AssembleStep ==
  ASSUME Library, PolicyInv, Assemble
  PROVE  PolicyState' /\ CallState' /\ LengthInv' /\ HeapInv'
<1>1. /\ UNCHANGED <<op, known, vector, costs, min_pop, potential_space_cache, model,
                     call, best_states, inputs, results, log>>
      /\ pc' = "evolve" /\ sample' = NoSample /\ num_use_measured <= Len(costs)
      /\ change_iter' = (change_iter + 1) % PotentialIter
  BY Zenon DEF Assemble
<1>. DEFINE Joined(indices) == potential_space_cache \cup sample.states
                               \cup {vector[indices[i]] : i \in 1 .. num_use_measured}
<1>2. PICK indices \in Argsort :
        /\ random_states' \in
             [1 .. (IF op = "best" THEN 0 ELSE 3 * NumRandom) -> Joined(indices)]
        /\ ga' = Evolution("final", Joined(indices), known)
  BY Zenon DEF Assemble
<1>3. /\ Len(vector) \in Nat /\ Len(costs) \in Nat /\ Len(costs) <= Len(vector)
      /\ DOMAIN costs = 1 .. Len(costs)
  <2>1. vector \in Seq(States) /\ costs \in Seq(AllCosts) /\ inputs \in Seq(States)
        /\ Len(costs) + Open <= Len(vector)
    BY Zenon DEF PolicyInv, PolicyState, CallState, LengthInv
  <2>2. Open \in Nat
    BY <2>1, SMT, SMTT(20) DEF Open
  <2>. QED
    BY <2>1, <2>2, SMT, SMTT(20)
<1>4. num_use_measured \in Nat
  <2>1. Min({Len(vector), UseMeasured}) \in {Len(vector), UseMeasured}
    BY <1>3, Parameters, MinOfTwo, Zenon
  <2>. QED
    BY <1>3, <2>1, Parameters, Zenon DEF num_use_measured
<1>5. ASSUME NEW i \in 1 .. num_use_measured PROVE vector[indices[i]] \in States
  <2>1. i \in DOMAIN costs
    BY <1>1, <1>3, <1>4, SMT, SMTT(20)
  <2>2. indices[i] \in DOMAIN costs
    BY <1>2, <2>1, Zenon DEF Argsort
  <2>3. indices[i] \in 1 .. Len(vector)
    BY <1>3, <2>2, SMT, SMTT(20)
  <2>. QED
    BY <2>3, SMT, SMTT(20) DEF PolicyInv, PolicyState
<1>6. Joined(indices) \in SUBSET States
  BY <1>5, Zenon DEF PolicyInv, PolicyState, CallState, SampleTypes
<1>. DEFINE P == Joined(indices)
<1>7. /\ P \in SUBSET States /\ ga' = Evolution("final", P, known)
      /\ random_states' \in [1 .. (IF op = "best" THEN 0 ELSE 3 * NumRandom) -> P]
  BY <1>2, <1>6, ZenonT(40)
<1>. HIDE DEF P, Joined
<1>8. ga' \in SearchTypes /\ ga'.heap \subseteq ga'.in_heap /\ HeapInv'
  BY <1>1, <1>7, SearchStarts, Zenon
<1>9. random_states' \in Seq(States)
  <2>. DEFINE n == IF op = "best" THEN 0 ELSE 3 * NumRandom
  <2>1. n \in Nat /\ random_states' \in [1 .. n -> P]
    BY <1>7, Parameters, SMT, SMTT(20)
  <2>. HIDE DEF n
  <2>2. random_states' \in [1 .. n -> States]
    BY <1>7, <2>1, Zenon
  <2>. QED
    BY <2>1, <2>2, SMT, SMTT(20)
<1>10. change_iter' \in 0 .. PotentialIter - 1
  <2>1. change_iter \in Nat
    BY SMT, SMTT(20) DEF PolicyInv, PolicyState
  <2>. QED
    BY <1>1, <2>1, Parameters, SMT, SMTT(20)
<1>11. PolicyState'
  BY <1>1, <1>10, Zenon DEF PolicyInv, PolicyState
<1>12. CallState'
  BY <1>1, <1>8, <1>9, NoneTypes, Zenon DEF PolicyInv, CallState
<1>13. Open' = 0
  BY <1>1, Zenon DEF Open
<1>. QED
  BY <1>1, <1>8, <1>11, <1>12, <1>13, LengthQuiet, Zenon
-----------------------------------------------------------------------------

(* The invariant holds of a new policy. *)
LEMMA PolicyInit ==
  ASSUME Library, Init
  PROVE  PolicyInv
<1>1. log \in Seq(Results)
  BY PolicyAssumption, Zenon DEF Init
<1>2. /\ known \subseteq States /\ vector \in Seq(States) /\ costs \in Seq(AllCosts)
      /\ Len(vector) = Len(costs) /\ Len(costs) \in Nat
  BY <1>1, PreloadedPolicy, SMT, SMTT(20) DEF Init
<1>a. MinPop \in 1 .. MinPop /\ 0 \in 0 .. PotentialIter - 1 /\ 0 <= PotentialSize
  BY Parameters, SMT, SMTT(20)
<1>3. /\ Cardinality({}) = 0 /\ MinPop \in 1 .. MinPop /\ 0 \in 0 .. PotentialIter - 1
      /\ 0 <= PotentialSize
  BY <1>a, EmptyFinite, Zenon
<1>4. PolicyState
  BY <1>1, <1>2, <1>3, Zenon DEF Init, PolicyState
<1>5. /\ best_states \in Seq(States) /\ random_states \in Seq(States)
      /\ inputs \in Seq(States) /\ results \in Seq(Results)
  BY SMT, SMTT(20) DEF Init
<1>6. CallState
  BY <1>5, NoneTypes, Zenon DEF Init, CallState
<1>7. Open = 0 /\ call.ct = 0
  BY NoneTypes, ZenonT(40) DEF Init, Open
<1>8. LengthInv
  <2>1. Len(costs) + Open <= Len(vector)
    BY <1>2, <1>7, SMT, SMTT(20)
  <2>2. NTrials \in Nat
    BY Parameters, Zenon
  <2>3. call.ct + Open <= NTrials
    BY <1>7, <2>2, SMT, SMTT(20)
  <2>. QED
    BY <2>1, <2>3, Zenon DEF LengthInv
<1>9. HeapInv
  BY Zenon DEF Init, HeapInv
<1>. QED
  BY <1>4, <1>6, <1>8, <1>9, PromiseInit, Zenon DEF PolicyInv

(* A new process, with what it reads from the record file. *)
LEMMA RestartTypes ==
  ASSUME Library, PolicyInv, Restart
  PROVE  PolicyState' /\ CallState' /\ LengthInv' /\ HeapInv'
<1>1. log \in Seq(Results) /\ log' = log
  BY Zenon DEF PolicyInv, PolicyState, Restart
<1>2. /\ known' \subseteq States /\ vector' \in Seq(States) /\ costs' \in Seq(AllCosts)
      /\ Len(vector') = Len(costs') /\ Len(costs') \in Nat
  BY <1>1, PreloadedPolicy, SMT, SMTT(20) DEF Restart
<1>3. MinPop \in 1 .. MinPop /\ 0 \in 0 .. PotentialIter - 1 /\ 0 <= PotentialSize
  BY Parameters, SMT, SMTT(20)
<1>4. Cardinality({}) <= PotentialSize
  BY <1>3, EmptyFinite, Zenon
<1>5. PolicyState'
  BY <1>1, <1>2, <1>3, <1>4, Zenon DEF Restart, PolicyState
<1>6. /\ best_states' \in Seq(States) /\ random_states' \in Seq(States)
      /\ inputs' \in Seq(States) /\ results' \in Seq(Results)
  BY SMT, SMTT(20) DEF Restart
<1>7. CallState'
  BY <1>6, NoneTypes, Zenon DEF Restart, PolicyInv, CallState
<1>8. Open' = 0 /\ call'.ct = 0 /\ HeapInv'
  BY NoneTypes, Zenon DEF Restart, Open, HeapInv
<1>9. LengthInv'
  BY <1>2, <1>8, Parameters, SMT, SMTT(20) DEF LengthInv
<1>. QED
  BY <1>5, <1>7, <1>8, <1>9, Zenon

(* A call of Search or of ContinueSearchOneRound. *)
LEMMA CallStep ==
  ASSUME PolicyInv, Call
  PROVE  PolicyState' /\ CallState' /\ LengthInv' /\ HeapInv'
<1>1. PolicyState'
  BY PolicyStateSame, Zenon DEF Call
<1>2. CallState'
  BY Zenon DEF Call, PolicyInv, CallState
<1>3. Open' = 0 /\ UNCHANGED <<vector, costs>>
  BY Zenon DEF Call, Open, policy
<1>4. HeapInv'
  BY Zenon DEF Call, HeapInv
<1>. QED
  BY <1>1, <1>2, <1>3, <1>4, LengthQuiet, Zenon

(* The start of a round. *)
LEMMA RoundStep ==
  ASSUME PolicyInv, Round
  PROVE  PolicyState' /\ CallState' /\ LengthInv' /\ HeapInv'
<1>1. model' \in Models
  BY Zenon DEF Round, PolicyInv, PolicyState
<1>2. PolicyState'
  BY <1>1, Zenon DEF Round, PolicyInv, PolicyState
<1>3. inputs' \in Seq(States) /\ results' \in Seq(Results)
  BY SMT, SMTT(20) DEF Round
<1>4. CallState'
  BY <1>3, NoneTypes, Zenon DEF Round, PolicyInv, CallState
<1>5. Open' = 0 /\ UNCHANGED <<vector, costs>>
  BY Zenon DEF Round, Open
<1>6. HeapInv'
  BY Zenon DEF Round, HeapInv
<1>. QED
  BY <1>2, <1>4, <1>5, <1>6, LengthQuiet, Zenon

(* A round without inputs, and one that goes on to measure. *)
LEMMA EmptyRoundStep ==
  ASSUME PolicyInv, EmptyRound
  PROVE  PolicyState' /\ CallState' /\ LengthInv' /\ HeapInv'
<1>1. UNCHANGED <<policy, log>>
  BY Zenon DEF EmptyRound
<1>2. CASE call.retry > 0
  <2>1. /\ call' = Retried /\ pc' = "round" /\ best_states' = <<>> /\ random_states' = <<>>
        /\ UNCHANGED <<op, sample, ga, inputs, results>>
    BY <1>2, Zenon DEF EmptyRound
  <2>2. call \in CallTypes
    BY Zenon DEF PolicyInv, CallState
  <2>3. call.retry - 1 \in 0 .. RetryCount
    BY <1>2, <2>2, Parameters, SMT, SMTT(20) DEF CallTypes
  <2>4. call' \in CallTypes
    BY <2>1, <2>2, <2>3, Zenon DEF Retried, CallTypes
  <2>5. best_states' \in Seq(States) /\ random_states' \in Seq(States)
    BY <2>1, SMT, SMTT(20)
  <2>6. CallState' /\ Open' = 0 /\ HeapInv'
    BY <2>1, <2>4, <2>5, Zenon DEF PolicyInv, CallState, Open, HeapInv
  <2>7. UNCHANGED <<vector, costs>>
    BY <1>1, Zenon DEF policy
  <2>. QED
    BY <1>1, <2>6, <2>7, PolicyStateSame, LengthQuiet, Zenon
<1>3. CASE ~ (call.retry > 0)
  BY <1>1, <1>3, EndsStep, Zenon DEF EmptyRound
<1>. QED
  BY <1>2, <1>3, Zenon

(* The candidates of a round become the inputs to measure. *)
LEMMA StartMeasureStep ==
  ASSUME PolicyInv, StartMeasure
  PROVE  PolicyState' /\ CallState' /\ LengthInv' /\ HeapInv'
<1>1. /\ pc = "pick" /\ pc' = "measure" /\ call' = [call EXCEPT !.retry = RetryCount]
      /\ best_states' = <<>> /\ random_states' = <<>>
      /\ UNCHANGED <<op, policy, sample, ga, inputs, results, log>>
  BY Zenon DEF StartMeasure, PickDone
<1>2. call \in CallTypes /\ RetryCount \in 0 .. RetryCount
  BY Parameters, SMT, SMTT(20) DEF PolicyInv, CallState
<1>3. call' \in CallTypes /\ call'.ct = call.ct
  BY <1>1, <1>2, Zenon DEF CallTypes
<1>4. best_states' \in Seq(States) /\ random_states' \in Seq(States)
  BY <1>1, SMT, SMTT(20)
<1>5. CallState' /\ Open' = Open /\ HeapInv'
  BY <1>1, <1>3, <1>4, Zenon DEF PolicyInv, CallState, Open, HeapInv
<1>6. UNCHANGED <<vector, costs>>
  BY <1>1, Zenon DEF policy
<1>. QED
  BY <1>1, <1>3, <1>5, <1>6, PolicyStateSame, LengthQuiet, Zenon

(* The state picked comes from one of the two lists, which it leaves. *)
LEMMA PickedState ==
  ASSUME PolicyInv, PickOne
  PROVE  /\ (IF FromBest THEN Head(best_states) ELSE Head(random_states)) \in States
         /\ best_states' \in Seq(States) /\ random_states' \in Seq(States)
<1>1. /\ best_states \in Seq(States) /\ random_states \in Seq(States)
      /\ best_states \o random_states # <<>>
  BY Zenon DEF PolicyInv, CallState, PickOne
<1>2. best_states # <<>> \/ random_states # <<>>
  BY <1>1, SMT, SMTT(20)
<1>3. CASE FromBest
  <2>1. best_states # <<>> /\ best_states' = Tail(best_states) /\ random_states' = random_states
    BY <1>3, Zenon DEF PickOne, FromBest
  <2>2. Head(best_states) \in States /\ Tail(best_states) \in Seq(States)
    BY <1>1, <2>1, SMT, SMTT(20)
  <2>. QED
    BY <1>1, <1>3, <2>1, <2>2, Zenon
<1>4. CASE ~ FromBest
  <2>1. random_states # <<>> /\ best_states' = best_states /\ random_states' = Tail(random_states)
    BY <1>2, <1>4, Zenon DEF PickOne, FromBest
  <2>2. Head(random_states) \in States /\ Tail(random_states) \in Seq(States)
    BY <1>1, <2>1, SMT, SMTT(20)
  <2>. QED
    BY <1>1, <1>4, <2>1, <2>2, Zenon
<1>. QED
  BY <1>3, <1>4, Zenon

(* A pick adds to the inputs and to the measured states alike, and leaves  *)
(* Search within its budget.                                               *)
LEMMA PickOneTypes ==
  ASSUME PolicyInv, PickOne
  PROVE  PolicyState' /\ CallState' /\ LengthInv' /\ HeapInv'
<1>. DEFINE s == IF FromBest THEN Head(best_states) ELSE Head(random_states)
<1>1. /\ s \in States /\ best_states' \in Seq(States) /\ random_states' \in Seq(States)
  BY PickedState, Zenon
<1>2. /\ pc = "pick" /\ pc' = "pick" /\ Len(inputs) < Limit
      /\ UNCHANGED <<op, costs, min_pop, change_iter, potential_space_cache,
                     model, call, sample, ga, results, log>>
  BY Zenon DEF PickOne
<1>3. \/ UNCHANGED <<known, vector, inputs>>
      \/ /\ known' = known \cup {s} /\ vector' = Append(vector, s)
         /\ inputs' = Append(inputs, s)
  BY Zenon DEF PickOne
<1>. HIDE DEF s
<1>4. /\ vector \in Seq(States) /\ inputs \in Seq(States) /\ costs \in Seq(AllCosts)
      /\ known \subseteq States
  BY Zenon DEF PolicyInv, PolicyState, CallState
<1>5. /\ Len(vector) \in Nat /\ Len(inputs) \in Nat /\ Len(costs) \in Nat
  BY <1>4, SMT, SMTT(20)
<1>6. Len(costs) + Len(inputs) <= Len(vector)
  BY <1>2, Zenon DEF PolicyInv, LengthInv, Open
<1>7. /\ vector' \in Seq(States) /\ inputs' \in Seq(States) /\ known' \subseteq States
      /\ \/ Len(inputs') = Len(inputs) /\ Len(vector') = Len(vector)
         \/ Len(inputs') = Len(inputs) + 1 /\ Len(vector') = Len(vector) + 1
  <2>1. CASE UNCHANGED <<known, vector, inputs>>
    BY <1>4, <2>1, Zenon
  <2>2. CASE /\ known' = known \cup {s} /\ vector' = Append(vector, s)
             /\ inputs' = Append(inputs, s)
    <3>1. /\ Append(vector, s) \in Seq(States) /\ Len(Append(vector, s)) = Len(vector) + 1
          /\ Append(inputs, s) \in Seq(States) /\ Len(Append(inputs, s)) = Len(inputs) + 1
      BY <1>1, <1>4, SMT, SMTT(20)
    <3>. QED
      BY <1>1, <1>4, <2>2, <3>1, Zenon
  <2>. QED
    BY <1>3, <2>1, <2>2, Zenon
<1>8. PolicyState'
  BY <1>2, <1>7, Zenon DEF PolicyInv, PolicyState
<1>9. CallState'
  BY <1>1, <1>2, <1>7, ZenonT(40) DEF PolicyInv, CallState
<1>10. call.ct \in Nat /\ NTrials \in Nat /\ call.ct <= NTrials
  <2>1. call.ct \in 0 .. NTrials
    BY Zenon DEF PolicyInv, CallState, CallTypes
  <2>2. NTrials \in Nat
    BY Parameters, Zenon
  <2>. QED
    BY <2>1, <2>2, SMT, SMTT(20)
<1>11. op = "search" => Limit <= NTrials - call.ct /\ Limit \in Nat
  <2>1. NTrials - call.ct \in Nat /\ NumMeasure \in Nat
    BY <1>10, Parameters, SMT, SMTT(20)
  <2>. DEFINE x == NTrials - call.ct
  <2>2. x \in Nat
    BY <2>1, Zenon
  <2>. HIDE DEF x
  <2>3. Min({NumMeasure, x}) \in {NumMeasure, x} /\ Min({NumMeasure, x}) <= x
    BY <2>1, <2>2, MinOfTwo, Zenon
  <2>4. op = "search" => Limit = Min({NumMeasure, x})
    BY Zenon DEF Limit, x
  <2>5. Min({NumMeasure, x}) \in Nat
    BY <2>1, <2>2, <2>3, Zenon
  <2>. QED
    BY <2>3, <2>4, <2>5, Zenon DEF x
<1>12. op = "search" => call.ct + Len(inputs') <= NTrials
  <2>1. SUFFICES ASSUME op = "search" PROVE call.ct + Len(inputs') <= NTrials
    BY Zenon
  <2>2. Limit \in Nat /\ Limit <= NTrials - call.ct /\ Len(inputs) < Limit
    BY <2>1, <1>2, <1>11, Zenon
  <2>3. Len(inputs') <= Limit
    BY <2>2, <1>5, <1>7, SMT, SMTT(20)
  <2>. QED
    BY <2>2, <2>3, <1>5, <1>7, <1>10, SMT, SMTT(20)
<1>13. Open' = Len(inputs')
  BY <1>2, Zenon DEF Open
<1>14. Len(costs') + Open' <= Len(vector')
  BY <1>2, <1>5, <1>6, <1>7, <1>13, SMT, SMTT(20)
<1>15. LengthInv'
  BY <1>2, <1>12, <1>13, <1>14, Zenon DEF LengthInv
<1>16. HeapInv'
  BY <1>2, Zenon DEF HeapInv
<1>. QED
  BY <1>8, <1>9, <1>15, <1>16, Zenon

(* The results of a batch of n inputs with the costs c. *)
BatchOf(n, c) ==
  [j \in 1 .. n |-> [state |-> inputs[Len(results) + j], cost |-> c[j]]]

(* A measured batch: its results belong to the inputs behind the ones that *)
(* have a result already, and are logged in their order.                   *)
LEMMA BatchFacts ==
  ASSUME PolicyInv, MeasureBatch
  PROVE  \E n \in Nat : \E c \in [1 .. n -> AllCosts] :
           /\ Len(results) + n <= Len(inputs)
           /\ BatchOf(n, c) \in Seq(Results) /\ Len(BatchOf(n, c)) = n
           /\ \A j \in 1 .. n : /\ BatchOf(n, c)[j].state = inputs[Len(results) + j]
                                /\ BatchOf(n, c)[j].cost = c[j]
           /\ results' = results \o BatchOf(n, c) /\ log' = log \o BatchOf(n, c)
           /\ call' = [call EXCEPT !.m = AccountAll(call.m, Key, BatchOf(n, c))]
<1>. DEFINE n == Min({BatchSize, Len(inputs) - Len(results)})
<1>1. /\ Len(inputs) \in Nat /\ Len(results) \in Nat /\ Len(results) < Len(inputs)
      /\ inputs \in Seq(States)
  BY SMT, SMTT(20) DEF PolicyInv, CallState, MeasureBatch
<1>2. n \in Nat /\ Len(results) + n <= Len(inputs)
  <2>. DEFINE x == Len(inputs) - Len(results)
  <2>1. x \in Nat /\ BatchSize \in Nat
    BY <1>1, Parameters, SMT, SMTT(20)
  <2>. HIDE DEF x
  <2>2. Min({BatchSize, x}) \in {BatchSize, x} /\ Min({BatchSize, x}) <= x
    BY <2>1, MinOfTwo, Zenon
  <2>3. n \in Nat /\ n <= x
    BY <2>1, <2>2, Zenon DEF x
  <2>. HIDE DEF n
  <2>. QED
    BY <2>3, <1>1, SMT, SMTT(20) DEF x
<1>3. \E c \in [1 .. n -> Costs \cup {MaxFloat}] :
        /\ results' = results \o BatchOf(n, c) /\ log' = log \o BatchOf(n, c)
        /\ call' = [call EXCEPT !.m = AccountAll(call.m, Key, BatchOf(n, c))]
  BY Zenon DEF MeasureBatch, BatchOf
<1>. HIDE DEF n
<1>4. PICK c \in [1 .. n -> AllCosts] :
        /\ results' = results \o BatchOf(n, c) /\ log' = log \o BatchOf(n, c)
        /\ call' = [call EXCEPT !.m = AccountAll(call.m, Key, BatchOf(n, c))]
  BY <1>3, Zenon DEF AllCosts
<1>5. \A j \in 1 .. n : inputs[Len(results) + j] \in States
  <2>1. ASSUME NEW j \in 1 .. n PROVE Len(results) + j \in 1 .. Len(inputs)
    BY <1>1, <1>2, SMT, SMTT(20)
  <2>. QED
    BY <1>1, <2>1, SMT, SMTT(20)
<1>6. BatchOf(n, c) \in [1 .. n -> Results]
  BY <1>5, Zenon DEF BatchOf, Results, AllCosts
<1>7. BatchOf(n, c) \in Seq(Results) /\ Len(BatchOf(n, c)) = n
  BY <1>2, <1>6, SMT, SMTT(20)
<1>8. \A j \in 1 .. n : /\ BatchOf(n, c)[j].state = inputs[Len(results) + j]
                        /\ BatchOf(n, c)[j].cost = c[j]
  BY Zenon DEF BatchOf
<1>. QED
  BY <1>2, <1>4, <1>7, <1>8, Zenon

(* A sequence over a set is one over a larger set. *)
LEMMA LargerSeq ==
  ASSUME NEW S, NEW T, S \subseteq T
  PROVE  Seq(S) \subseteq Seq(T)
<1>1. ASSUME NEW q \in Seq(S) PROVE q \in Seq(T)
  BY SMT, SMTT(20)
<1>. QED
  BY <1>1, Zenon

(* A batch measured, accounted for and logged. *)
LEMMA MeasureBatchTypes ==
  ASSUME Library, PolicyInv, MeasureBatch
  PROVE  PolicyState' /\ CallState' /\ LengthInv' /\ HeapInv'
<1>1. PICK n \in Nat : \E c \in [1 .. n -> AllCosts] :
        /\ BatchOf(n, c) \in Seq(Results)
        /\ results' = results \o BatchOf(n, c) /\ log' = log \o BatchOf(n, c)
        /\ call' = [call EXCEPT !.m = AccountAll(call.m, Key, BatchOf(n, c))]
  BY BatchFacts, Zenon
<1>2. PICK b \in Seq(Results) :
        /\ results' = results \o b /\ log' = log \o b
        /\ call' = [call EXCEPT !.m = AccountAll(call.m, Key, b)]
  BY <1>1, Zenon
<1>3. /\ pc = "measure" /\ pc' = "measure"
      /\ UNCHANGED <<op, policy, sample, ga, best_states, random_states, inputs>>
  BY Zenon DEF MeasureBatch
<1>4. results \in Seq(Results) /\ log \in Seq(Results) /\ call \in CallTypes
  BY Zenon DEF PolicyInv, PolicyState, CallState
<1>5. results' \in Seq(Results) /\ log' \in Seq(Results)
  BY <1>2, <1>4, SMT, SMTT(20)
<1>. DEFINE T == States \cup {NoState}
<1>6. b \in Seq(Entries(AllCosts, T))
  <2>1. Results \subseteq Entries(AllCosts, T)
    BY Zenon DEF Results, Entries, AllCosts
  <2>. QED
    BY <2>1, LargerSeq, Zenon
<1>7. AccountAll(call.m, Key, b) \in Statuses(AllCosts, T)
  <2>1. call.m \in Statuses(AllCosts, T) /\ Key \in Keys
    BY <1>4, Parameters, Zenon DEF CallTypes
  <2>. HIDE DEF T
  <2>. QED
    BY <2>1, <1>6, AccountAllTypes, Zenon
<1>. DEFINE m == AccountAll(call.m, Key, b)
<1>8. m \in Statuses(AllCosts, T) /\ call' = [call EXCEPT !.m = m]
  BY <1>2, <1>7, Zenon
<1>. HIDE DEF m
<1>9. call' \in CallTypes /\ call'.ct = call.ct
  BY <1>4, <1>8, Zenon DEF CallTypes
<1>10. PolicyState'
  BY <1>3, <1>5, Zenon DEF PolicyInv, PolicyState, policy
<1>11. CallState' /\ Open' = Open /\ HeapInv'
  BY <1>3, <1>5, <1>9, Zenon DEF PolicyInv, CallState, Open, HeapInv
<1>12. UNCHANGED <<vector, costs>>
  BY <1>3, Zenon DEF policy
<1>. QED
  BY <1>3, <1>9, <1>10, <1>11, <1>12, LengthQuiet, Zenon

(* Two sequences end to end, and a sequence over a larger set. *)
LEMMA JoinedSeq ==
  ASSUME NEW S, NEW a \in Seq(S), NEW b \in Seq(S)
  PROVE  /\ a \o b \in Seq(S) /\ Len(a \o b) = Len(a) + Len(b)
         /\ \A i \in 1 .. Len(a) + Len(b) :
              (a \o b)[i] = IF i <= Len(a) THEN a[i] ELSE b[i - Len(a)]
  BY SMT, SMTT(20)

(* The throughputs of the round follow those of the earlier ones. *)
LEMMA ThroughputsAdded ==
  ASSUME PolicyInv
  PROVE  /\ Throughputs \in Seq(AllCosts)
         /\ Len(Throughputs) = Len(costs) + Len(results)
         /\ \A i \in 1 .. Len(costs) : Throughputs[i] = costs[i]
         /\ \A j \in 1 .. Len(results) : Throughputs[Len(costs) + j] = results[j].cost
<1>. DEFINE new == [j \in DOMAIN results |-> results[j].cost]
<1>1. /\ results \in Seq(Results) /\ costs \in Seq(AllCosts)
  BY Zenon DEF PolicyInv, PolicyState, CallState
<1>2. /\ Len(results) \in Nat /\ Len(costs) \in Nat /\ DOMAIN results = 1 .. Len(results)
      /\ \A j \in 1 .. Len(results) : results[j] \in Results
  BY <1>1, SMT, SMTT(20)
<1>3. new \in [1 .. Len(results) -> AllCosts]
  BY <1>2, Zenon DEF Results, AllCosts
<1>4. new \in Seq(AllCosts) /\ Len(new) = Len(results)
  BY <1>2, <1>3, SMT, SMTT(20)
<1>5. \A j \in 1 .. Len(results) : new[j] = results[j].cost
  BY <1>2, Zenon
<1>6. Throughputs = costs \o new
  BY Zenon DEF Throughputs
<1>. HIDE DEF new
<1>7. /\ costs \o new \in Seq(AllCosts) /\ Len(costs \o new) = Len(costs) + Len(new)
      /\ \A i \in 1 .. Len(costs) + Len(new) :
           (costs \o new)[i] = IF i <= Len(costs) THEN costs[i] ELSE new[i - Len(costs)]
  BY <1>1, <1>4, JoinedSeq, Zenon
<1>8. ASSUME NEW i \in 1 .. Len(costs) PROVE Throughputs[i] = costs[i]
  <2>1. i \in 1 .. Len(costs) + Len(new) /\ i <= Len(costs)
    BY <1>2, <1>4, SMT, SMTT(20)
  <2>. QED
    BY <1>6, <1>7, <2>1, Zenon
<1>9. ASSUME NEW j \in 1 .. Len(results)
      PROVE  Throughputs[Len(costs) + j] = results[j].cost
  <2>1. /\ Len(costs) + j \in 1 .. Len(costs) + Len(new) /\ ~ (Len(costs) + j <= Len(costs))
        /\ Len(costs) + j - Len(costs) = j
    BY <1>2, <1>4, SMT, SMTT(20)
  <2>2. (costs \o new)[Len(costs) + j] = new[Len(costs) + j - Len(costs)]
    BY <1>7, <2>1, SMT, SMTT(20)
  <2>. QED
    BY <1>5, <1>6, <2>1, <2>2, Zenon
<1>. QED
  BY <1>4, <1>6, <1>7, <1>8, <1>9, Zenon

(* The end of ContinueSearchOneRound. *)
LEMMA EndContinueStep ==
  ASSUME PolicyInv, EndContinue
  PROVE  PolicyState' /\ CallState' /\ LengthInv' /\ HeapInv'
<1>1. /\ pc = "measure" /\ Len(results) = Len(inputs) /\ EndCall /\ costs' = Throughputs
      /\ UNCHANGED <<known, vector, min_pop, change_iter, potential_space_cache, log>>
  BY Zenon DEF EndContinue, Measured
<1>2. model' \in Models
  BY Zenon DEF EndContinue, PolicyInv, PolicyState
<1>3. costs' \in Seq(AllCosts) /\ Len(costs') = Len(costs) + Len(inputs)
  BY <1>1, ThroughputsAdded, Zenon
<1>4. Len(costs') <= Len(vector')
  BY <1>1, <1>3, Zenon DEF PolicyInv, LengthInv, Open
<1>5. PolicyState'
  BY <1>1, <1>2, <1>3, Zenon DEF PolicyInv, PolicyState
<1>. QED
  BY <1>1, <1>4, <1>5, EndCallTypes, Zenon

(* The end of a round of Search. *)
LEMMA EndRoundStep ==
  ASSUME PolicyInv, EndRound
  PROVE  PolicyState' /\ CallState' /\ LengthInv' /\ HeapInv'
<1>1. /\ pc = "measure" /\ Len(results) = Len(inputs) /\ op = "search" /\ pc' = "round"
      /\ costs' = Throughputs /\ call' = [call EXCEPT !.ct = call.ct + Len(inputs)]
      /\ UNCHANGED <<op, known, vector, min_pop, change_iter, potential_space_cache,
                     model, sample, ga, best_states, random_states, inputs, results, log>>
  BY Zenon DEF EndRound, Measured
<1>2. costs' \in Seq(AllCosts) /\ Len(costs') = Len(costs) + Len(inputs)
  BY <1>1, ThroughputsAdded, Zenon
<1>3. /\ Len(costs) + Len(inputs) <= Len(vector)
      /\ call.ct + Len(inputs) <= NTrials
  BY <1>1, Zenon DEF PolicyInv, LengthInv, Open
<1>4. call \in CallTypes /\ Len(inputs) \in Nat /\ call.ct \in Nat /\ NTrials \in Nat
  BY Parameters, SMT, SMTT(20) DEF PolicyInv, CallState, CallTypes
<1>. DEFINE ct == call.ct + Len(inputs)
<1>5. ct \in 0 .. NTrials
  BY <1>3, <1>4, SMT, SMTT(20)
<1>6. call' = [call EXCEPT !.ct = ct]
  BY <1>1, Zenon
<1>. HIDE DEF ct
<1>7. call' \in CallTypes
  BY <1>4, <1>5, <1>6, Zenon DEF CallTypes
<1>8. PolicyState'
  BY <1>1, <1>2, Zenon DEF PolicyInv, PolicyState
<1>9. CallState' /\ Open' = 0 /\ HeapInv'
  BY <1>1, <1>7, Zenon DEF PolicyInv, CallState, Open, HeapInv
<1>10. call'.ct \in 0 .. NTrials
  BY <1>7, Zenon DEF CallTypes
<1>11. Len(costs') \in Nat
  BY <1>2, SMT, SMTT(20)
<1>12. Len(costs') + Open' <= Len(vector')
  BY <1>1, <1>2, <1>3, <1>9, <1>11, SMT, SMTT(20)
<1>13. op' = "search" => call'.ct + Open' <= NTrials
  BY <1>4, <1>9, <1>10, SMT, SMTT(20)
<1>. QED
  BY <1>8, <1>9, <1>12, <1>13, Zenon DEF LengthInv

(* Nothing changes, or only the program counter, to "undefined". *)
LEMMA QuietTypes ==
  ASSUME PolicyInv, AssembleUndefined \/ Terminated \/ UNCHANGED vars
  PROVE  PolicyState' /\ CallState' /\ LengthInv' /\ HeapInv'
<1>1. CASE AssembleUndefined
  <2>1. CallState' /\ Open' = 0 /\ HeapInv' /\ UNCHANGED <<vector, costs>>
    BY <1>1, Zenon DEF AssembleUndefined, PolicyInv, CallState, Open, HeapInv, policy
  <2>2. PolicyState'
    BY <1>1, PolicyStateSame, Zenon DEF AssembleUndefined
  <2>. QED
    BY <2>1, <2>2, LengthQuiet, Zenon
<1>2. CASE UNCHANGED vars
  <2>1. PolicyState' /\ CallState' /\ LengthInv'
    BY <1>2, Zenon DEF vars, policy, PolicyInv, PolicyState, CallState, LengthInv, Open
  <2>2. HeapInv'
    BY <1>2, Zenon DEF vars, policy, PolicyInv, HeapInv, HeapKeepsBest, OutSize, Scores
  <2>. QED
    BY <2>1, <2>2, Zenon
<1>. QED
  BY <1>1, <1>2, Zenon DEF Terminated

(* Every step preserves the invariant. *)
LEMMA PolicyNext ==
  ASSUME Library, PolicyInv, [Next]_vars
  PROVE  PolicyInv'
<1>. DEFINE Goal == PolicyState' /\ CallState' /\ LengthInv' /\ HeapInv'
<1>1. PromiseInv'
  BY PromiseNext, Zenon DEF PolicyInv
<1>2. Call \/ Round \/ (\E found \in SUBSET Sampleable : SampleIter(found)) => Goal
  BY CallStep, RoundStep, SampleIterStep, Zenon
<1>3. EndSearch \/ EndEarly \/ Raise => Goal
  BY EndsStep, Zenon DEF EndSearch, EndEarly, Raise
<1>4. EndSample \/ Assemble \/ Visit \/ Mutate \/ EndPotential \/ EndEvolution => Goal
  BY EndSampleStep, AssembleStep, VisitStep, MutateStep, EndPotentialStep,
     EndEvolutionStep, Zenon
<1>5. PickOne \/ EmptyRound \/ StartMeasure \/ MeasureBatch => Goal
  BY PickOneTypes, EmptyRoundStep, StartMeasureStep, MeasureBatchTypes, Zenon
<1>6. EndContinue \/ EndRound \/ Restart => Goal
  BY EndContinueStep, EndRoundStep, RestartTypes, Zenon
<1>7. AssembleUndefined \/ Terminated \/ UNCHANGED vars => Goal
  BY QuietTypes, Zenon
<1>8. Goal
  BY <1>2, <1>3, <1>4, <1>5, <1>6, <1>7, Zenon DEF Next, Step
<1>. QED
  BY <1>1, <1>8, Zenon DEF PolicyInv
-----------------------------------------------------------------------------
(* Each throughput belongs to the measured state at its index and to the   *)
(* file's first record of that state; the open inputs are the last states  *)
(* of the vector, and their results are first records too.                 *)
MatchInv ==
  /\ Len(vector) = Len(costs) + Open
  /\ \A i, j \in 1 .. Len(vector) : vector[i] = vector[j] => i = j
  /\ \A i \in 1 .. Len(vector) : vector[i] \in known
  /\ \A i \in 1 .. Len(costs) : FirstRecord(log, vector[i], costs[i])
  /\ pc \in {"pick", "measure"} =>
       \A i \in 1 .. Len(inputs) : vector[Len(costs) + i] = inputs[i]
  /\ pc = "measure" =>
       \A i \in 1 .. Len(results) : /\ results[i].state = inputs[i]
                                    /\ FirstRecord(log, inputs[i], results[i].cost)

(* Every throughput the policy learnt is that of its state's first record. *)
LEMMA MatchMeans == PolicyInv /\ MatchInv => ThroughputsMatch
<1>. SUFFICES ASSUME PolicyInv, MatchInv,
                     pc \in {"idle", "round", "sample", "assemble", "evolve"}
              PROVE  /\ Len(vector) = Len(costs)
                     /\ IsInjective(vector)
                     /\ \A i \in DOMAIN vector : \E j \in DOMAIN log :
                          /\ log[j] = [state |-> vector[i], cost |-> costs[i]]
                          /\ \A k \in 1 .. j - 1 : log[k].state # vector[i]
  BY Zenon DEF ThroughputsMatch
<1>1. vector \in Seq(States) /\ costs \in Seq(AllCosts) /\ log \in Seq(Results)
  BY Zenon DEF PolicyInv, PolicyState
<1>2. /\ Len(costs) \in Nat /\ DOMAIN vector = 1 .. Len(vector)
      /\ DOMAIN log = 1 .. Len(log) /\ Open = 0
  BY <1>1, SMT, SMTT(20) DEF Open
<1>3. Len(vector) = Len(costs)
  <2>1. Len(vector) = Len(costs) + Open
    BY Zenon DEF MatchInv
  <2>. QED
    BY <1>2, <2>1, SMT, SMTT(20)
<1>4. IsInjective(vector)
  BY <1>2, Zenon DEF MatchInv, IsInjective
<1>5. ASSUME NEW i \in DOMAIN vector
      PROVE  \E j \in DOMAIN log :
               /\ log[j] = [state |-> vector[i], cost |-> costs[i]]
               /\ \A k \in 1 .. j - 1 : log[k].state # vector[i]
  <2>1. FirstRecord(log, vector[i], costs[i])
    BY <1>2, <1>3, Zenon DEF MatchInv
  <2>. DEFINE r == [state |-> vector[i], cost |-> costs[i]]
  <2>2. r.state = vector[i]
    BY Zenon
  <2>3. FirstOf(log, Len(log), r)
    BY <2>1, Zenon DEF FirstRecord
  <2>. HIDE DEF r
  <2>4. PICK j \in 1 .. Len(log) : log[j] = r /\ \A k \in 1 .. j - 1 : log[k].state # r.state
    BY <2>3, Zenon DEF FirstOf
  <2>5. j \in DOMAIN log /\ log[j] = r /\ \A k \in 1 .. j - 1 : log[k].state # vector[i]
    BY <1>2, <2>2, <2>4, Zenon
  <2>. QED
    BY <2>5, Zenon DEF r
<1>. QED
  BY <1>3, <1>4, <1>5, ZenonT(40)

(* A policy made from the record file, at the start or after a restart. *)
LEMMA MatchPreloaded ==
  ASSUME Library, NEW records \in Seq(Results)
  PROVE  /\ Len(PreloadVector(records)) = Len(PreloadCosts(records)) + 0
         /\ \A i \in 1 .. Len(PreloadCosts(records)) :
              FirstRecord(records, PreloadVector(records)[i], PreloadCosts(records)[i])
<1>1. PreloadCosts(records) \in Seq(AllCosts)
  BY PreloadedPolicy, Zenon
<1>2. Len(PreloadCosts(records)) \in Nat
  BY <1>1, SMT, SMTT(20)
<1>3. Len(PreloadVector(records)) = Len(PreloadCosts(records))
  BY PreloadedPolicy, Zenon
<1>4. Len(PreloadVector(records)) = Len(PreloadCosts(records)) + 0
  BY <1>2, <1>3, SMT, SMTT(20)
<1>. QED
  BY <1>3, <1>4, PreloadedPolicy, Zenon

(* A new policy has learnt from no record. *)
LEMMA MatchInit ==
  ASSUME Library, Init
  PROVE  MatchInv
<1>1. log \in Seq(Results)
  BY PolicyAssumption, Zenon DEF Init
<1>2. /\ vector = PreloadVector(log) /\ costs = PreloadCosts(log)
      /\ known = PreloadKnown(log) /\ pc = "idle" /\ Open = 0
  BY Zenon DEF Init, Open
<1>3. /\ Len(vector) = Len(costs) + Open
      /\ \A i \in 1 .. Len(costs) : FirstRecord(log, vector[i], costs[i])
  BY <1>1, <1>2, MatchPreloaded, Zenon
<1>4. /\ \A i, j \in 1 .. Len(vector) : vector[i] = vector[j] => i = j
      /\ \A i \in 1 .. Len(vector) : vector[i] \in known
  BY <1>1, <1>2, PreloadedPolicy, Zenon
<1>. QED
  BY <1>2, <1>3, <1>4, Zenon DEF MatchInv

(* A new process learns each state from its first record in the file. *)
LEMMA MatchRestart ==
  ASSUME Library, PolicyInv, Restart
  PROVE  MatchInv'
<1>1. log \in Seq(Results)
  BY Zenon DEF PolicyInv, PolicyState
<1>2. /\ vector' = PreloadVector(log) /\ costs' = PreloadCosts(log) /\ log' = log
      /\ known' = PreloadKnown(log) /\ pc' = "idle" /\ Open' = 0
  BY Zenon DEF Restart, Open
<1>3. /\ Len(vector') = Len(costs') + Open'
      /\ \A i \in 1 .. Len(costs') : FirstRecord(log', vector'[i], costs'[i])
  BY <1>1, <1>2, MatchPreloaded, Zenon
<1>4. /\ \A i, j \in 1 .. Len(vector') : vector'[i] = vector'[j] => i = j
      /\ \A i \in 1 .. Len(vector') : vector'[i] \in known'
  BY <1>1, <1>2, PreloadedPolicy, Zenon
<1>. QED
  BY <1>2, <1>3, <1>4, Zenon DEF MatchInv

(* A step outside picking and measuring. *)
LEMMA MatchQuiet ==
  ASSUME PolicyInv, MatchInv, UNCHANGED <<known, vector, costs, log>>,
         Open = 0, Open' = 0, pc' # "measure", pc' = "pick" => Len(inputs') = 0
  PROVE  MatchInv'
<1>1. /\ Len(vector') = Len(costs') + Open'
      /\ \A i, j \in 1 .. Len(vector') : vector'[i] = vector'[j] => i = j
      /\ \A i \in 1 .. Len(vector') : vector'[i] \in known'
      /\ \A i \in 1 .. Len(costs') : FirstRecord(log', vector'[i], costs'[i])
  BY Zenon DEF MatchInv
<1>2. pc' \in {"pick", "measure"} => Len(inputs') = 0
  BY Zenon
<1>3. pc' \in {"pick", "measure"} =>
       \A i \in 1 .. Len(inputs') : vector'[Len(costs') + i] = inputs'[i]
  BY <1>2, SMT, SMTT(20)
<1>. QED
  BY <1>1, <1>3, ZenonT(40) DEF MatchInv

(* Nothing is measured yet when a measurement starts. *)
LEMMA MatchStart ==
  ASSUME PolicyInv, MatchInv, StartMeasure
  PROVE  MatchInv'
<1>1. /\ pc = "pick" /\ pc' = "measure"
      /\ UNCHANGED <<known, vector, costs, log, inputs, results>>
  BY Zenon DEF StartMeasure, PickDone, policy
<1>2. Len(results') = 0 /\ Open' = Open
  BY <1>1, Zenon DEF PolicyInv, PromiseInv, Open
<1>3. /\ Len(vector') = Len(costs') + Open'
      /\ \A i, j \in 1 .. Len(vector') : vector'[i] = vector'[j] => i = j
      /\ \A i \in 1 .. Len(vector') : vector'[i] \in known'
      /\ \A i \in 1 .. Len(costs') : FirstRecord(log', vector'[i], costs'[i])
  BY <1>1, <1>2, SMT, SMTT(20) DEF MatchInv
<1>4. \A i \in 1 .. Len(inputs') : vector'[Len(costs') + i] = inputs'[i]
  BY <1>1, Zenon DEF MatchInv
<1>5. \A i \in 1 .. Len(results') :
        results'[i].state = inputs'[i] /\ FirstRecord(log', inputs'[i], results'[i].cost)
  BY <1>2, SMT, SMTT(20)
<1>. QED
  BY <1>3, <1>4, <1>5, Zenon DEF MatchInv

(* A pick appends a state that was not known to both. *)
LEMMA MatchPick ==
  ASSUME PolicyInv, MatchInv, PickOne
  PROVE  MatchInv'
<1>. DEFINE s == IF FromBest THEN Head(best_states) ELSE Head(random_states)
<1>1. s \in States
  BY PickedState, Zenon
<1>2. pc = "pick" /\ pc' = "pick" /\ UNCHANGED <<costs, log, results>>
  BY Zenon DEF PickOne
<1>3. \/ UNCHANGED <<known, vector, inputs>>
      \/ /\ s \notin known /\ known' = known \cup {s} /\ vector' = Append(vector, s)
         /\ inputs' = Append(inputs, s)
  BY Zenon DEF PickOne
<1>. HIDE DEF s
<1>4. CASE UNCHANGED <<known, vector, inputs>>
  BY <1>2, <1>4, ZenonT(40) DEF MatchInv, Open
<1>5. CASE /\ s \notin known /\ known' = known \cup {s} /\ vector' = Append(vector, s)
           /\ inputs' = Append(inputs, s)
  <2>1. vector \in Seq(States) /\ inputs \in Seq(States) /\ costs \in Seq(AllCosts)
    BY Zenon DEF PolicyInv, PolicyState, CallState
  <2>2. Len(vector) \in Nat /\ Len(inputs) \in Nat /\ Len(costs) \in Nat
    BY <2>1, SMT, SMTT(20)
  <2>3. /\ Len(vector') = Len(vector) + 1 /\ vector'[Len(vector) + 1] = s
        /\ \A i \in 1 .. Len(vector) : vector'[i] = vector[i]
    BY <1>1, <1>5, <2>1, SMT, SMTT(20)
  <2>4. /\ Len(inputs') = Len(inputs) + 1 /\ inputs'[Len(inputs) + 1] = s
        /\ \A i \in 1 .. Len(inputs) : inputs'[i] = inputs[i]
    BY <1>1, <1>5, <2>1, SMT, SMTT(20)
  <2>5. Len(vector) = Len(costs) + Len(inputs)
    BY <1>2, ZenonT(40) DEF MatchInv, Open
  <2>6. Len(vector') = Len(costs') + Open'
    BY <1>2, <2>2, <2>3, <2>4, <2>5, SMT, SMTT(20) DEF Open
  <2>7. ASSUME NEW i \in 1 .. Len(vector') PROVE i \in 1 .. Len(vector) \/ i = Len(vector) + 1
    BY <2>2, <2>3, SMT, SMTT(20)
  <2>8. ASSUME NEW i \in 1 .. Len(vector'), NEW j \in 1 .. Len(vector'),
               vector'[i] = vector'[j]
        PROVE  i = j
    <3>1. \A k \in 1 .. Len(vector) : vector[k] # s
      BY <1>5, ZenonT(40) DEF MatchInv
    <3>2. CASE i \in 1 .. Len(vector) /\ j \in 1 .. Len(vector)
      BY <2>3, <2>8, <3>2, Zenon DEF MatchInv
    <3>. QED
      BY <2>3, <2>7, <2>8, <3>1, <3>2, Zenon
  <2>9. \A i \in 1 .. Len(vector') : vector'[i] \in known'
    BY <1>5, <2>3, <2>7, Zenon DEF MatchInv
  <2>10. ASSUME NEW i \in 1 .. Len(costs') PROVE FirstRecord(log', vector'[i], costs'[i])
    <3>1. i \in 1 .. Len(costs) /\ i \in 1 .. Len(vector)
      BY <1>2, <2>2, <2>5, SMT, SMTT(20)
    <3>2. vector'[i] = vector[i] /\ FirstRecord(log, vector[i], costs[i])
      BY <2>3, <3>1, Zenon DEF MatchInv
    <3>. QED
      BY <1>2, <3>2, Zenon
  <2>11. ASSUME NEW i \in 1 .. Len(inputs') PROVE vector'[Len(costs') + i] = inputs'[i]
    <3>1. CASE i = Len(inputs) + 1
      <4>1. Len(costs) + i = Len(vector) + 1
        BY <2>2, <2>5, <3>1, SMT, SMTT(20)
      <4>. QED
        BY <1>2, <2>3, <2>4, <3>1, <4>1, Zenon
    <3>2. CASE i # Len(inputs) + 1
      <4>1. i \in 1 .. Len(inputs) /\ Len(costs) + i \in 1 .. Len(vector)
        BY <2>2, <2>4, <2>5, <3>2, SMT, SMTT(20)
      <4>2. vector[Len(costs) + i] = inputs[i]
        BY <1>2, <4>1, Zenon DEF MatchInv
      <4>. QED
        BY <1>2, <2>3, <2>4, <4>1, <4>2, Zenon
    <3>. QED
      BY <3>1, <3>2, Zenon
  <2>. QED
    BY <1>2, <2>6, <2>8, <2>9, <2>10, <2>11, ZenonT(40) DEF MatchInv
<1>. QED
  BY <1>3, <1>4, <1>5, Zenon

(* A batch adds first records only: its states had none in the file. *)
LEMMA MatchBatch ==
  ASSUME PolicyInv, MatchInv, MeasureBatch
  PROVE  MatchInv'
(* Records added behind leave a state's first record what it was. *)
<1>FirstRecordStays.
    ASSUME NEW a \in Seq(Results), NEW b \in Seq(Results), NEW s, NEW c,
           FirstRecord(a, s, c)
    PROVE  FirstRecord(a \o b, s, c)
  <2>. USE <1>FirstRecordStays
  <2>. DEFINE r == [state |-> s, cost |-> c]
  <2>1. FirstOf(a, Len(a), r)
    BY Zenon DEF FirstRecord
  <2>. HIDE DEF r
  <2>2. PICK j \in 1 .. Len(a) : a[j] = r /\ \A k \in 1 .. j - 1 : a[k].state # r.state
    BY <2>1, Zenon DEF FirstOf
  <2>3. /\ Len(a) \in Nat /\ Len(b) \in Nat /\ Len(a \o b) = Len(a) + Len(b)
        /\ \A i \in 1 .. Len(a) + Len(b) :
             (a \o b)[i] = IF i <= Len(a) THEN a[i] ELSE b[i - Len(a)]
    BY SMT, SMTT(20)
  <2>4. ASSUME NEW i \in 1 .. Len(a) PROVE (a \o b)[i] = a[i]
    <3>1. i \in 1 .. Len(a) + Len(b) /\ i <= Len(a)
      BY <2>3, SMT, SMTT(20)
    <3>. QED
      BY <2>3, <3>1, Zenon
  <2>5. j \in 1 .. Len(a \o b) /\ (a \o b)[j] = r
    BY <2>2, <2>3, <2>4, SMT, SMTT(20)
  <2>6. ASSUME NEW k \in 1 .. j - 1 PROVE (a \o b)[k].state # r.state
    <3>1. k \in 1 .. Len(a)
      BY <2>3, SMT, SMTT(20)
    <3>. QED
      BY <2>2, <2>4, <3>1, Zenon
  <2>7. FirstOf(a \o b, Len(a \o b), r)
    BY <2>5, <2>6, Zenon DEF FirstOf
  <2>. QED
    BY <2>7, Zenon DEF FirstRecord, r
(* The records of a batch are first records: their states are inputs that  *)
(* were not recorded, and no two of them are the same.                     *)
<1>BatchIsFirst.
    ASSUME NEW a \in Seq(Results), NEW b \in Seq(Results), NEW j \in 1 .. Len(b),
           \A i \in 1 .. Len(a) : a[i].state # b[j].state,
           \A i \in 1 .. Len(b) : b[i].state = b[j].state => i = j
    PROVE  FirstRecord(a \o b, b[j].state, b[j].cost)
  <2>. USE <1>BatchIsFirst
  <2>1. /\ Len(a) \in Nat /\ Len(b) \in Nat /\ Len(a \o b) = Len(a) + Len(b)
        /\ \A i \in 1 .. Len(a) + Len(b) :
             (a \o b)[i] = IF i <= Len(a) THEN a[i] ELSE b[i - Len(a)]
    BY SMT, SMTT(20)
  <2>2. b[j] \in Results
    BY SMT, SMTT(20)
  <2>. DEFINE r == [state |-> b[j].state, cost |-> b[j].cost]
  <2>3. r = b[j]
    BY <2>2, Zenon DEF Results
  <2>. HIDE DEF r
  <2>4. Len(a) + j \in 1 .. Len(a \o b) /\ (a \o b)[Len(a) + j] = r
    <3>1. /\ Len(a) + j \in 1 .. Len(a) + Len(b) /\ ~ (Len(a) + j <= Len(a))
          /\ Len(a) + j - Len(a) = j
      BY <2>1, SMT, SMTT(20)
    <3>2. (a \o b)[Len(a) + j] = b[Len(a) + j - Len(a)]
      BY <2>1, <3>1, SMT, SMTT(20)
    <3>. QED
      BY <2>1, <2>3, <3>1, <3>2, Zenon
  <2>5. ASSUME NEW k \in 1 .. (Len(a) + j) - 1 PROVE (a \o b)[k].state # r.state
    <3>1. CASE k <= Len(a)
      <4>1. k \in 1 .. Len(a) /\ k \in 1 .. Len(a) + Len(b)
        BY <2>1, <3>1, SMT, SMTT(20)
      <4>2. (a \o b)[k] = a[k]
        BY <2>1, <3>1, <4>1, Zenon
      <4>. QED
        BY <2>3, <4>1, <4>2, Zenon
    <3>2. CASE ~ (k <= Len(a))
      <4>1. k - Len(a) \in 1 .. Len(b) /\ k - Len(a) # j /\ k \in 1 .. Len(a) + Len(b)
        BY <2>1, <3>2, SMT, SMTT(20)
      <4>2. (a \o b)[k] = b[k - Len(a)]
        BY <2>1, <3>2, <4>1, Zenon
      <4>3. b[k - Len(a)].state # b[j].state
        BY <4>1, Zenon
      <4>. QED
        BY <2>3, <4>2, <4>3, Zenon
    <3>. QED
      BY <3>1, <3>2, Zenon
  <2>6. FirstOf(a \o b, Len(a \o b), r)
    BY <2>4, <2>5, Zenon DEF FirstOf
  <2>. QED
    BY <2>6, Zenon DEF FirstRecord, r
<1>0. PICK n \in Nat : \E c \in [1 .. n -> AllCosts] :
        /\ Len(results) + n <= Len(inputs)
        /\ BatchOf(n, c) \in Seq(Results) /\ Len(BatchOf(n, c)) = n
        /\ \A j \in 1 .. n : BatchOf(n, c)[j].state = inputs[Len(results) + j]
        /\ results' = results \o BatchOf(n, c) /\ log' = log \o BatchOf(n, c)
  BY BatchFacts, Zenon
<1>1. PICK b \in Seq(Results) :
        /\ Len(results) + n <= Len(inputs) /\ Len(b) = n
        /\ \A j \in 1 .. n : b[j].state = inputs[Len(results) + j]
        /\ results' = results \o b /\ log' = log \o b
  BY <1>0, Zenon
<1>2. pc = "measure" /\ pc' = "measure" /\ UNCHANGED <<known, vector, costs, inputs>>
  BY Zenon DEF MeasureBatch, policy
<1>3. /\ results \in Seq(Results) /\ log \in Seq(Results) /\ inputs \in Seq(States)
  BY Zenon DEF PolicyInv, PolicyState, CallState
<1>4. /\ Len(results) \in Nat /\ Len(inputs) \in Nat /\ Len(log) \in Nat
      /\ Len(results') = Len(results) + n
      /\ \A i \in 1 .. Len(results) + n :
           results'[i] = IF i <= Len(results) THEN results[i] ELSE b[i - Len(results)]
  <2>1. Len(results) \in Nat /\ Len(inputs) \in Nat /\ Len(log) \in Nat
    BY <1>3, SMT, SMTT(20)
  <2>. QED
    BY <1>1, <1>3, <2>1, JoinedSeq, Zenon
<1>5. ASSUME NEW s, NEW c, FirstRecord(log, s, c) PROVE FirstRecord(log', s, c)
  BY <1>1, <1>3, <1>5, <1>FirstRecordStays, ZenonT(40)
<1>6. ASSUME NEW j \in 1 .. n
      PROVE  FirstRecord(log', b[j].state, b[j].cost)
  <2>1. Len(results) + j \in Len(results) + 1 .. Len(inputs)
        /\ Len(results) + j \in 1 .. Len(inputs)
    BY <1>1, <1>4, SMT, SMTT(20)
  <2>2. ASSUME NEW i \in 1 .. Len(log) PROVE log[i].state # b[j].state
    <3>1. inputs[Len(results) + j] # log[i].state
      BY <2>1, Zenon DEF PolicyInv, PromiseInv
    <3>. QED
      BY <1>1, <3>1, Zenon
  <2>3. ASSUME NEW i \in 1 .. n, b[i].state = b[j].state PROVE i = j
    <3>1. Len(results) + i \in 1 .. Len(inputs)
      BY <1>1, <1>4, SMT, SMTT(20)
    <3>2. inputs[Len(results) + i] = inputs[Len(results) + j]
      BY <1>1, <2>3, Zenon
    <3>3. Len(results) + i = Len(results) + j
      BY <2>1, <3>1, <3>2, Zenon DEF PolicyInv, PromiseInv
    <3>. QED
      BY <1>4, <3>3, SMT, SMTT(20)
  <2>4. j \in 1 .. Len(b) /\ \A i \in 1 .. Len(b) : b[i].state = b[j].state => i = j
    BY <1>1, <2>3, Zenon
  <2>5. FirstRecord(log \o b, b[j].state, b[j].cost)
    BY <1>3, <2>2, <2>4, <1>BatchIsFirst, Zenon
  <2>. QED
    BY <1>1, <2>5, ZenonT(40)
<1>7. ASSUME NEW i \in 1 .. Len(results')
      PROVE  /\ results'[i].state = inputs'[i]
             /\ FirstRecord(log', inputs'[i], results'[i].cost)
  <2>1. CASE i <= Len(results)
    <3>1. i \in 1 .. Len(results) /\ results'[i] = results[i]
      BY <1>4, <2>1, SMT, SMTT(20)
    <3>2. results[i].state = inputs[i] /\ FirstRecord(log, inputs[i], results[i].cost)
      BY <1>2, <3>1, ZenonT(40) DEF MatchInv
    <3>. QED
      BY <1>2, <1>5, <3>1, <3>2, Zenon
  <2>2. CASE ~ (i <= Len(results))
    <3>1. i - Len(results) \in 1 .. n /\ i \in 1 .. Len(results) + n
          /\ Len(results) + (i - Len(results)) = i
      BY <1>4, <2>2, SMT, SMTT(20)
    <3>2. results'[i] = b[i - Len(results)]
      BY <1>4, <2>2, <3>1, Zenon
    <3>3. b[i - Len(results)].state = inputs[i]
      BY <1>1, <3>1, Zenon
    <3>4. FirstRecord(log', b[i - Len(results)].state, b[i - Len(results)].cost)
      BY <1>6, <3>1, Zenon
    <3>. QED
      BY <1>2, <3>2, <3>3, <3>4, Zenon
  <2>. QED
    BY <2>1, <2>2, Zenon
<1>8. \A i \in 1 .. Len(costs') : FirstRecord(log', vector'[i], costs'[i])
  BY <1>2, <1>5, Zenon DEF MatchInv
<1>9. Open' = Open
  BY <1>2, Zenon DEF Open
<1>. QED
  BY <1>2, <1>7, <1>8, <1>9, Zenon DEF MatchInv

(* A round's throughputs close its inputs. *)
LEMMA MatchEnd ==
  ASSUME PolicyInv, MatchInv, Measured, costs' = Throughputs, Open' = 0,
         pc' \notin {"pick", "measure"}, UNCHANGED <<known, vector, log>>
  PROVE  MatchInv'
<1>1. pc = "measure" /\ Len(results) = Len(inputs)
  BY Zenon DEF Measured
<1>2. /\ costs' \in Seq(AllCosts) /\ Len(costs') = Len(costs) + Len(inputs)
      /\ \A i \in 1 .. Len(costs) : costs'[i] = costs[i]
      /\ \A j \in 1 .. Len(inputs) : costs'[Len(costs) + j] = results[j].cost
  BY <1>1, ThroughputsAdded, Zenon
<1>3. Len(costs) \in Nat /\ Len(inputs) \in Nat /\ Len(vector) = Len(costs) + Len(inputs)
  <2>1. vector \in Seq(States) /\ costs \in Seq(AllCosts) /\ inputs \in Seq(States)
    BY Zenon DEF PolicyInv, PolicyState, CallState
  <2>2. Len(vector) = Len(costs) + Open /\ Open = Len(inputs)
    BY <1>1, Zenon DEF MatchInv, Open
  <2>3. Len(costs) \in Nat /\ Len(inputs) \in Nat
    BY <2>1, SMT, SMTT(20)
  <2>. QED
    BY <2>2, <2>3, Zenon
<1>4. Len(vector') = Len(costs') + Open'
  BY <1>2, <1>3, SMT, SMTT(20)
<1>5. ASSUME NEW i \in 1 .. Len(costs') PROVE FirstRecord(log', vector'[i], costs'[i])
  <2>1. CASE i <= Len(costs)
    <3>1. i \in 1 .. Len(costs)
      BY <1>2, <1>3, <2>1, SMT, SMTT(20)
    <3>. QED
      BY <1>2, <3>1, Zenon DEF MatchInv
  <2>2. CASE ~ (i <= Len(costs))
    <3>. DEFINE j == i - Len(costs)
    <3>1. j \in 1 .. Len(inputs) /\ Len(costs) + j = i
      BY <1>2, <1>3, <2>2, SMT, SMTT(20)
    <3>. HIDE DEF j
    <3>2. /\ vector[Len(costs) + j] = inputs[j]
          /\ FirstRecord(log, inputs[j], results[j].cost)
      BY <1>1, <3>1, Zenon DEF MatchInv
    <3>3. costs'[Len(costs) + j] = results[j].cost
      BY <1>2, <3>1, Zenon
    <3>. QED
      BY <3>1, <3>2, <3>3, Zenon
  <2>. QED
    BY <2>1, <2>2, Zenon
<1>. QED
  BY <1>4, <1>5, Zenon DEF MatchInv

(* With early_stopping no smaller than n_trials, Search does not stop      *)
(* early.                                                                  *)
LEMMA NeverEarly ==
  ASSUME PolicyInv, EarlyStopping >= NTrials, pc = "measure", op = "search"
  PROVE  ~ StopsEarly
<1>1. call.ct + Len(inputs) <= NTrials
  BY Zenon DEF PolicyInv, LengthInv, Open
<1>2. call.ct \in Nat /\ Len(inputs) \in Nat /\ NTrials \in Nat /\ EarlyStopping \in Nat
  <2>1. NTrials \in Nat /\ EarlyStopping \in Nat
    BY Parameters, Zenon
  <2>2. call.ct \in 0 .. NTrials /\ inputs \in Seq(States)
    BY Zenon DEF PolicyInv, CallState, CallTypes
  <2>. QED
    BY <2>1, <2>2, SMT, SMTT(20)
<1>3. call.m.best_ct[Key] \in Nat
  BY Parameters, Zenon DEF PolicyInv, CallState, CallTypes, Statuses
<1>4. \A a, b, d, e, n \in Nat : a + b <= n /\ e >= n => ~ (a + b - d > e)
  BY SMT, SMTT(20)
<1>5. ~ (call.ct + Len(inputs) - call.m.best_ct[Key] > EarlyStopping)
  BY <1>1, <1>2, <1>3, <1>4, Zenon
<1>. QED
  BY <1>5, Zenon DEF StopsEarly

(* Every step preserves the match when no measurement raises and Search    *)
(* does not stop early.                                                    *)
LEMMA MatchNext ==
  ASSUME Library, ~ Raises, EarlyStopping >= NTrials, PolicyInv, MatchInv, [Next]_vars
  PROVE  MatchInv'
<1>. DEFINE Same == /\ UNCHANGED <<known, vector, costs, log>>
                    /\ Open = 0 /\ Open' = 0 /\ pc' # "measure"
                    /\ pc' = "pick" => Len(inputs') = 0
<1>1. Call => Same
  BY Zenon DEF Call, policy, Open
<1>2. Round => Same
  BY Zenon DEF Round, Open
<1>3. EndSearch => Same
  BY Zenon DEF EndSearch, EndCall, policy, Open
<1>4. ASSUME NEW found, SampleIter(found) PROVE Same
  BY <1>4, Zenon DEF SampleIter, Open
<1>5. EndSample => Same
  BY Zenon DEF EndSample, Open
<1>6. Assemble => Same
  BY Zenon DEF Assemble, Open
<1>7. AssembleUndefined => Same
  BY Zenon DEF AssembleUndefined, policy, Open
<1>8. Visit => Same
  BY Zenon DEF Visit, policy, Open
<1>9. Mutate => Same
  BY Zenon DEF Mutate, policy, Open
<1>10. EndPotential => Same
  BY Zenon DEF EndPotential, Open
<1>11. EndEvolution => Same
  <2>0. SUFFICES ASSUME EndEvolution PROVE Same
    BY Zenon
  <2>1. inputs = <<>> /\ pc = "evolve" /\ UNCHANGED <<known, vector, costs, log>>
    BY <2>0, Zenon DEF EndEvolution, PolicyInv, PromiseInv, policy
  <2>2. CASE op = "best"
    BY <2>0, <2>1, <2>2, ZenonT(40) DEF EndEvolution, EndCall, Open
  <2>3. CASE op # "best"
    <3>1. pc' = "pick" /\ inputs' = <<>>
      BY <2>0, <2>1, <2>3, Zenon DEF EndEvolution
    <3>2. Len(inputs') = 0
      BY <3>1, Zenon
    <3>. QED
      BY <2>1, <3>1, <3>2, Zenon DEF Open
  <2>. QED
    BY <2>2, <2>3, Zenon
<1>12. EmptyRound => Same
  <2>0. SUFFICES ASSUME EmptyRound PROVE Same
    BY Zenon
  <2>1. inputs = <<>> /\ pc = "pick" /\ UNCHANGED <<known, vector, costs, log>>
    BY <2>0, Zenon DEF EmptyRound, PickDone, policy
  <2>2. CASE call.retry > 0
    BY <2>0, <2>1, <2>2, Zenon DEF EmptyRound, Open
  <2>3. CASE ~ (call.retry > 0)
    BY <2>0, <2>1, <2>3, Zenon DEF EmptyRound, EndCall, Open
  <2>. QED
    BY <2>2, <2>3, Zenon
<1>13. EndContinue => MatchInv'
  <2>. SUFFICES ASSUME EndContinue PROVE MatchInv'
    BY Zenon
  <2>1. /\ Measured /\ costs' = Throughputs /\ pc' = "idle"
        /\ UNCHANGED <<known, vector, log>>
    BY Zenon DEF EndContinue, EndCall
  <2>2. Open' = 0
    BY <2>1, Zenon DEF Open
  <2>. QED
    BY <2>1, <2>2, MatchEnd, Zenon
<1>14. EndRound => MatchInv'
  <2>. SUFFICES ASSUME EndRound PROVE MatchInv'
    BY Zenon
  <2>1. /\ Measured /\ costs' = Throughputs /\ pc' = "round"
        /\ UNCHANGED <<known, vector, log>>
    BY Zenon DEF EndRound
  <2>2. Open' = 0
    BY <2>1, Zenon DEF Open
  <2>. QED
    BY <2>1, <2>2, MatchEnd, Zenon
<1>15. ~ EndEarly /\ ~ Raise
  BY NeverEarly, Zenon DEF EndEarly, Measured, Raise
<1>16. Terminated \/ UNCHANGED vars => MatchInv'
  BY Zenon DEF Terminated, vars, policy, MatchInv, Open
<1>17. Same => MatchInv'
  BY MatchQuiet, Zenon
<1>. HIDE DEF Same
<1>. QED
  BY <1>1, <1>2, <1>3, <1>4, <1>5, <1>6, <1>7, <1>8, <1>9, <1>10, <1>11, <1>12,
     <1>13, <1>14, <1>15, <1>16, <1>17, MatchStart, MatchPick, MatchBatch,
     MatchRestart, Zenon DEF Next, Step
-----------------------------------------------------------------------------
INSTANCE FiniteSetTheorems

(* The library facts taken as a hypothesis hold. *)
LEMMA LibraryHolds == Library
<1>1. ASSUME NEW S \in SUBSET Nat, 0 \in S, \A n \in S : n + 1 \in S PROVE S = Nat
  <2>1. IsWellFoundedOn(OpToRel(<, Nat), Nat)
    BY NatLessThanWellFounded, Zenon
  <2>2. SUFFICES ASSUME Nat \ S # {} PROVE FALSE
    BY Zenon
  <2>3. PICK x \in Nat \ S : \A y \in Nat \ S : <<y, x>> \notin OpToRel(<, Nat)
    BY <2>1, <2>2, WFMin, Zenon
  <2>4. x # 0 /\ x - 1 \in Nat
    BY <1>1, SMT, SMTT(20)
  <2>5. <<x - 1, x>> \in OpToRel(<, Nat)
    BY <2>4, SMT, SMTT(20) DEF OpToRel
  <2>6. x - 1 \in S
    BY <2>3, <2>4, <2>5, Zenon
  <2>7. (x - 1) + 1 \in S
    BY <1>1, <2>6, Zenon
  <2>8. (x - 1) + 1 = x
    BY SMT, SMTT(20)
  <2>. QED
    BY <2>7, <2>8, Zenon
<1>2. IsFiniteSet({}) /\ Cardinality({}) = 0
  BY FS_EmptySet, Zenon
<1>3. ASSUME NEW S, IsFiniteSet(S)
      PROVE  /\ Cardinality(S) \in Nat
             /\ \A T \in SUBSET S : /\ IsFiniteSet(T) /\ Cardinality(T) <= Cardinality(S)
                                    /\ Cardinality(S) = Cardinality(T) => S = T
             /\ \A x : /\ IsFiniteSet(S \cup {x})
                       /\ Cardinality(S \cup {x}) = IF x \in S THEN Cardinality(S) ELSE Cardinality(S) + 1
                       /\ IsFiniteSet(S \ {x})
                       /\ Cardinality(S \ {x}) = IF x \in S THEN Cardinality(S) - 1 ELSE Cardinality(S)
  BY <1>3, FS_CardinalityType, FS_Subset, FS_AddElement, FS_RemoveElement, Zenon
<1>. QED
  BY <1>1, <1>2, <1>3, Zenon DEF Library

(* The inductive invariant of the policy. *)
THEOREM PolicyInvariant == Spec => []PolicyInv
<1>1. Init => PolicyInv
  BY LibraryHolds, PolicyInit, Zenon
<1>2. PolicyInv /\ [Next]_vars => PolicyInv'
  BY LibraryHolds, PolicyNext, Zenon
<1>. QED
  BY <1>1, <1>2, PTL DEF Spec

(* The fields of the policy keep their types: sample_init_min_pop_ never   *)
(* falls below one, the drafted potential space is within its size, and    *)
(* the indices into measured_states_vector_ are in its range, whatever the *)
(* rules, models, exceptions and restarts do.                              *)
THEOREM PolicyTypesHold == Spec => []TypeOK
BY PolicyInvariant, InvTypes, PTL

(* Search never measures more programs than n_trials, in any number of     *)
(* rounds, empty rounds, retries and batches.                              *)
THEOREM SearchBudgetHolds == Spec => []SearchBudget
BY PolicyInvariant, InvTypes, PTL

(* For every population, number of generations, heap size and scores, the  *)
(* heap of EvolutionarySearch holds the best of the states it has visited  *)
(* that were never measured; states that left the heap and came back, ties *)
(* and states measured before included.                                    *)
THEOREM HeapKeepsBestHolds == Spec => []HeapKeepsBest
BY PolicyInvariant, InvTypes, PTL

(* When nothing raises and early_stopping is no smaller than n_trials,     *)
(* each measured state has its own throughput, the one the record file     *)
(* says first, across rounds, calls and restarts.  (When Search stops      *)
(* early, the vectors come apart: ThroughputPerState.)                     *)
THEOREM ThroughputsMatchHolds ==
  ASSUME ~ Raises, EarlyStopping >= NTrials
  PROVE  Spec => []ThroughputsMatch
<1>1. Init => PolicyInv /\ MatchInv
  BY LibraryHolds, PolicyInit, MatchInit, Zenon
<1>2. PolicyInv /\ MatchInv /\ [Next]_vars => (PolicyInv /\ MatchInv)'
  BY LibraryHolds, PolicyNext, MatchNext, Zenon
<1>3. PolicyInv /\ MatchInv => ThroughputsMatch
  BY MatchMeans, Zenon
<1>. QED
  BY <1>1, <1>2, <1>3, PTL DEF Spec
=============================================================================
