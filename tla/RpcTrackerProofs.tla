-------------------------- MODULE RpcTrackerProofs --------------------------
(***************************************************************************)
(* What _schedule does to the lists of the tracker, and that the handlers  *)
(* which end with it preserve the invariant of the farm.                   *)
(***************************************************************************)
EXTENDS RpcFarmProofs

(* Induction over the natural numbers, for a set. *)
LEMMA NatInduct ==
  ASSUME Library, NEW S \in SUBSET Nat, 0 \in S, \A n \in S : n + 1 \in S
  PROVE  S = Nat
BY Zenon DEF Library

(* A non-empty set of natural numbers has a minimum. *)
LEMMA MinOfNats ==
  ASSUME Library, NEW S \in SUBSET Nat, S # {}
  PROVE  Min(S) \in S
BY Zenon DEF Library

(* A part of 1 .. n has at most n elements. *)
LEMMA Counting ==
  ASSUME Library, NEW n \in Nat, NEW S \in SUBSET (1 .. n)
  PROVE  Cardinality(S) \in 0 .. n
BY Zenon DEF Library

(* An element of the free list. *)
LEMMA OneOf ==
  ASSUME NEW q \in Seq(Values), NEW i \in DOMAIN q
  PROVE  i \in 1 .. Len(q) /\ q[i] \in Values
OBVIOUS

(* The types after the PUT of a server that registers or pings. *)
LEMMA OfferedTypes ==
  ASSUME RpcAssumption, Types, NEW s \in Servers, NEW k \in Keys,
         matchkey' = [matchkey EXCEPT ![s] = k], unmatched' = [unmatched EXCEPT ![s] = 0],
         sconn' = sconn \/ sconn' = [sconn EXCEPT ![s] = "open"],
         state' = state \/ state' = [state EXCEPT ![s] = "listen"],
         UNCHANGED <<backlog, serving, clientVars>>,
         values' \in Seq(Values), requests' \in Seq(Requests), Len(requests') <= MaxRequests,
         inbox' \in [Clients -> Values \cup {None}]
  PROVE  Types'
<1>1. /\ state' \in [Servers -> {"register", "listen", "serving", "dead"}]
      /\ sconn' \in [Servers -> {None, "open", "broken"}]
  BY ZenonT(40) DEF Types
<1>2. /\ matchkey' \in [Servers -> Keys \cup {None}]
      /\ unmatched' \in [Servers -> 0 .. UnmatchedPings]
  BY DEF Types, RpcAssumption
<1>3. /\ backlog' = backlog /\ serving' = serving
      /\ step' = step /\ cconn' = cconn /\ tries' = tries /\ value' = value
  BY Zenon DEF clientVars
<1>. QED
  BY <1>1, <1>2, <1>3, ZenonT(40) DEF Types

(* A ping that finds the key pending, or counts one more without it. *)
LEMMA PingWaits ==
  ASSUME FarmInv, RpcAssumption, NEW s \in Servers, ~(Unmatched(s) > UnmatchedPings),
         unmatched' = [unmatched EXCEPT ![s] = Unmatched(s)], UNCHANGED <<trackerVars, matchkey>>,
         UNCHANGED <<state, sconn, backlog, serving, clientVars>>
  PROVE  FarmInv'
<1>1. /\ values' = values /\ requests' = requests /\ pending' = pending /\ inbox' = inbox
      /\ state' = state /\ sconn' = sconn /\ matchkey' = matchkey
      /\ backlog' = backlog /\ serving' = serving
      /\ step' = step /\ cconn' = cconn /\ tries' = tries /\ value' = value
  BY Zenon DEF trackerVars, serverVars, clientVars
<1>2. unmatched' \in [Servers -> 0 .. UnmatchedPings]
  <2>1. unmatched \in [Servers -> 0 .. UnmatchedPings] /\ UnmatchedPings \in Nat
    BY Zenon DEF FarmInv, Types, RpcAssumption
  <2>2. Unmatched(s) \in 0 .. UnmatchedPings
    BY <2>1 DEF Unmatched
  <2>. QED
    BY <2>1, <2>2, Zenon
<1>3. Types' /\ ListsInv' /\ WaitInv'
  BY <1>1, <1>2, SMT, SMTT(20) DEF FarmInv, Types, ListsInv, WaitInv
<1>4. OffersInv' /\ HoldInv'
  BY <1>1, ZenonT(40) DEF FarmInv, OffersInv, HoldInv
<1>5. CallsInv'
  BY <1>1, Zenon DEF FarmInv, CallsInv
<1>6. SessionsInv'
  BY <1>1 DEF FarmInv, SessionsInv
<1>. QED
  BY <1>3, <1>4, <1>5, <1>6, Zenon DEF FarmInv
-----------------------------------------------------------------------------
(* A handler that ends with _schedule: what the step leaves, when the      *)
(* tracker has the values V and the requests R and nothing is granted yet, *)
(* and the invariants after the grants.                                    *)
OffersReady(V) ==
  \A v \in Values : IsOf(v, V) =>
    /\ v.conn = "open" => state'[v.server] = "listen" /\ matchkey'[v.server] = v.key
    /\ v.conn = "hung" => matchkey'[v.server] # v.key
    /\ \A c \in Clients : ~At(inbox[c], v.server, v.key) /\ ~At(value'[c], v.server, v.key)

WaitReady(R) ==
  \A c \in Clients :
    /\ Asks(c, R) => step'[c] = "wait" /\ inbox[c] = None /\ cconn'[c] = "open"
    /\ inbox[c] # None => step'[c] = "wait"
    /\ value'[c] # None <=> step'[c] \in {"handshake", "session"}

HoldReady ==
  \A c, d \in Clients, s \in Servers, k \in Keys :
    /\ At(inbox[c], s, k) => ~At(value'[d], s, k)
    /\ At(inbox[c], s, k) /\ At(inbox[d], s, k) => c = d
    /\ At(value'[c], s, k) /\ At(value'[d], s, k) => c = d

CallsReady(V) ==
  \A s \in Servers :
    /\ Len(backlog'[s]) <= Backlog
    /\ CallsOnce(backlog'[s])
    /\ \A e \in Calls : IsOf(e, backlog'[s]) =>
         /\ e.server = s
         /\ e.client # None => step'[e.client] = "handshake" /\ At(value'[e.client], s, e.key)
         /\ \A d \in Clients : ~At(inbox[d], s, e.key) /\ (At(value'[d], s, e.key) => e.client = d)
         /\ \A v \in Values : IsOf(v, V) => ~At(v, s, e.key)

SessionsReady ==
  \A s \in Servers :
    /\ matchkey'[s] # None <=> state'[s] \in {"listen", "serving"}
    /\ state'[s] = "serving" =>
         /\ \A e \in Calls : IsOf(e, backlog'[s]) => e.key # matchkey'[s]
         /\ \A c \in Clients : /\ ~At(inbox[c], s, matchkey'[s])
                               /\ At(value'[c], s, matchkey'[s]) => serving'[s] = c
    /\ serving'[s] # None => /\ state'[s] = "serving" /\ step'[serving'[s]] = "session"
                             /\ At(value'[serving'[s]], s, matchkey'[s])
    /\ \A c \in Clients : step'[c] = "handshake" /\ At(value'[c], s, matchkey'[s]) =>
         \E e \in Calls : IsOf(e, backlog'[s]) /\ e.client = c

Ready(V, R) == OffersReady(V) /\ WaitReady(R) /\ HoldReady /\ CallsReady(V) /\ SessionsReady

(* A handler that changes nothing of the servers, and no client that has   *)
(* a session or shakes hands, leaves the sessions as they are.             *)
LEMMA SessionsKept ==
  ASSUME FarmInv, state' = state, matchkey' = matchkey, backlog' = backlog,
         serving' = serving, value' = value,
         \A c \in Clients : /\ step[c] = "session" => step'[c] = "session"
                            /\ step'[c] = "handshake" => step[c] = "handshake"
  PROVE  SessionsReady
<1>1. ASSUME NEW s \in Servers
      PROVE  /\ matchkey'[s] # None <=> state'[s] \in {"listen", "serving"}
             /\ state'[s] = "serving" =>
                  /\ \A e \in Calls : IsOf(e, backlog'[s]) => e.key # matchkey'[s]
                  /\ \A c \in Clients : /\ ~At(inbox[c], s, matchkey'[s])
                                        /\ At(value'[c], s, matchkey'[s]) => serving'[s] = c
             /\ serving'[s] # None => /\ state'[s] = "serving" /\ step'[serving'[s]] = "session"
                                      /\ At(value'[serving'[s]], s, matchkey'[s])
             /\ \A c \in Clients : step'[c] = "handshake" /\ At(value'[c], s, matchkey'[s]) =>
                  \E e \in Calls : IsOf(e, backlog'[s]) /\ e.client = c
  <2>1. serving[s] # None => serving[s] \in Clients
    BY Zenon DEF FarmInv, Types
  <2>2. /\ matchkey[s] # None <=> state[s] \in {"listen", "serving"}
        /\ state[s] = "serving" =>
             /\ \A e \in Calls : IsOf(e, backlog[s]) => e.key # matchkey[s]
             /\ \A c \in Clients : /\ ~At(inbox[c], s, matchkey[s])
                                   /\ At(value[c], s, matchkey[s]) => serving[s] = c
        /\ serving[s] # None => /\ state[s] = "serving" /\ step[serving[s]] = "session"
                                /\ At(value[serving[s]], s, matchkey[s])
        /\ \A c \in Clients : step[c] = "handshake" /\ At(value[c], s, matchkey[s]) =>
             \E e \in Calls : IsOf(e, backlog[s]) /\ e.client = c
    BY SessionFacts, Zenon
  <2>. QED
    BY <2>1, <2>2, Zenon
<1>. QED
  BY <1>1, Zenon DEF SessionsReady
-----------------------------------------------------------------------------
(* _schedule, turn by turn.                                                *)
(* After n turns of the loop: what was granted and what is left in the     *)
(* free list make up the values it started with, every value was granted   *)
(* at most once and every client got at most one; and the requests that    *)
(* are left are the last ones, none of them served.                        *)
Turns == [values : Seq(Values), requests : Seq(Requests),
          granted : SUBSET [client : Clients \cup {None}, value : Values]]

TurnValues(V, st) ==
  /\ KeysOnce(st.values)
  /\ \A i \in 1 .. Len(st.values) : IsOf(st.values[i], V)
  /\ \A j \in 1 .. Len(V) : IsOf(V[j], st.values) \/ \E g \in st.granted : g.value = V[j]
  /\ \A g \in st.granted : IsOf(g.value, V) /\ ~IsOf(g.value, st.values)

TurnGrants(R, A, n, st) ==
  /\ \A g, h \in st.granted :
       /\ g.value = h.value => g = h
       /\ g.client = h.client /\ g.client # None => g = h
  /\ \A g \in st.granted :
       \E i \in 1 .. n - Len(st.requests) : i \in A /\ g.client = R[i].client

TurnRequests(V, R, n, st) ==
  /\ st.values = <<>> \/ st.requests = <<>>
  /\ Len(st.requests) <= n
  /\ \A i \in 1 .. Len(st.requests) : st.requests[i] = R[(n - Len(st.requests)) + i]
  /\ V = <<>> => Len(st.requests) = n

TurnInv(V, R, A, n, st) ==
  st \in Turns /\ TurnValues(V, st) /\ TurnGrants(R, A, n, st) /\ TurnRequests(V, R, n, st)

(* Where an element was before the first of N became the last. *)
Old(i, N) == IF i = N THEN 1 ELSE i + 1

(* A turn of the loop: the request is queued when no value is left, and     *)
(* otherwise gets the first value or, when its client is gone, gives it    *)
(* back to the end of the list.                                            *)
LEMMA Turn ==
  ASSUME NEW V \in Seq(Values), NEW R \in Seq(Requests), NEW A, RequestsOnce(R),
         NEW n \in Nat, n + 1 \in 1 .. Len(R), NEW st, TurnInv(V, R, A, n, st)
  PROVE  TurnInv(V, R, A, n + 1, Serve(st, R[n + 1], n + 1 \in A))
<1>LastOfShifted. \A a, b \in Nat : (a - b) + (b + 1) = a + 1
    OBVIOUS
<1>HeadAndTail. ASSUME NEW W \in Seq(Values), W # <<>>
                PROVE  /\ Head(W) \in Values /\ Head(W) = W[1] /\ Tail(W) \in Seq(Values)
                       /\ Len(W) \in Nat \ {0} /\ Len(Tail(W)) = Len(W) - 1
                       /\ \A i \in 1 .. Len(W) - 1 : Tail(W)[i] = W[i + 1]
  <2>. USE <1>HeadAndTail
  <2>1. Len(W) \in Nat \ {0}
    OBVIOUS
  <2>2. Head(W) \in Values /\ Tail(W) \in Seq(Values)
    OBVIOUS
  <2>. QED
    BY <2>1, <2>2
<1>Rotation. ASSUME NEW N \in Nat \ {0}
             PROVE  /\ \A i \in 1 .. N : Old(i, N) \in 1 .. N
                    /\ \A i, j \in 1 .. N : Old(i, N) = Old(j, N) => i = j
                    /\ \A p \in 1 .. N : \E i \in 1 .. N : Old(i, N) = p
  <2>1. ASSUME NEW p \in 1 .. N PROVE \E i \in 1 .. N : Old(i, N) = p
    <3>1. CASE p = 1
      BY <3>1 DEF Old
    <3>2. CASE p # 1
      <4>1. p - 1 \in 1 .. N /\ Old(p - 1, N) = p
        BY <3>2 DEF Old
      <4>. QED
        BY <4>1, Zenon
    <3>. QED
      BY <3>1, <3>2, Zenon
  <2>2. ASSUME NEW i \in 1 .. N, NEW j \in 1 .. N, Old(i, N) = Old(j, N) PROVE i = j
    BY <2>2 DEF Old
  <2>3. ASSUME NEW i \in 1 .. N PROVE Old(i, N) \in 1 .. N
    BY DEF Old
  <2>. QED
    BY <2>1, <2>2, <2>3, Zenon
<1>Queued. CASE st.values = <<>>
  <2>. USE <1>Queued
  <2>. DEFINE next == Serve(st, R[n + 1], n + 1 \in A)
  <2>1. st \in Turns /\ st.requests \in Seq(Requests) /\ Len(st.requests) \in Nat
    BY DEF TurnInv, Turns
  <2>2. R[n + 1] \in Requests
    OBVIOUS
  <2>3. /\ next.values = st.values /\ next.granted = st.granted
        /\ next.requests = Append(st.requests, R[n + 1])
        /\ next = [st EXCEPT !.requests = Append(st.requests, R[n + 1])]
    BY <2>1, Zenon DEF Turns, Serve
  <2>. HIDE DEF next
  <2>4. /\ next.requests \in Seq(Requests) /\ Len(next.requests) = Len(st.requests) + 1
        /\ \A i \in 1 .. Len(st.requests) : next.requests[i] = st.requests[i]
        /\ next.requests[Len(st.requests) + 1] = R[n + 1]
    BY <2>1, <2>2, <2>3
  <2>5. next \in Turns
    BY <2>1, <2>3, <2>4, Zenon DEF Turns
  <2>6. TurnValues(V, next)
    BY <2>3, Zenon DEF TurnInv, TurnValues
  <2>7. TurnGrants(R, A, n + 1, next)
    <3>1. (n + 1) - Len(next.requests) = n - Len(st.requests)
      BY <2>1, <2>4
    <3>2. /\ \A g, h \in st.granted :
               /\ g.value = h.value => g = h
               /\ g.client = h.client /\ g.client # None => g = h
          /\ \A g \in st.granted :
               \E i \in 1 .. n - Len(st.requests) : i \in A /\ g.client = R[i].client
      BY Zenon DEF TurnInv, TurnGrants
    <3>3. next.granted = st.granted
      BY <2>3, Zenon
    <3>. QED
      <4>1. \A g, h \in next.granted :
              /\ g.value = h.value => g = h
              /\ g.client = h.client /\ g.client # None => g = h
        BY <3>2, <3>3, Zenon
      <4>2. ASSUME NEW g \in next.granted
            PROVE  \E i \in 1 .. (n + 1) - Len(next.requests) : i \in A /\ g.client = R[i].client
        BY <3>1, <3>2, <3>3, Zenon
      <4>. QED
        BY <4>1, <4>2, Zenon DEF TurnGrants
  <2>8. TurnRequests(V, R, n + 1, next)
    <3>1. /\ Len(st.requests) <= n
          /\ \A i \in 1 .. Len(st.requests) : st.requests[i] = R[(n - Len(st.requests)) + i]
          /\ V = <<>> => Len(st.requests) = n
      BY Zenon DEF TurnInv, TurnRequests
    <3>2. ASSUME NEW i \in 1 .. Len(next.requests)
          PROVE  next.requests[i] = R[((n + 1) - Len(next.requests)) + i]
      <4>1. ((n + 1) - Len(next.requests)) + i = (n - Len(st.requests)) + i
        BY <2>1, <2>4
      <4>2. CASE i = Len(st.requests) + 1
        <5>1. (n - Len(st.requests)) + i = n + 1
          <6>1. Len(st.requests) \in Nat
            BY <2>1, Zenon
          <6>2. (n - Len(st.requests)) + (Len(st.requests) + 1) = n + 1
            BY <6>1, <1>LastOfShifted, Zenon
          <6>. QED
            BY <4>2, <6>2, Zenon
        <5>. QED
          BY <2>4, <4>1, <4>2, <5>1, Zenon
      <4>3. CASE i \in 1 .. Len(st.requests)
        BY <2>4, <3>1, <4>1, <4>3, Zenon
      <4>4. i = Len(st.requests) + 1 \/ i \in 1 .. Len(st.requests)
        BY <2>1, <2>4, SMT, SMTT(20)
      <4>. QED
        BY <4>2, <4>3, <4>4, Zenon
    <3>3. Len(next.requests) <= n + 1 /\ (V = <<>> => Len(next.requests) = n + 1)
      BY <2>1, <2>4, <3>1
    <3>4. next.values = <<>>
      BY <2>3, Zenon
    <3>. QED
      BY <3>2, <3>3, <3>4, Zenon DEF TurnRequests
  <2>. QED
    BY <2>5, <2>6, <2>7, <2>8, Zenon DEF TurnInv, next
<1>Rotated. CASE st.values # <<>> /\ n + 1 \notin A
  <2>. USE <1>Rotated
  <2>. DEFINE next == Serve(st, R[n + 1], n + 1 \in A)
              W == st.values
              X == Append(Tail(W), Head(W))
  <2>1. st \in Turns /\ W \in Seq(Values) /\ st.requests = <<>> /\ Len(st.requests) = 0
    BY Zenon DEF TurnInv, Turns, TurnRequests
  <2>2. /\ Head(W) \in Values /\ Head(W) = W[1] /\ Tail(W) \in Seq(Values)
        /\ Len(W) \in Nat \ {0} /\ Len(Tail(W)) = Len(W) - 1
        /\ \A i \in 1 .. Len(W) - 1 : Tail(W)[i] = W[i + 1]
    BY <2>1, <1>HeadAndTail, Zenon
  <2>3. next.values = X /\ next.granted = st.granted /\ next.requests = <<>>
    <3>1. next = [st EXCEPT !.values = X, !.granted = st.granted]
      BY Zenon DEF Serve
    <3>. QED
      BY <2>1, <3>1, Zenon DEF Turns
  <2>4. /\ X \in Seq(Values) /\ Len(X) = Len(W) /\ X[Len(W)] = W[1]
        /\ \A i \in 1 .. Len(W) - 1 : X[i] = W[i + 1]
    <3>1. /\ X \in Seq(Values) /\ Len(X) = Len(Tail(W)) + 1 /\ X[Len(Tail(W)) + 1] = Head(W)
          /\ \A i \in 1 .. Len(Tail(W)) : X[i] = Tail(W)[i]
      BY <2>2, SMT, SMTT(20)
    <3>2. Len(Tail(W)) + 1 = Len(W)
      BY <2>2
    <3>. QED
      BY <2>2, <3>1, <3>2, Zenon
  <2>5. next \in Turns
    <3>1. next = [st EXCEPT !.values = X, !.granted = st.granted]
      BY Zenon DEF Serve
    <3>2. X \in Seq(Values)
      BY <2>4, Zenon
    <3>. HIDE DEF X, W, next
    <3>. QED
      BY <2>1, <3>1, <3>2, Zenon DEF Turns
  <2>. HIDE DEF next, W, X
  <2>6. KeysOnce(W) /\ \A i \in 1 .. Len(W) : IsOf(W[i], V)
    BY Zenon DEF TurnInv, TurnValues, W
  <2>7. /\ \A i \in 1 .. Len(W) : Old(i, Len(W)) \in 1 .. Len(W) /\ X[i] = W[Old(i, Len(W))]
        /\ \A i, j \in 1 .. Len(W) : Old(i, Len(W)) = Old(j, Len(W)) => i = j
        /\ \A p \in 1 .. Len(W) : \E i \in 1 .. Len(W) : Old(i, Len(W)) = p
    <3>1. Len(W) \in Nat \ {0}
      BY <2>2, Zenon
    <3>2. ASSUME NEW i \in 1 .. Len(W) PROVE X[i] = W[Old(i, Len(W))]
      <4>1. CASE i = Len(W)
        BY <2>4, <4>1, Zenon DEF Old
      <4>2. CASE i # Len(W)
        <5>1. i \in 1 .. Len(W) - 1
          BY <3>1, <4>2
        <5>. QED
          BY <2>4, <4>2, <5>1, Zenon DEF Old
      <4>. QED
        BY <4>1, <4>2, Zenon
    <3>. QED
      BY <3>1, <3>2, <1>Rotation, Zenon
  <2>8. \A x : IsOf(x, X) <=> IsOf(x, W)
    <3>1. Len(X) = Len(W)
      BY <2>4, Zenon
    <3>. QED
      <4>1. ASSUME NEW x, NEW i \in 1 .. Len(X), x = X[i] PROVE IsOf(x, W)
        <5>1. i \in 1 .. Len(W)
          BY <3>1, Zenon
        <5>2. Old(i, Len(W)) \in 1 .. Len(W) /\ X[i] = W[Old(i, Len(W))]
          BY <2>7, <5>1, Zenon
        <5>. QED
          BY <4>1, <5>2, Zenon DEF IsOf
      <4>2. ASSUME NEW x, NEW p \in 1 .. Len(W), x = W[p] PROVE IsOf(x, X)
        <5>1. PICK i \in 1 .. Len(W) : Old(i, Len(W)) = p
          BY <2>7, Zenon
        <5>2. X[i] = W[p]
          BY <2>7, <5>1, Zenon
        <5>. QED
          BY <3>1, <4>2, <5>2, Zenon DEF IsOf
      <4>. QED
        BY <4>1, <4>2, Zenon DEF IsOf
  <2>9. KeysOnce(X)
    <3>1. Len(X) = Len(W)
      BY <2>4, Zenon
    <3>2. SUFFICES ASSUME NEW i \in 1 .. Len(W), NEW j \in 1 .. Len(W),
                          X[i].server = X[j].server, X[i].key = X[j].key
                   PROVE  i = j
      BY <3>1, Zenon DEF KeysOnce
    <3>3. Old(i, Len(W)) = Old(j, Len(W))
      <4>1. /\ Old(i, Len(W)) \in 1 .. Len(W) /\ X[i] = W[Old(i, Len(W))]
            /\ Old(j, Len(W)) \in 1 .. Len(W) /\ X[j] = W[Old(j, Len(W))]
        BY <2>7, Zenon
      <4>2. /\ W[Old(i, Len(W))].server = W[Old(j, Len(W))].server
            /\ W[Old(i, Len(W))].key = W[Old(j, Len(W))].key
        BY <3>2, <4>1, Zenon
      <4>. QED
        BY <2>6, <4>1, <4>2, Zenon DEF KeysOnce
    <3>. QED
      BY <2>7, <3>3, Zenon
  <2>10. TurnValues(V, next)
    <3>1. /\ \A i \in 1 .. Len(X) : IsOf(X[i], V)
          /\ \A j \in 1 .. Len(V) : IsOf(V[j], X) \/ \E g \in st.granted : g.value = V[j]
          /\ \A g \in st.granted : IsOf(g.value, V) /\ ~IsOf(g.value, X)
      <4>1. \A i \in 1 .. Len(X) : IsOf(X[i], V)
        <5>1. Len(X) = Len(W)
          BY <2>4, Zenon
        <5>. QED
          BY <2>6, <2>7, <5>1, Zenon
      <4>2. /\ \A j \in 1 .. Len(V) : IsOf(V[j], W) \/ \E g \in st.granted : g.value = V[j]
            /\ \A g \in st.granted : IsOf(g.value, V) /\ ~IsOf(g.value, W)
        BY Zenon DEF TurnInv, TurnValues, W
      <4>. QED
        BY <2>8, <4>1, <4>2, Zenon
    <3>. QED
      BY <2>3, <2>9, <3>1, Zenon DEF TurnValues
  <2>11. TurnGrants(R, A, n + 1, next)
    <3>1. /\ \A g, h \in st.granted :
               /\ g.value = h.value => g = h
               /\ g.client = h.client /\ g.client # None => g = h
          /\ \A g \in st.granted :
               \E i \in 1 .. n - Len(st.requests) : i \in A /\ g.client = R[i].client
      BY Zenon DEF TurnInv, TurnGrants
    <3>2. /\ \A i \in 1 .. n - Len(st.requests) : i \in 1 .. (n + 1) - Len(next.requests)
          /\ next.granted = st.granted
      BY <2>1, <2>3
    <3>. QED
      BY <3>1, <3>2, Zenon DEF TurnGrants
  <2>12. TurnRequests(V, R, n + 1, next)
    <3>1. V = <<>> => FALSE
      <4>1. V = <<>> => n = 0 /\ Len(V) = 0
        BY <2>1, Zenon DEF TurnInv, TurnRequests
      <4>2. IsOf(W[1], V)
        <5>1. Len(W) \in Nat \ {0}
          BY <2>2, Zenon
        <5>2. 1 \in 1 .. Len(W)
          BY <5>1
        <5>. QED
          BY <2>6, <5>2, Zenon
      <4>. QED
        BY <4>1, <4>2 DEF IsOf
    <3>. QED
      BY <2>3, <3>1 DEF TurnRequests
  <2>. QED
    BY <2>5, <2>10, <2>11, <2>12, Zenon DEF TurnInv, next
<1>Taken. CASE st.values # <<>> /\ n + 1 \in A
  <2>. USE <1>Taken
  <2>. DEFINE next == Serve(st, R[n + 1], n + 1 \in A)
              W == st.values
              X == Tail(W)
              g0 == [client |-> R[n + 1].client, value |-> Head(W)]
  <2>1. st \in Turns /\ W \in Seq(Values) /\ st.requests = <<>> /\ Len(st.requests) = 0
    BY Zenon DEF TurnInv, Turns, TurnRequests
  <2>2. /\ Head(W) \in Values /\ Head(W) = W[1] /\ X \in Seq(Values)
        /\ Len(W) \in Nat \ {0} /\ Len(X) = Len(W) - 1
        /\ \A i \in 1 .. Len(W) - 1 : X[i] = W[i + 1]
    BY <2>1, <1>HeadAndTail, Zenon
  <2>3. next = [st EXCEPT !.values = X, !.granted = st.granted \cup {g0}]
    BY Zenon DEF Serve
  <2>4. R[n + 1] \in Requests
    OBVIOUS
  <2>5. g0 \in [client : Clients \cup {None}, value : Values] /\ g0.value = W[1]
        /\ g0.client = R[n + 1].client
    BY <2>2, <2>4, Zenon DEF Requests
  <2>. HIDE DEF g0, next, X
  <2>6. next.values = X /\ next.granted = st.granted \cup {g0} /\ next.requests = <<>>
    BY <2>1, <2>3, Zenon DEF Turns
  <2>7. next \in Turns
    <3>1. X \in Seq(Values)
      BY <2>2, Zenon
    <3>. HIDE DEF W
    <3>. QED
      BY <2>1, <2>3, <2>5, <3>1, Zenon DEF Turns
  <2>. HIDE DEF W
  <2>8. KeysOnce(W) /\ \A i \in 1 .. Len(W) : IsOf(W[i], V)
    BY Zenon DEF TurnInv, TurnValues, W
  <2>9. \A i \in 1 .. Len(X) : i + 1 \in 1 .. Len(W) /\ X[i] = W[i + 1]
    BY <2>2
  <2>10. 1 \in 1 .. Len(W)
    <3>1. Len(W) \in Nat \ {0}
      BY <2>2, Zenon
    <3>. QED
      BY <3>1
  <2>11. \A x : IsOf(x, X) => IsOf(x, W)
    BY <2>9, Zenon DEF IsOf
  <2>12. \A x : IsOf(x, W) => x = W[1] \/ IsOf(x, X)
    <3>1. ASSUME NEW p \in 1 .. Len(W), p # 1 PROVE IsOf(W[p], X)
      <4>1. p - 1 \in 1 .. Len(W) - 1 /\ (p - 1) + 1 = p
        <5>1. Len(W) \in Nat \ {0}
          BY <2>2, Zenon
        <5>. QED
          BY <3>1, <5>1
      <4>2. p - 1 \in 1 .. Len(X) /\ X[p - 1] = W[p]
        BY <2>2, <4>1, Zenon
      <4>. QED
        BY <4>2, Zenon DEF IsOf
    <3>. QED
      BY <3>1, Zenon DEF IsOf
  <2>13. ~IsOf(W[1], X)
    <3>1. ASSUME NEW i \in 1 .. Len(X), W[1] = X[i] PROVE FALSE
      <4>1. i + 1 \in 1 .. Len(W) /\ W[i + 1] = W[1]
        BY <2>9, <3>1, Zenon
      <4>2. i + 1 = 1
        BY <2>8, <2>10, <4>1, Zenon DEF KeysOnce
      <4>. QED
        BY <4>2
    <3>. QED
      BY <3>1, Zenon DEF IsOf
  <2>14. KeysOnce(X)
    <3>1. SUFFICES ASSUME NEW i \in 1 .. Len(X), NEW j \in 1 .. Len(X),
                          X[i].server = X[j].server, X[i].key = X[j].key
                   PROVE  i = j
      BY Zenon DEF KeysOnce
    <3>2. i + 1 = j + 1
      <4>1. /\ i + 1 \in 1 .. Len(W) /\ j + 1 \in 1 .. Len(W)
            /\ W[i + 1].server = W[j + 1].server /\ W[i + 1].key = W[j + 1].key
        BY <2>9, <3>1, Zenon
      <4>. QED
        BY <2>8, <4>1, Zenon DEF KeysOnce
    <3>. QED
      BY <3>2
  <2>15. /\ \A j \in 1 .. Len(V) : IsOf(V[j], W) \/ \E g \in st.granted : g.value = V[j]
         /\ \A g \in st.granted : IsOf(g.value, V) /\ ~IsOf(g.value, W)
    BY Zenon DEF TurnInv, TurnValues, W
  <2>16. TurnValues(V, next)
    <3>1. \A i \in 1 .. Len(X) : IsOf(X[i], V)
      BY <2>8, <2>9, Zenon
    <3>2. ASSUME NEW j \in 1 .. Len(V)
          PROVE  IsOf(V[j], X) \/ \E g \in next.granted : g.value = V[j]
      <4>1. CASE IsOf(V[j], W)
        <5>1. V[j] = W[1] \/ IsOf(V[j], X)
          BY <2>12, <4>1, Zenon
        <5>2. g0 \in next.granted
          BY <2>6, Zenon
        <5>. QED
          BY <2>5, <5>1, <5>2, Zenon
      <4>2. CASE \E g \in st.granted : g.value = V[j]
        BY <2>6, <4>2, Zenon
      <4>. QED
        BY <2>15, <4>1, <4>2, Zenon
    <3>3. ASSUME NEW g \in next.granted PROVE IsOf(g.value, V) /\ ~IsOf(g.value, X)
      <4>1. CASE g \in st.granted
        BY <2>11, <2>15, <4>1, Zenon
      <4>2. CASE g = g0
        BY <2>5, <2>8, <2>10, <2>13, <4>2, Zenon
      <4>. QED
        BY <2>6, <4>1, <4>2, Zenon
    <3>. QED
      BY <2>6, <2>14, <3>1, <3>2, <3>3, Zenon DEF TurnValues
  <2>17. /\ \A g, h \in st.granted :
              /\ g.value = h.value => g = h
              /\ g.client = h.client /\ g.client # None => g = h
         /\ \A g \in st.granted : \E i \in 1 .. n : i \in A /\ g.client = R[i].client
    <3>1. n - Len(st.requests) = n
      BY <2>1
    <3>. QED
      BY <3>1, Zenon DEF TurnInv, TurnGrants
  <2>18. ASSUME NEW g \in st.granted PROVE g.value # g0.value
    <3>1. IsOf(W[1], W)
      BY <2>10, Zenon DEF IsOf
    <3>. QED
      BY <2>5, <2>15, <3>1, Zenon
  <2>19. ASSUME NEW g \in st.granted, g.client = g0.client, g.client # None PROVE FALSE
    <3>1. PICK i \in 1 .. n : g.client = R[i].client
      BY <2>17, Zenon
    <3>2. i \in 1 .. Len(R)
      <4>1. Len(R) \in Nat
        OBVIOUS
      <4>. QED
        BY <4>1
    <3>3. i = n + 1
      BY <2>5, <2>19, <3>1, <3>2, Zenon DEF RequestsOnce
    <3>. QED
      BY <3>3
  <2>20. TurnGrants(R, A, n + 1, next)
    <3>1. (n + 1) - Len(next.requests) = n + 1
      BY <2>6
    <3>2. ASSUME NEW g \in next.granted, NEW h \in next.granted
          PROVE  /\ g.value = h.value => g = h
                 /\ g.client = h.client /\ g.client # None => g = h
      <4>1. (g \in st.granted \/ g = g0) /\ (h \in st.granted \/ h = g0)
        BY <2>6, Zenon
      <4>. QED
        BY <2>17, <2>18, <2>19, <4>1, Zenon
    <3>3. ASSUME NEW g \in next.granted
          PROVE  \E i \in 1 .. n + 1 : i \in A /\ g.client = R[i].client
      <4>1. CASE g \in st.granted
        <5>1. \A i \in 1 .. n : i \in 1 .. n + 1
          OBVIOUS
        <5>. QED
          BY <2>17, <4>1, <5>1, Zenon
      <4>2. CASE g = g0
        <5>1. n + 1 \in 1 .. n + 1
          OBVIOUS
        <5>. QED
          BY <2>5, <4>2, <5>1, Zenon
      <4>. QED
        BY <2>6, <4>1, <4>2, Zenon
    <3>. QED
      BY <3>1, <3>2, <3>3, Zenon DEF TurnGrants
  <2>21. TurnRequests(V, R, n + 1, next)
    <3>1. V # <<>>
      <4>1. IsOf(W[1], V)
        BY <2>8, <2>10, Zenon
      <4>. QED
        BY <4>1 DEF IsOf
    <3>. QED
      BY <2>6, <3>1 DEF TurnRequests
  <2>. QED
    BY <2>7, <2>16, <2>20, <2>21, Zenon DEF TurnInv, next
<1>. QED
  BY <1>Queued, <1>Rotated, <1>Taken, Zenon

(* The turns of the loop of _schedule. *)
LEMMA ScheduleTurns ==
  ASSUME Library, NEW V, NEW R, Len(R) \in Nat, NEW A
  PROVE  \E after :
           /\ after[0] = [values |-> V, requests |-> <<>>, granted |-> {}]
           /\ after[Len(R)] = _schedule(V, R, A)
           /\ \A i \in 1 .. Len(R) : after[i] = Serve(after[i - 1], R[i], i \in A)
<1>. DEFINE start == [values |-> V, requests |-> <<>>, granted |-> {}]
     Loop(f, n) ==
       f = [i \in 0 .. n |-> IF i = 0 THEN start ELSE Serve(f[i - 1], R[i], i \in A)]
     S == {n \in Nat : \E f : Loop(f, n)}
<1>. HIDE DEF start
<1>1. 0 \in S
  <2>. DEFINE f == [i \in 0 .. 0 |-> start]
  <2>1. Loop(f, 0)
    OBVIOUS
  <2>. QED
    BY <2>1, Zenon
<1>2. ASSUME NEW n \in S PROVE n + 1 \in S
  <2>1. PICK f : Loop(f, n)
    BY Zenon
  <2>. DEFINE g == [i \in 0 .. n + 1 |->
                      IF i = n + 1 THEN Serve(f[n], R[n + 1], n + 1 \in A) ELSE f[i]]
              r == [i \in 0 .. n + 1 |->
                      IF i = 0 THEN start ELSE Serve(g[i - 1], R[i], i \in A)]
  <2>2. ASSUME NEW i \in 0 .. n + 1
        PROVE  g[i] = IF i = 0 THEN start ELSE Serve(g[i - 1], R[i], i \in A)
    <3>1. CASE i = n + 1
      BY <3>1
    <3>2. CASE i # n + 1
      <4>1. i \in 0 .. n /\ g[i] = f[i] /\ (i # 0 => g[i - 1] = f[i - 1])
        BY <3>2
      <4>. QED
        BY <4>1, <2>1, Zenon
    <3>. QED
      BY <3>1, <3>2, Zenon
  <2>3. g = [i \in 0 .. n + 1 |-> g[i]]
    BY Zenon
  <2>. HIDE DEF g
  <2>4. r = [i \in 0 .. n + 1 |-> r[i]] /\ \A i \in 0 .. n + 1 : g[i] = r[i]
    BY <2>2, Zenon
  <2>. HIDE DEF r
  <2>5. g = r
    BY <2>3, <2>4, Zenon
  <2>6. Loop(g, n + 1)
    BY <2>5, Zenon DEF r
  <2>7. n + 1 \in Nat
    OBVIOUS
  <2>. HIDE DEF Loop
  <2>. QED
    BY <2>6, <2>7, Zenon
<1>3. Len(R) \in S
  <2>1. S \in SUBSET Nat
    BY Zenon
  <2>. HIDE DEF S
  <2>. QED
    BY <1>1, <1>2, <2>1, NatInduct, Zenon
<1>. DEFINE h == CHOOSE f : Loop(f, Len(R))
<1>4. Loop(h, Len(R))
  BY <1>3, Zenon
<1>5. _schedule(V, R, A) = h[Len(R)]
  BY Zenon DEF _schedule, start
<1>. HIDE DEF h
<1>6. h[0] = start
  BY <1>4
<1>7. ASSUME NEW i \in 1 .. Len(R) PROVE h[i] = Serve(h[i - 1], R[i], i \in A)
  BY <1>4
<1>. QED
  BY <1>5, <1>6, <1>7, Zenon DEF start

(* The whole loop of _schedule. *)
LEMMA ScheduleLoop ==
  ASSUME Library, NEW V \in Seq(Values), NEW R \in Seq(Requests), NEW A, KeysOnce(V), RequestsOnce(R)
  PROVE  TurnInv(V, R, A, Len(R), _schedule(V, R, A))
<1>FirstTurn. ASSUME NEW V0 \in Seq(Values), NEW R0, NEW A0, KeysOnce(V0)
              PROVE  TurnInv(V0, R0, A0, 0, [values |-> V0, requests |-> <<>>, granted |-> {}])
  <2>. USE <1>FirstTurn
  <2>. DEFINE st == [values |-> V0, requests |-> <<>>, granted |-> {}]
  <2>1. st.values = V0 /\ st.requests = <<>> /\ st.granted = {} /\ Len(st.requests) = 0
    BY Zenon
  <2>2. st \in Turns
    BY DEF Turns
  <2>. HIDE DEF st
  <2>3. TurnValues(V0, st)
    BY <2>1, Zenon DEF TurnValues, IsOf
  <2>4. TurnGrants(R0, A0, 0, st)
    BY <2>1, Zenon DEF TurnGrants
  <2>5. TurnRequests(V0, R0, 0, st)
    BY <2>1 DEF TurnRequests
  <2>. QED
    BY <2>2, <2>3, <2>4, <2>5, Zenon DEF TurnInv, st
<1>1. Len(R) \in Nat
  OBVIOUS
<1>2. PICK after :
        /\ after[0] = [values |-> V, requests |-> <<>>, granted |-> {}]
        /\ after[Len(R)] = _schedule(V, R, A)
        /\ \A i \in 1 .. Len(R) : after[i] = Serve(after[i - 1], R[i], i \in A)
  BY <1>1, ScheduleTurns
<1>. DEFINE S == {n \in Nat : n <= Len(R) => TurnInv(V, R, A, n, after[n])}
<1>3. 0 \in S
  <2>1. TurnInv(V, R, A, 0, after[0])
    BY <1>2, <1>FirstTurn, Zenon
  <2>. QED
    BY <2>1, Zenon
<1>4. ASSUME NEW n \in S PROVE n + 1 \in S
  <2>1. SUFFICES ASSUME n + 1 <= Len(R) PROVE TurnInv(V, R, A, n + 1, after[n + 1])
    BY SMT, SMTT(20)
  <2>2. n \in Nat /\ n + 1 \in 1 .. Len(R) /\ TurnInv(V, R, A, n, after[n])
    BY <1>1, <2>1, SMT, SMTT(20)
  <2>3. after[n + 1] = Serve(after[n], R[n + 1], n + 1 \in A)
    <3>1. (n + 1) - 1 = n
      BY <2>2, SMT, SMTT(20)
    <3>. QED
      BY <1>2, <2>2, <3>1, Zenon
  <2>. DEFINE st == after[n]
  <2>. HIDE DEF st
  <2>4. TurnInv(V, R, A, n, st)
    BY <2>2, Zenon DEF st
  <2>5. TurnInv(V, R, A, n + 1, Serve(st, R[n + 1], n + 1 \in A))
    BY <2>2, <2>4, Turn, Zenon
  <2>. QED
    BY <2>3, <2>5, Zenon DEF st
<1>5. S = Nat
  <2>1. S \in SUBSET Nat
    BY Zenon
  <2>. HIDE DEF S
  <2>. QED
    BY <1>3, <1>4, <2>1, NatInduct, Zenon
<1>6. TurnInv(V, R, A, Len(R), after[Len(R)])
  BY <1>1, <1>5, SMT, SMTT(20)
<1>. QED
  BY <1>2, <1>6, Zenon
-----------------------------------------------------------------------------
(* What a handler leaves when _schedule, its last call, has gone over the  *)
(* values V and the requests R: lists without duplicates, one of them      *)
(* empty, and replies that hold what is no longer in the free list, each   *)
(* value at most once, for clients whose request is gone from the queue.   *)
Lists(V, R, vals, reqs) ==
  /\ vals \in Seq(Values) /\ reqs \in Seq(Requests) /\ Len(reqs) <= Len(R)
  /\ vals = <<>> \/ reqs = <<>>
  /\ KeysOnce(vals) /\ RequestsOnce(reqs)
  /\ \A i \in 1 .. Len(vals) : IsOf(vals[i], V)
  /\ \A i \in 1 .. Len(reqs) : IsOf(reqs[i], R)

Replies(V, R, vals, reqs, old, new) ==
  /\ new \in [Clients -> Values \cup {None}]
  /\ \A c \in Clients : new[c] # old[c] =>
       IsOf(new[c], V) /\ ~IsOf(new[c], vals) /\ Asks(c, R) /\ ~Asks(c, reqs)
  /\ \A c, d \in Clients : new[c] # old[c] /\ new[d] # old[d] /\ new[c] = new[d] => c = d
  /\ \A j \in 1 .. Len(V) :
       IsOf(V[j], vals) \/ (\E c \in Clients : new[c] = V[j]) \/ Asks(None, R)

(* _schedule as the last call of a handler. *)
LEMMA ScheduleStepEffect ==
  ASSUME Library, NEW V \in Seq(Values), NEW R \in Seq(Requests), NEW K, KeysOnce(V), RequestsOnce(R),
         IsPending(V, K), inbox \in [Clients -> Values \cup {None}],
         RpcAssumption, ScheduleStep(V, R, K)
  PROVE  /\ Lists(V, R, values', requests') /\ IsPending(values', pending')
         /\ Replies(V, R, values', requests', inbox, inbox')
<1>RequestsLeft. ASSUME NEW V0, NEW R0 \in Seq(Requests), NEW A, RequestsOnce(R0),
                        NEW st, TurnInv(V0, R0, A, Len(R0), st)
                 PROVE  /\ Len(st.requests) <= Len(R0) /\ RequestsOnce(st.requests)
                        /\ \A i \in 1 .. Len(st.requests) : IsOf(st.requests[i], R0)
                        /\ \A g \in st.granted : Asks(g.client, R0) /\ (g.client # None => ~Asks(g.client, st.requests))
  <2>. USE <1>RequestsLeft
  <2>. DEFINE n == Len(R0)  m == Len(st.requests)
  <2>1. n \in Nat /\ m \in Nat /\ m <= n
    BY SMT, SMTT(20) DEF TurnInv, Turns, TurnRequests
  <2>2. \A i \in 1 .. m : st.requests[i] = R0[(n - m) + i]
    BY Zenon DEF TurnInv, TurnRequests
  <2>3. \A g \in st.granted : \E i \in 1 .. n - m : g.client = R0[i].client
    BY Zenon DEF TurnInv, TurnGrants
  <2>. HIDE DEF n, m
  <2>4. \A i \in 1 .. m : (n - m) + i \in 1 .. n
    BY <2>1, SMT, SMTT(20)
  <2>5. \A i \in 1 .. m : IsOf(st.requests[i], R0)
    BY <2>2, <2>4, Zenon DEF IsOf, n
  <2>6. RequestsOnce(st.requests)
    <3>1. \A i \in 1 .. m : st.requests[i].client # None <=> st.requests[i].conn = "open"
      <4>1. ASSUME NEW i \in 1 .. m
            PROVE  st.requests[i].client # None <=> st.requests[i].conn = "open"
        <5>1. st.requests[i] = R0[(n - m) + i] /\ (n - m) + i \in 1 .. n
          BY <2>2, <2>4, Zenon
        <5>. QED
          BY <5>1, Zenon DEF RequestsOnce, n
      <4>. QED
        BY <4>1, Zenon
    <3>2. ASSUME NEW i \in 1 .. m, NEW j \in 1 .. m, st.requests[i].client # None,
                 st.requests[i].client = st.requests[j].client
          PROVE  i = j
      <4>1. (n - m) + i = (n - m) + j
        <5>1. /\ (n - m) + i \in 1 .. n /\ (n - m) + j \in 1 .. n
              /\ R0[(n - m) + i].client # None /\ R0[(n - m) + i].client = R0[(n - m) + j].client
          BY <2>2, <2>4, <3>2, Zenon
        <5>. QED
          BY <5>1, Zenon DEF RequestsOnce, n
      <4>. QED
        BY <2>1, <4>1, SMT, SMTT(20)
    <3>. QED
      BY <3>1, <3>2, Zenon DEF RequestsOnce, m
  <2>7. ASSUME NEW g \in st.granted
        PROVE  Asks(g.client, R0) /\ (g.client # None => ~Asks(g.client, st.requests))
    <3>1. PICK i \in 1 .. n - m : g.client = R0[i].client
      BY <2>3, Zenon
    <3>2. i \in 1 .. n
      BY <2>1, SMT, SMTT(20)
    <3>3. ASSUME NEW j \in 1 .. m, st.requests[j].client = g.client, g.client # None PROVE FALSE
      <4>1. (n - m) + j = i
        BY <2>2, <2>4, <3>1, <3>2, <3>3, Zenon DEF RequestsOnce, n
      <4>. QED
        BY <2>1, <4>1, SMT, SMTT(20)
    <3>. QED
      BY <3>1, <3>2, <3>3, Zenon DEF Asks, n, m
  <2>. QED
    BY <2>1, <2>5, <2>6, <2>7, Zenon DEF n, m
<1>PendingLeft. ASSUME NEW V0 \in Seq(Values), NEW R0, NEW A, KeysOnce(V0),
                       NEW st, TurnInv(V0, R0, A, Len(R0), st), NEW s \in Servers
                PROVE  OpenKeys(V0, s) \ Given(st.granted, s) = OpenKeys(st.values, s)
  <2>. USE <1>PendingLeft
  <2>. DEFINE given == Given(st.granted, s)
              W == st.values
  <2>1. /\ \A i \in 1 .. Len(W) : IsOf(W[i], V0)
        /\ \A j \in 1 .. Len(V0) : IsOf(V0[j], W) \/ \E g \in st.granted : g.value = V0[j]
        /\ \A g \in st.granted : IsOf(g.value, V0) /\ ~IsOf(g.value, W)
    BY Zenon DEF TurnInv, TurnValues
  <2>. HIDE DEF W
  <2>2. ASSUME NEW k \in OpenKeys(V0, s), k \notin given PROVE k \in OpenKeys(W, s)
    <3>1. PICK j \in 1 .. Len(V0) : V0[j].key = k /\ V0[j].server = s /\ V0[j].conn = "open"
      BY Zenon DEF OpenKeys
    <3>2. ~ \E g \in st.granted : g.value = V0[j]
      BY <2>2, <3>1, Zenon DEF Given
    <3>3. PICK i \in 1 .. Len(W) : V0[j] = W[i]
      BY <2>1, <3>2, Zenon DEF IsOf
    <3>4. W[i].key = k /\ W[i].server = s /\ W[i].conn = "open"
      BY <3>1, <3>3, Zenon
    <3>. QED
      BY <3>4, Zenon DEF OpenKeys
  <2>3. ASSUME NEW k \in OpenKeys(W, s) PROVE k \in OpenKeys(V0, s) /\ k \notin given
    <3>1. PICK i \in 1 .. Len(W) : W[i].key = k /\ W[i].server = s /\ W[i].conn = "open"
      BY Zenon DEF OpenKeys
    <3>2. PICK j \in 1 .. Len(V0) : W[i] = V0[j]
      BY <2>1, Zenon DEF IsOf
    <3>3. V0[j].key = k /\ V0[j].server = s /\ V0[j].conn = "open"
      BY <3>1, <3>2, Zenon
    <3>4. k \in OpenKeys(V0, s)
      BY <3>3, Zenon DEF OpenKeys
    <3>5. ASSUME NEW g \in st.granted, g.value.key = k, g.value.server = s PROVE FALSE
      <4>1. PICK p \in 1 .. Len(V0) : g.value = V0[p]
        BY <2>1, Zenon DEF IsOf
      <4>2. p = j
        BY <3>3, <3>5, <4>1, Zenon DEF KeysOnce
      <4>3. IsOf(g.value, W)
        BY <3>2, <4>1, <4>2, Zenon DEF IsOf
      <4>. QED
        BY <2>1, <4>3, Zenon
    <3>. QED
      BY <3>4, <3>5, Zenon DEF Given
  <2>. HIDE DEF given
  <2>4. OpenKeys(V0, s) \ given = OpenKeys(W, s)
    BY <2>2, <2>3, Zenon
  <2>. QED
    BY <2>4, Zenon DEF given, W
<1>1. PICK A : Scheduled(_schedule(V, R, A), K)
  BY Zenon DEF ScheduleStep
<1>. DEFINE st == _schedule(V, R, A)
<1>2. TurnInv(V, R, A, Len(R), st)
  BY ScheduleLoop, Zenon
<1>3. /\ values' = st.values /\ requests' = st.requests
      /\ pending' = [s \in Servers |-> K[s] \ Given(st.granted, s)]
      /\ inbox' = [c \in Clients |-> IF Reply(st.granted, c) = {} THEN inbox[c]
                                     ELSE CHOOSE v \in Reply(st.granted, c) : TRUE]
  BY <1>1, Zenon DEF Scheduled
<1>. HIDE DEF st
<1>4. /\ Len(st.requests) <= Len(R) /\ RequestsOnce(st.requests)
      /\ \A i \in 1 .. Len(st.requests) : IsOf(st.requests[i], R)
      /\ \A g \in st.granted : Asks(g.client, R) /\ (g.client # None => ~Asks(g.client, st.requests))
  BY <1>2, <1>RequestsLeft, Zenon
<1>5. /\ st.values \in Seq(Values) /\ st.requests \in Seq(Requests)
      /\ st.granted \subseteq [client : Clients \cup {None}, value : Values]
  BY <1>2, Zenon DEF TurnInv, Turns
<1>6. Lists(V, R, values', requests')
  <2>1. /\ st.values = <<>> \/ st.requests = <<>>
        /\ KeysOnce(st.values) /\ \A i \in 1 .. Len(st.values) : IsOf(st.values[i], V)
    BY <1>2, Zenon DEF TurnInv, TurnRequests, TurnValues
  <2>2. Lists(V, R, st.values, st.requests)
    BY <1>4, <1>5, <2>1, Zenon DEF Lists
  <2>. QED
    BY <1>3, <2>2, Zenon
<1>7. IsPending(values', pending')
  <2>1. ASSUME NEW s \in Servers PROVE K[s] \ Given(st.granted, s) = OpenKeys(st.values, s)
    <3>1. K[s] = OpenKeys(V, s)
      BY Zenon DEF IsPending
    <3>2. OpenKeys(V, s) \ Given(st.granted, s) = OpenKeys(st.values, s)
      BY <1>2, <1>PendingLeft, SMT, SMTT(20)
    <3>. QED
      BY <3>1, <3>2, Zenon
  <2>2. ASSUME NEW s \in Servers PROVE K[s] \ Given(st.granted, s) \in SUBSET Keys
    <3>1. K[s] \in SUBSET Keys
      BY Zenon DEF IsPending
    <3>. QED
      BY <3>1, Zenon
  <2>. QED
    BY <1>3, <2>1, <2>2, Zenon DEF IsPending
<1>8. /\ \A g \in st.granted : IsOf(g.value, V) /\ ~IsOf(g.value, st.values)
      /\ \A g, h \in st.granted : /\ g.value = h.value => g = h
                                  /\ g.client = h.client /\ g.client # None => g = h
      /\ \A j \in 1 .. Len(V) : IsOf(V[j], st.values) \/ \E g \in st.granted : g.value = V[j]
  BY <1>2, Zenon DEF TurnInv, TurnValues, TurnGrants
<1>9. ASSUME NEW c \in Clients
      PROVE  \/ inbox'[c] = inbox[c]
             \/ \E g \in st.granted : g.client = c /\ inbox'[c] = g.value
  <2>1. CASE Reply(st.granted, c) = {}
    BY <1>3, <2>1, Zenon
  <2>2. CASE Reply(st.granted, c) # {}
    <3>1. inbox'[c] \in Reply(st.granted, c)
      BY <1>3, <2>2, Zenon
    <3>. QED
      BY <3>1, Zenon DEF Reply
  <2>. QED
    BY <2>1, <2>2, Zenon
<1>10. ASSUME NEW g \in st.granted, g.client \in Clients PROVE inbox'[g.client] = g.value
  <2>1. g.client # None
    BY <1>10, Zenon DEF RpcAssumption
  <2>2. Reply(st.granted, g.client) = {g.value}
    BY <1>8, <1>10, <2>1, SMT, SMTT(20) DEF Reply
  <2>3. (CHOOSE v \in {g.value} : TRUE) = g.value
    BY Zenon
  <2>. QED
    BY <1>3, <1>10, <2>2, <2>3, Zenon
<1>11. Replies(V, R, values', requests', inbox, inbox')
  <2>1. inbox' \in [Clients -> Values \cup {None}]
    <3>1. ASSUME NEW c \in Clients PROVE inbox'[c] \in Values \cup {None}
      BY <1>5, <1>9, Zenon
    <3>2. inbox' = [c \in Clients |-> inbox'[c]]
      BY <1>3, SMT, SMTT(20)
    <3>. QED
      BY <3>1, <3>2, Zenon
  <2>2. ASSUME NEW c \in Clients, inbox'[c] # inbox[c]
        PROVE  /\ IsOf(inbox'[c], V) /\ ~IsOf(inbox'[c], st.values)
               /\ Asks(c, R) /\ ~Asks(c, st.requests)
    <3>1. PICK g \in st.granted : g.client = c /\ inbox'[c] = g.value
      BY <1>9, <2>2, Zenon
    <3>2. c # None
      BY Zenon DEF RpcAssumption
    <3>. QED
      BY <1>4, <1>8, <3>1, <3>2, Zenon
  <2>3. ASSUME NEW c \in Clients, NEW d \in Clients, inbox'[c] # inbox[c], inbox'[d] # inbox[d],
               inbox'[c] = inbox'[d]
        PROVE  c = d
    <3>1. PICK g \in st.granted : g.client = c /\ inbox'[c] = g.value
      BY <1>9, <2>3, Zenon
    <3>2. PICK h \in st.granted : h.client = d /\ inbox'[d] = h.value
      BY <1>9, <2>3, Zenon
    <3>. QED
      <4>1. g.value = h.value
        BY <2>3, <3>1, <3>2, Zenon
      <4>2. g = h
        BY <1>8, <4>1, Zenon
      <4>. QED
        BY <3>1, <3>2, <4>2, Zenon
  <2>4. ASSUME NEW j \in 1 .. Len(V)
        PROVE  \/ IsOf(V[j], st.values) \/ (\E c \in Clients : inbox'[c] = V[j])
               \/ Asks(None, R)
    <3>1. ASSUME NEW g \in st.granted, g.value = V[j]
          PROVE  (\E c \in Clients : inbox'[c] = V[j]) \/ Asks(None, R)
      <4>1. g.client \in Clients \/ g.client = None
        BY <1>5, Zenon
      <4>. QED
        BY <1>4, <1>10, <3>1, <4>1, Zenon
    <3>. QED
      BY <1>8, <3>1, Zenon
  <2>5. Replies(V, R, st.values, st.requests, inbox, inbox')
    BY <2>1, <2>2, <2>3, <2>4, Zenon DEF Replies
  <2>. QED
    BY <1>3, <2>5, Zenon
<1>. QED
  BY <1>6, <1>7, <1>11, Zenon
-----------------------------------------------------------------------------
(* One sequence after another. *)
LEMMA Joined ==
  ASSUME NEW S, NEW p \in Seq(S), NEW q \in Seq(S)
  PROVE  /\ p \o q \in Seq(S) /\ Len(p \o q) = Len(p) + Len(q)
         /\ \A i \in 1 .. Len(p) + Len(q) :
              (p \o q)[i] = IF i <= Len(p) THEN p[i] ELSE q[i - Len(p)]
  BY SMT, SMTT(20)

(* A part of a list. *)
LEMMA PartOf ==
  ASSUME NEW S, NEW q \in Seq(S), NEW m \in Nat, NEW n \in Nat, 1 <= m, m <= n + 1, n <= Len(q)
  PROVE  /\ SubSeq(q, m, n) \in Seq(S) /\ Len(SubSeq(q, m, n)) = (n + 1) - m
         /\ \A i \in 1 .. (n + 1) - m : SubSeq(q, m, n)[i] = q[(m - 1) + i]
<1>1. Len(q) \in Nat
  BY SMT, SMTT(20)
<1>2. ASSUME NEW i \in m .. n PROVE q[i] \in S
  <2>1. i \in 1 .. Len(q)
    BY <1>1, SMT, SMTT(20)
  <2>. QED
    BY <2>1, SMT, SMTT(20)
<1>3. /\ SubSeq(q, m, n) \in Seq(S)
      /\ Len(SubSeq(q, m, n)) = IF m <= n THEN n - m + 1 ELSE 0
      /\ \A i \in 1 .. n - m + 1 : SubSeq(q, m, n)[i] = q[m + i - 1]
  <2>1. m \in Int /\ n \in Int
    BY SMT, SMTT(20)
  <2>. QED
    BY <1>2, <2>1, SMT, SMTT(20)
<1>4. (IF m <= n THEN n - m + 1 ELSE 0) = (n + 1) - m /\ n - m + 1 = (n + 1) - m
  BY SMT, SMTT(20)
<1>5. \A i \in 1 .. (n + 1) - m : m + i - 1 = (m - 1) + i
  BY SMT, SMTT(20)
<1>. QED
  BY <1>3, <1>4, <1>5, Zenon

(* Where an element was before the i-th was taken out. *)
Spread(j, i) == IF j < i THEN j ELSE j + 1

Without(q, i) == SubSeq(q, 1, i - 1) \o SubSeq(q, i + 1, Len(q))

(* close: the free list without a value. *)
LEMMA TakenOut ==
  ASSUME NEW V \in Seq(Values), KeysOnce(V), NEW i \in 1 .. Len(V)
  PROVE  /\ Without(V, i) \in Seq(Values) /\ KeysOnce(Without(V, i))
         /\ \A x : IsOf(x, Without(V, i)) <=> IsOf(x, V) /\ x # V[i]
<1>Omitted. ASSUME NEW S, NEW q \in Seq(S), NEW i0 \in 1 .. Len(q)
            PROVE  /\ Without(q, i0) \in Seq(S) /\ Len(Without(q, i0)) = Len(q) - 1
                   /\ \A j \in 1 .. Len(q) - 1 : /\ Spread(j, i0) \in 1 .. Len(q) /\ Spread(j, i0) # i0
                                                 /\ Without(q, i0)[j] = q[Spread(j, i0)]
  <2>. DEFINE a == SubSeq(q, 1, i0 - 1)
              b == SubSeq(q, i0 + 1, Len(q))
              p == a \o b
  <2>1. Len(q) \in Nat /\ i0 \in Nat /\ 1 <= i0 /\ i0 <= Len(q) /\ i0 - 1 \in Nat
    BY SMT, SMTT(20)
  <2>2. /\ a \in Seq(S) /\ Len(a) = i0 - 1 /\ \A j \in 1 .. i0 - 1 : a[j] = q[j]
    <3>1. 1 \in Nat /\ 1 <= 1 /\ 1 <= (i0 - 1) + 1 /\ i0 - 1 <= Len(q) /\ ((i0 - 1) + 1) - 1 = i0 - 1
      BY <2>1, SMT, SMTT(20)
    <3>2. /\ a \in Seq(S) /\ Len(a) = ((i0 - 1) + 1) - 1
          /\ \A j \in 1 .. ((i0 - 1) + 1) - 1 : a[j] = q[(1 - 1) + j]
      BY <2>1, <3>1, PartOf, SMT, SMTT(20)
    <3>3. \A j \in 1 .. i0 - 1 : (1 - 1) + j = j
      BY SMT, SMTT(20)
    <3>. HIDE DEF a
    <3>. QED
      BY <3>1, <3>2, <3>3, Zenon
  <2>3. /\ b \in Seq(S) /\ Len(b) = Len(q) - i0
        /\ \A j \in 1 .. Len(q) - i0 : b[j] = q[i0 + j]
    <3>1. i0 + 1 \in Nat /\ 1 <= i0 + 1 /\ i0 + 1 <= Len(q) + 1 /\ Len(q) <= Len(q)
      BY <2>1, SMT, SMTT(20)
    <3>2. /\ b \in Seq(S) /\ Len(b) = (Len(q) + 1) - (i0 + 1)
          /\ \A j \in 1 .. (Len(q) + 1) - (i0 + 1) : b[j] = q[((i0 + 1) - 1) + j]
      BY <2>1, <3>1, PartOf, SMT, SMTT(20)
    <3>3. (Len(q) + 1) - (i0 + 1) = Len(q) - i0 /\ (i0 + 1) - 1 = i0
      BY <2>1, SMT, SMTT(20)
    <3>. HIDE DEF b
    <3>. QED
      BY <3>2, <3>3, Zenon
  <2>. HIDE DEF a, b
  <2>4. /\ p \in Seq(S) /\ Len(p) = (i0 - 1) + (Len(q) - i0)
        /\ \A j \in 1 .. (i0 - 1) + (Len(q) - i0) :
             p[j] = IF j <= i0 - 1 THEN a[j] ELSE b[j - (i0 - 1)]
    <3>1. a \in Seq(S) /\ b \in Seq(S) /\ Len(a) = i0 - 1 /\ Len(b) = Len(q) - i0
      BY <2>2, <2>3, Zenon
    <3>2. /\ a \o b \in Seq(S) /\ Len(a \o b) = Len(a) + Len(b)
          /\ \A j \in 1 .. Len(a) + Len(b) : (a \o b)[j] = IF j <= Len(a) THEN a[j] ELSE b[j - Len(a)]
      BY <3>1, Joined, Zenon
    <3>. QED
      BY <3>1, <3>2, Zenon
  <2>5. (i0 - 1) + (Len(q) - i0) = Len(q) - 1
    BY <2>1, SMT, SMTT(20)
  <2>. HIDE DEF p
  <2>6. ASSUME NEW j \in 1 .. Len(q) - 1
        PROVE  Spread(j, i0) \in 1 .. Len(q) /\ Spread(j, i0) # i0 /\ p[j] = q[Spread(j, i0)]
    <3>1. CASE j < i0
      <4>1. j <= i0 - 1 /\ j \in 1 .. i0 - 1 /\ j \in 1 .. Len(q) /\ j # i0
        BY <2>1, <3>1, SMT, SMTT(20)
      <4>2. p[j] = a[j] /\ a[j] = q[j]
        BY <2>2, <2>4, <2>5, <4>1, Zenon
      <4>. QED
        BY <3>1, <4>1, <4>2, Zenon DEF Spread
    <3>2. CASE ~(j < i0)
      <4>1. /\ ~(j <= i0 - 1) /\ j - (i0 - 1) \in 1 .. Len(q) - i0 /\ i0 + (j - (i0 - 1)) = j + 1
            /\ j + 1 \in 1 .. Len(q) /\ j + 1 # i0
        BY <2>1, <3>2, SMT, SMTT(20)
      <4>2. p[j] = b[j - (i0 - 1)] /\ b[j - (i0 - 1)] = q[i0 + (j - (i0 - 1))]
        BY <2>3, <2>4, <2>5, <4>1, Zenon
      <4>. QED
        BY <3>2, <4>1, <4>2, Zenon DEF Spread
    <3>. QED
      BY <3>1, <3>2, Zenon
  <2>. QED
    <3>1. p = Without(q, i0)
      BY Zenon DEF p, a, b, Without
    <3>2. p \in Seq(S) /\ Len(p) = Len(q) - 1
      BY <2>4, <2>5, Zenon
    <3>. QED
      BY <2>6, <3>1, <3>2, Zenon
<1>Spreading. ASSUME NEW n \in Nat, NEW i0 \in 1 .. n
              PROVE  /\ \A j, k \in 1 .. n - 1 : Spread(j, i0) = Spread(k, i0) => j = k
                     /\ \A p \in 1 .. n : p # i0 => \E j \in 1 .. n - 1 : Spread(j, i0) = p
  <2>1. ASSUME NEW j \in 1 .. n - 1, NEW k \in 1 .. n - 1, Spread(j, i0) = Spread(k, i0)
        PROVE  j = k
    BY <2>1, SMT, SMTT(20) DEF Spread
  <2>2. ASSUME NEW p \in 1 .. n, p # i0 PROVE \E j \in 1 .. n - 1 : Spread(j, i0) = p
    <3>1. CASE p < i0
      <4>1. p \in 1 .. n - 1 /\ Spread(p, i0) = p
        BY <3>1, SMT, SMTT(20) DEF Spread
      <4>. QED
        BY <4>1, Zenon
    <3>2. CASE ~(p < i0)
      <4>1. p - 1 \in 1 .. n - 1 /\ Spread(p - 1, i0) = p
        BY <2>2, <3>2, SMT, SMTT(20) DEF Spread
      <4>. QED
        BY <4>1, Zenon
    <3>. QED
      BY <3>1, <3>2, Zenon
  <2>. QED
    BY <2>1, <2>2, Zenon
<1>. DEFINE W == Without(V, i)
<1>1. Len(V) \in Nat
  BY SMT, SMTT(20)
<1>2. /\ W \in Seq(Values) /\ Len(W) = Len(V) - 1
      /\ \A j \in 1 .. Len(V) - 1 : /\ Spread(j, i) \in 1 .. Len(V) /\ Spread(j, i) # i
                                    /\ W[j] = V[Spread(j, i)]
  BY <1>Omitted, Zenon
<1>. HIDE DEF W
<1>3. /\ \A j, k \in 1 .. Len(V) - 1 : Spread(j, i) = Spread(k, i) => j = k
      /\ \A p \in 1 .. Len(V) : p # i => \E j \in 1 .. Len(V) - 1 : Spread(j, i) = p
  BY <1>1, <1>Spreading, Zenon
<1>4. KeysOnce(W)
  <2>1. SUFFICES ASSUME NEW j \in 1 .. Len(V) - 1, NEW k \in 1 .. Len(V) - 1,
                        W[j].server = W[k].server, W[j].key = W[k].key
                 PROVE  j = k
    <3>1. Len(W) = Len(V) - 1
      BY <1>2, Zenon
    <3>. QED
      BY <3>1, Zenon DEF KeysOnce
  <2>2. /\ Spread(j, i) \in 1 .. Len(V) /\ W[j] = V[Spread(j, i)]
        /\ Spread(k, i) \in 1 .. Len(V) /\ W[k] = V[Spread(k, i)]
    BY <1>2, Zenon
  <2>3. Spread(j, i) = Spread(k, i)
    BY <2>1, <2>2, Zenon DEF KeysOnce
  <2>. QED
    BY <1>3, <2>3, Zenon
<1>5. ASSUME NEW x, IsOf(x, W) PROVE IsOf(x, V) /\ x # V[i]
  <2>1. PICK j \in 1 .. Len(V) - 1 : x = W[j]
    BY <1>2, <1>5, Zenon DEF IsOf
  <2>2. Spread(j, i) \in 1 .. Len(V) /\ Spread(j, i) # i /\ x = V[Spread(j, i)]
    BY <1>2, <2>1, Zenon
  <2>3. V[Spread(j, i)] # V[i]
    BY <2>2, Zenon DEF KeysOnce
  <2>. QED
    BY <2>2, <2>3, Zenon DEF IsOf
<1>6. ASSUME NEW x, IsOf(x, V), x # V[i] PROVE IsOf(x, W)
  <2>1. PICK p \in 1 .. Len(V) : x = V[p]
    BY <1>6, Zenon DEF IsOf
  <2>2. p # i
    BY <1>6, <2>1, Zenon
  <2>3. PICK j \in 1 .. Len(V) - 1 : Spread(j, i) = p
    BY <1>3, <2>2, Zenon
  <2>4. j \in 1 .. Len(W) /\ x = W[j]
    BY <1>2, <2>1, <2>3, Zenon
  <2>. QED
    BY <2>4, Zenon DEF IsOf
<1>. QED
  BY <1>2, <1>4, <1>5, <1>6, Zenon DEF W

(* Where an element was before one was put in after the first n. *)
Shifted(i, n) == IF i <= n THEN i ELSE i - 1

With(q, n, r) == SubSeq(q, 1, n) \o <<r>> \o SubSeq(q, n + 1, Len(q))

(* The queue with the request of a client that has none in it. *)
LEMMA Pushed ==
  ASSUME Library, NEW q \in Seq(Requests), NEW r \in Requests, RequestsOnce(q),
         r.conn = "open", r.client # None, ~Asks(r.client, q)
  PROVE  /\ Push(q, r) \in Seq(Requests) /\ Len(Push(q, r)) = Len(q) + 1
         /\ RequestsOnce(Push(q, r))
         /\ \A c : Asks(c, Push(q, r)) => Asks(c, q) \/ c = r.client
<1>Inserted. ASSUME NEW S, NEW q0 \in Seq(S), NEW r0 \in S, NEW n \in 0 .. Len(q0)
             PROVE  /\ With(q0, n, r0) \in Seq(S) /\ Len(With(q0, n, r0)) = Len(q0) + 1
                    /\ With(q0, n, r0)[n + 1] = r0
                    /\ \A i \in 1 .. Len(q0) + 1 : i # n + 1 =>
                         Shifted(i, n) \in 1 .. Len(q0) /\ With(q0, n, r0)[i] = q0[Shifted(i, n)]
  <2>. DEFINE a == SubSeq(q0, 1, n)
              b == SubSeq(q0, n + 1, Len(q0))
              p == (a \o <<r0>>) \o b
  <2>1. Len(q0) \in Nat /\ n \in Nat /\ n <= Len(q0)
    BY SMT, SMTT(20)
  <2>2. /\ a \in Seq(S) /\ Len(a) = n /\ \A i \in 1 .. n : a[i] = q0[i]
    <3>1. /\ a \in Seq(S) /\ Len(a) = (n + 1) - 1
          /\ \A i \in 1 .. (n + 1) - 1 : a[i] = q0[(1 - 1) + i]
      BY <2>1, PartOf, SMT, SMTT(20)
    <3>2. (n + 1) - 1 = n /\ \A i \in 1 .. n : (1 - 1) + i = i
      BY <2>1, SMT, SMTT(20)
    <3>. HIDE DEF a
    <3>. QED
      BY <3>1, <3>2, Zenon
  <2>3. /\ b \in Seq(S) /\ Len(b) = Len(q0) - n
        /\ \A i \in 1 .. Len(q0) - n : b[i] = q0[n + i]
    <3>1. n + 1 \in Nat /\ 1 <= n + 1 /\ n + 1 <= Len(q0) + 1 /\ Len(q0) <= Len(q0)
      BY <2>1, SMT, SMTT(20)
    <3>2. /\ b \in Seq(S) /\ Len(b) = (Len(q0) + 1) - (n + 1)
          /\ \A i \in 1 .. (Len(q0) + 1) - (n + 1) : b[i] = q0[((n + 1) - 1) + i]
      BY <2>1, <3>1, PartOf, SMT, SMTT(20)
    <3>3. (Len(q0) + 1) - (n + 1) = Len(q0) - n /\ (n + 1) - 1 = n
      BY <2>1, SMT, SMTT(20)
    <3>. HIDE DEF b
    <3>. QED
      BY <3>2, <3>3, Zenon
  <2>4. <<r0>> \in Seq(S) /\ Len(<<r0>>) = 1 /\ <<r0>>[1] = r0
    BY SMT, SMTT(20)
  <2>. DEFINE o == <<r0>>
  <2>5. o \in Seq(S) /\ Len(o) = 1 /\ o[1] = r0
    BY <2>4, Zenon
  <2>. HIDE DEF a, b, o
  <2>6. /\ a \o o \in Seq(S) /\ Len(a \o o) = n + 1
        /\ \A i \in 1 .. n + 1 : (a \o o)[i] = IF i <= n THEN a[i] ELSE o[i - n]
    <3>1. a \in Seq(S) /\ o \in Seq(S) /\ Len(a) = n /\ Len(o) = 1
      BY <2>2, <2>5, Zenon
    <3>2. /\ a \o o \in Seq(S) /\ Len(a \o o) = Len(a) + Len(o)
          /\ \A i \in 1 .. Len(a) + Len(o) :
               (a \o o)[i] = IF i <= Len(a) THEN a[i] ELSE o[i - Len(a)]
      BY <3>1, Joined, Zenon
    <3>. QED
      BY <3>1, <3>2, Zenon
  <2>7. /\ (a \o o) \o b \in Seq(S) /\ Len((a \o o) \o b) = (n + 1) + (Len(q0) - n)
        /\ \A i \in 1 .. (n + 1) + (Len(q0) - n) :
             ((a \o o) \o b)[i] = IF i <= n + 1 THEN (a \o o)[i] ELSE b[i - (n + 1)]
    <3>. DEFINE c == a \o o
    <3>1. c \in Seq(S) /\ b \in Seq(S) /\ Len(c) = n + 1 /\ Len(b) = Len(q0) - n
      BY <2>3, <2>6, Zenon
    <3>. HIDE DEF c
    <3>2. /\ c \o b \in Seq(S) /\ Len(c \o b) = Len(c) + Len(b)
          /\ \A i \in 1 .. Len(c) + Len(b) :
               (c \o b)[i] = IF i <= Len(c) THEN c[i] ELSE b[i - Len(c)]
      BY <3>1, Joined, Zenon
    <3>. QED
      BY <3>1, <3>2, Zenon DEF c
  <2>8. (n + 1) + (Len(q0) - n) = Len(q0) + 1
    BY <2>1, SMT, SMTT(20)
  <2>. DEFINE z == (a \o o) \o b
  <2>9. z[n + 1] = r0
    <3>1. n + 1 \in 1 .. Len(q0) + 1 /\ n + 1 \in 1 .. n + 1 /\ n + 1 <= n + 1 /\ ~(n + 1 <= n)
          /\ (n + 1) - n = 1
      BY <2>1, SMT, SMTT(20)
    <3>. QED
      BY <2>5, <2>6, <2>7, <2>8, <3>1, Zenon
  <2>10. ASSUME NEW i \in 1 .. Len(q0) + 1, i # n + 1
         PROVE  Shifted(i, n) \in 1 .. Len(q0) /\ z[i] = q0[Shifted(i, n)]
    <3>1. CASE i <= n
      <4>1. i \in 1 .. n /\ i \in 1 .. n + 1 /\ i <= n + 1 /\ i \in 1 .. Len(q0)
        BY <2>1, <3>1, SMT, SMTT(20)
      <4>2. z[i] = (a \o o)[i] /\ (a \o o)[i] = a[i] /\ a[i] = q0[i]
        BY <2>2, <2>6, <2>7, <2>8, <3>1, <4>1, Zenon
      <4>. QED
        BY <3>1, <4>1, <4>2, Zenon DEF Shifted
    <3>2. CASE ~(i <= n)
      <4>1. /\ ~(i <= n + 1) /\ i - (n + 1) \in 1 .. Len(q0) - n /\ n + (i - (n + 1)) = i - 1
            /\ i - 1 \in 1 .. Len(q0)
        BY <2>1, <2>10, <3>2, SMT, SMTT(20)
      <4>2. z[i] = b[i - (n + 1)] /\ b[i - (n + 1)] = q0[n + (i - (n + 1))]
        BY <2>3, <2>7, <2>8, <4>1, Zenon
      <4>. QED
        BY <3>2, <4>1, <4>2 DEF Shifted
    <3>. QED
      BY <3>1, <3>2, Zenon
  <2>. HIDE DEF z
  <2>. QED
    <3>1. z = With(q0, n, r0)
      BY Zenon DEF z, a, b, o, With
    <3>2. z \in Seq(S) /\ Len(z) = Len(q0) + 1
      BY <2>7, <2>8, Zenon DEF z
    <3>. QED
      BY <2>9, <2>10, <3>1, <3>2, Zenon
<1>. DEFINE before == {i \in DOMAIN q : q[i].priority >= r.priority}
            n == Cardinality(before)
            p == Push(q, r)
<1>1. n \in 0 .. Len(q)
  <2>1. Len(q) \in Nat /\ DOMAIN q = 1 .. Len(q)
    BY SMT, SMTT(20)
  <2>2. before \in SUBSET (1 .. Len(q))
    BY <2>1, Zenon
  <2>. HIDE DEF before
  <2>. QED
    BY <2>1, <2>2, Counting, Zenon
<1>2. p = With(q, n, r)
  BY Zenon DEF Push, With
<1>. HIDE DEF n, p
<1>3. /\ p \in Seq(Requests) /\ Len(p) = Len(q) + 1 /\ p[n + 1] = r
      /\ \A i \in 1 .. Len(q) + 1 :
           i # n + 1 => Shifted(i, n) \in 1 .. Len(q) /\ p[i] = q[Shifted(i, n)]
  <2>1. /\ With(q, n, r) \in Seq(Requests) /\ Len(With(q, n, r)) = Len(q) + 1
        /\ With(q, n, r)[n + 1] = r
        /\ \A i \in 1 .. Len(q) + 1 : i # n + 1 =>
             Shifted(i, n) \in 1 .. Len(q) /\ With(q, n, r)[i] = q[Shifted(i, n)]
    BY <1>1, <1>Inserted, SMT, SMTT(20)
  <2>. QED
    BY <1>2, <2>1, Zenon
<1>4. Len(q) \in Nat /\ n \in Nat
  BY <1>1, SMT, SMTT(20)
<1>5. ASSUME NEW i \in 1 .. Len(p), i # n + 1
      PROVE  Shifted(i, n) \in 1 .. Len(q) /\ p[i] = q[Shifted(i, n)] /\ p[i].client # r.client
  <2>1. Shifted(i, n) \in 1 .. Len(q) /\ p[i] = q[Shifted(i, n)]
    BY <1>3, <1>5, Zenon
  <2>. QED
    BY <2>1, Zenon DEF Asks
<1>6. \A c : Asks(c, p) => Asks(c, q) \/ c = r.client
  <2>1. ASSUME NEW i \in 1 .. Len(p) PROVE Asks(p[i].client, q) \/ p[i].client = r.client
    <3>1. CASE i = n + 1
      BY <1>3, <3>1, Zenon
    <3>2. CASE i # n + 1
      BY <1>5, <3>2, Zenon DEF Asks
    <3>. QED
      BY <3>1, <3>2, Zenon
  <2>. QED
    BY <2>1, Zenon DEF Asks
<1>7. ASSUME NEW i \in 1 .. Len(p) PROVE p[i].client # None <=> p[i].conn = "open"
  <2>1. CASE i = n + 1
    BY <1>3, <2>1, Zenon
  <2>2. CASE i # n + 1
    BY <1>5, <2>2, Zenon DEF RequestsOnce
  <2>. QED
    BY <2>1, <2>2, Zenon
<1>8. ASSUME NEW i \in 1 .. Len(p), NEW j \in 1 .. Len(p), p[i].client # None,
             p[i].client = p[j].client
      PROVE  i = j
  <2>1. CASE i = n + 1 \/ j = n + 1
    BY <1>3, <1>5, <1>8, <2>1, Zenon
  <2>2. CASE i # n + 1 /\ j # n + 1
    <3>1. Shifted(i, n) = Shifted(j, n)
      BY <1>5, <1>8, <2>2, Zenon DEF RequestsOnce
    <3>2. i \in Nat /\ j \in Nat
      BY <1>3, <1>4, SMT, SMTT(20)
    <3>. QED
      BY <1>4, <2>2, <3>1, <3>2, SMT, SMTT(20) DEF Shifted
  <2>. QED
    BY <2>1, <2>2, Zenon
<1>9. RequestsOnce(p)
  BY <1>7, <1>8, Zenon DEF RequestsOnce
<1>. QED
  BY <1>3, <1>6, <1>9, Zenon DEF p
-----------------------------------------------------------------------------
(* PUT of a fresh match key of a server none of whose offers is open. *)
Offer(s, k) == [server |-> s, key |-> k, conn |-> "open"]

(* A server whose match key is not pending has no open offer. *)
LEMMA NotPending ==
  ASSUME FarmInv, RpcAssumption, NEW s \in Servers, Unmatched(s) > UnmatchedPings
  PROVE  \A v \in Values : IsOf(v, values) /\ v.server = s => v.conn # "open"
<1>1. matchkey[s] \notin pending[s]
  BY SMT, SMTT(20) DEF Unmatched, RpcAssumption
<1>2. ASSUME NEW v \in Values, IsOf(v, values), v.server = s, v.conn = "open" PROVE FALSE
  <2>1. matchkey[s] = v.key
    BY <1>2, OfferFacts, Zenon
  <2>2. Opened(values, s, v.key)
    BY <1>2, Zenon DEF Opened
  <2>3. values \in Seq(Values) /\ pending[s] = OpenKeys(values, s)
    BY Zenon DEF FarmInv, Types, ListsInv, IsPending
  <2>4. v.key \in OpenKeys(values, s)
    BY <2>2, <2>3, KeysOpened, Zenon
  <2>. QED
    BY <1>1, <2>1, <2>3, <2>4, Zenon
<1>. QED
  BY <1>2, Zenon

(* A match key that nothing refers to. *)
LEMMA FreshKey ==
  ASSUME FarmInv, RpcAssumption, NEW s \in Servers, NEW k \in Keys, k \notin UsedKeys(s)
  PROVE  /\ k # matchkey[s]
         /\ \A v \in Values : IsOf(v, values) => ~(v.server = s /\ v.key = k)
         /\ \A c \in Clients : ~At(inbox[c], s, k) /\ ~At(value[c], s, k)
         /\ \A t \in Servers : \A e \in Calls : IsOf(e, backlog[t]) => ~(e.server = s /\ e.key = k)
<1>1. k # matchkey[s] /\ \A v \in Mentioned : v # None /\ v.server = s => v.key # k
  BY Zenon DEF UsedKeys
<1>2. ASSUME NEW v \in Values, IsOf(v, values) PROVE ~(v.server = s /\ v.key = k)
  <2>1. values \in Seq(Values)
    BY Zenon DEF FarmInv, Types
  <2>2. DOMAIN values = 1 .. Len(values)
    BY <2>1, SMT, SMTT(20)
  <2>3. v \in Range(values)
    BY <1>2, <2>2, Zenon DEF IsOf, Range
  <2>4. v \in Mentioned
    BY <2>3, Zenon DEF Mentioned
  <2>5. v # None
    BY Zenon DEF Values, RpcAssumption
  <2>. QED
    BY <1>1, <2>4, <2>5, Zenon
<1>3. ASSUME NEW c \in Clients PROVE ~At(inbox[c], s, k) /\ ~At(value[c], s, k)
  <2>1. inbox[c] \in Mentioned /\ value[c] \in Mentioned
    BY Zenon DEF Mentioned
  <2>. QED
    BY <1>1, <2>1, Zenon DEF At
<1>4. ASSUME NEW t \in Servers, NEW e \in Calls, IsOf(e, backlog[t])
      PROVE  ~(e.server = s /\ e.key = k)
  <2>1. backlog[t] \in Seq(Calls)
    BY Zenon DEF FarmInv, Types
  <2>2. DOMAIN backlog[t] = 1 .. Len(backlog[t])
    BY <2>1, SMT, SMTT(20)
  <2>3. e \in Range(backlog[t])
    BY <1>4, <2>2, Zenon DEF IsOf, Range
  <2>4. e \in Mentioned
    BY <2>3, Zenon DEF Mentioned
  <2>5. e # None
    BY Zenon DEF Calls, RpcAssumption
  <2>. QED
    BY <1>1, <2>4, <2>5, Zenon
<1>. QED
  BY <1>1, <1>2, <1>3, <1>4, Zenon

(* A key is offered once: two offers of it are the same. *)
LEMMA OneOffer ==
  ASSUME NEW V, KeysOnce(V), NEW v, NEW w, IsOf(v, V), IsOf(w, V),
         v.server = w.server, v.key = w.key
  PROVE  v = w
  BY Zenon DEF IsOf, KeysOnce

(* After _schedule has handed out what it could, each part of the          *)
(* invariant holds again: no key is both in the list and with a client,    *)
(* and a client that was answered no longer waits.                         *)
LEMMA Handing ==
  ASSUME NEW V \in Seq(Values), NEW R \in Seq(Requests), KeysOnce(V),
         inbox \in [Clients -> Values \cup {None}], RpcAssumption,
         Lists(V, R, values', requests'), IsPending(values', pending'),
         Replies(V, R, values', requests', inbox, inbox'), Ready(V, R)
  PROVE  /\ ListsInv' /\ OffersInv' /\ WaitInv' /\ HoldInv' /\ CallsInv' /\ SessionsInv'
<1>AskedBefore. ASSUME NEW R0, NEW reqs, \A i \in 1 .. Len(reqs) : IsOf(reqs[i], R0), NEW c, Asks(c, reqs)
                PROVE  Asks(c, R0)
    BY <1>AskedBefore, Zenon DEF Asks, IsOf
<1>1. ListsInv'
  BY Zenon DEF ListsInv, Lists
<1>2. ASSUME NEW v, IsOf(v, values') PROVE IsOf(v, V)
  BY <1>2, Zenon DEF Lists, IsOf
<1>3. ASSUME NEW c \in Clients, inbox'[c] # inbox[c]
      PROVE  /\ inbox'[c] \in Values /\ inbox'[c] # None /\ IsOf(inbox'[c], V)
             /\ ~IsOf(inbox'[c], values') /\ Asks(c, R) /\ ~Asks(c, requests')
             /\ inbox'[c].server \in Servers /\ inbox'[c].key \in Keys
             /\ inbox[c] = None
  <2>1. /\ IsOf(inbox'[c], V) /\ ~IsOf(inbox'[c], values') /\ Asks(c, R) /\ ~Asks(c, requests')
        /\ inbox' \in [Clients -> Values \cup {None}]
    BY <1>3, Zenon DEF Replies
  <2>2. inbox[c] = None
    BY <2>1, Zenon DEF Ready, WaitReady
  <2>3. inbox'[c] \in Values
    BY <1>3, <2>1, <2>2
  <2>4. inbox'[c] # None
    BY <1>3, <2>2, Zenon
  <2>5. inbox'[c].server \in Servers /\ inbox'[c].key \in Keys
    BY <2>3, Zenon DEF Values
  <2>. QED
    BY <2>1, <2>2, <2>3, <2>4, <2>5, Zenon
<1>4. ASSUME NEW c \in Clients, inbox'[c] # inbox[c], NEW v \in Values, IsOf(v, V),
             At(inbox'[c], v.server, v.key)
      PROVE  v = inbox'[c]
  <2>1. IsOf(inbox'[c], V) /\ inbox'[c].server = v.server /\ inbox'[c].key = v.key
    BY <1>3, <1>4, Zenon DEF At
  <2>. QED
    BY <1>4, <2>1, OneOffer, Zenon
<1>5. OffersInv'
  <2>1. SUFFICES ASSUME NEW v \in Values, IsOf(v, values')
                 PROVE  /\ v.conn = "open" => state'[v.server] = "listen" /\ matchkey'[v.server] = v.key
                        /\ v.conn = "hung" => matchkey'[v.server] # v.key
                        /\ \A c \in Clients : /\ ~At(inbox'[c], v.server, v.key)
                                              /\ ~At(value'[c], v.server, v.key)
    BY Zenon DEF OffersInv
  <2>2. IsOf(v, V)
    BY <1>2, <2>1, Zenon
  <2>3. /\ v.conn = "open" => state'[v.server] = "listen" /\ matchkey'[v.server] = v.key
        /\ v.conn = "hung" => matchkey'[v.server] # v.key
        /\ \A c \in Clients : ~At(inbox[c], v.server, v.key) /\ ~At(value'[c], v.server, v.key)
    BY <2>2, Zenon DEF Ready, OffersReady
  <2>4. ASSUME NEW c \in Clients, At(inbox'[c], v.server, v.key) PROVE FALSE
    <3>1. CASE inbox'[c] = inbox[c]
      BY <2>3, <2>4, <3>1, Zenon
    <3>2. CASE inbox'[c] # inbox[c]
      BY <1>3, <1>4, <2>1, <2>2, <2>4, <3>2, Zenon
    <3>. QED
      BY <3>1, <3>2, Zenon
  <2>. QED
    BY <2>3, <2>4, Zenon
<1>6. WaitInv'
  <2>1. SUFFICES ASSUME NEW c \in Clients
                 PROVE  /\ Asks(c, requests') =>
                             step'[c] = "wait" /\ inbox'[c] = None /\ cconn'[c] = "open"
                        /\ inbox'[c] # None => step'[c] = "wait"
                        /\ value'[c] # None <=> step'[c] \in {"handshake", "session"}
    BY Zenon DEF WaitInv
  <2>2. /\ Asks(c, R) => step'[c] = "wait" /\ inbox[c] = None /\ cconn'[c] = "open"
        /\ inbox[c] # None => step'[c] = "wait"
        /\ value'[c] # None <=> step'[c] \in {"handshake", "session"}
    BY Zenon DEF Ready, WaitReady
  <2>3. Asks(c, requests') => Asks(c, R)
    BY <1>AskedBefore, Zenon DEF Lists
  <2>4. CASE inbox'[c] = inbox[c]
    BY <2>2, <2>3, <2>4, Zenon
  <2>5. CASE inbox'[c] # inbox[c]
    BY <1>3, <2>2, <2>5, Zenon
  <2>. QED
    BY <2>4, <2>5, Zenon
<1>7. HoldInv'
  <2>1. SUFFICES ASSUME NEW c \in Clients, NEW d \in Clients, NEW s \in Servers, NEW k \in Keys
                 PROVE  /\ At(inbox'[c], s, k) => ~At(value'[d], s, k)
                        /\ At(inbox'[c], s, k) /\ At(inbox'[d], s, k) => c = d
                        /\ At(value'[c], s, k) /\ At(value'[d], s, k) => c = d
    BY Zenon DEF HoldInv
  <2>2. /\ At(inbox[c], s, k) => ~At(value'[d], s, k)
        /\ At(inbox[c], s, k) /\ At(inbox[d], s, k) => c = d
        /\ At(value'[c], s, k) /\ At(value'[d], s, k) => c = d
    BY Zenon DEF Ready, HoldReady
  <2>3. ASSUME NEW a \in Clients, NEW b \in Clients, inbox'[a] # inbox[a], At(inbox'[a], s, k)
        PROVE  ~At(value'[b], s, k) /\ ~At(inbox[b], s, k)
    <3>1. /\ inbox'[a] \in Values /\ IsOf(inbox'[a], V)
          /\ inbox'[a].server = s /\ inbox'[a].key = k
      BY <1>3, <2>3, Zenon DEF At
    <3>. QED
      BY <3>1, Zenon DEF Ready, OffersReady
  <2>4. ASSUME At(inbox'[c], s, k), At(inbox'[d], s, k) PROVE c = d
    <3>1. CASE inbox'[c] = inbox[c] /\ inbox'[d] = inbox[d]
      BY <2>2, <2>4, <3>1, Zenon
    <3>2. CASE inbox'[c] # inbox[c] /\ inbox'[d] = inbox[d]
      BY <2>3, <2>4, <3>2, Zenon
    <3>3. CASE inbox'[c] = inbox[c] /\ inbox'[d] # inbox[d]
      BY <2>3, <2>4, <3>3, Zenon
    <3>4. CASE inbox'[c] # inbox[c] /\ inbox'[d] # inbox[d]
      <4>1. /\ IsOf(inbox'[c], V) /\ IsOf(inbox'[d], V)
            /\ inbox'[c].server = inbox'[d].server /\ inbox'[c].key = inbox'[d].key
        BY <1>3, <2>4, <3>4, Zenon DEF At
      <4>2. inbox'[c] = inbox'[d]
        BY <4>1, OneOffer, Zenon
      <4>. QED
        BY <3>4, <4>2, Zenon DEF Replies
    <3>. QED
      BY <3>1, <3>2, <3>3, <3>4, Zenon
  <2>5. ASSUME At(inbox'[c], s, k) PROVE ~At(value'[d], s, k)
    <3>1. CASE inbox'[c] = inbox[c]
      BY <2>2, <2>5, <3>1, Zenon
    <3>2. CASE inbox'[c] # inbox[c]
      BY <2>3, <2>5, <3>2, Zenon
    <3>. QED
      BY <3>1, <3>2, Zenon
  <2>. QED
    BY <2>2, <2>4, <2>5, Zenon
<1>8. CallsInv'
  <2>1. ASSUME NEW s \in Servers, NEW e \in Calls, IsOf(e, backlog'[s])
        PROVE  /\ e.server = s
               /\ e.client # None => step'[e.client] = "handshake" /\ At(value'[e.client], s, e.key)
               /\ \A d \in Clients : ~At(inbox'[d], s, e.key) /\ (At(value'[d], s, e.key) => e.client = d)
               /\ \A v \in Values : IsOf(v, values') => ~At(v, s, e.key)
    <3>1. /\ e.server = s
          /\ e.client # None => step'[e.client] = "handshake" /\ At(value'[e.client], s, e.key)
          /\ \A d \in Clients : ~At(inbox[d], s, e.key) /\ (At(value'[d], s, e.key) => e.client = d)
          /\ \A v \in Values : IsOf(v, V) => ~At(v, s, e.key)
      BY <2>1, Zenon DEF Ready, CallsReady
    <3>2. ASSUME NEW d \in Clients PROVE ~At(inbox'[d], s, e.key)
      <4>1. CASE inbox'[d] = inbox[d]
        BY <3>1, <4>1, Zenon
      <4>2. CASE inbox'[d] # inbox[d]
        BY <1>3, <3>1, <4>2, Zenon
      <4>. QED
        BY <4>1, <4>2, Zenon
    <3>. QED
      BY <1>2, <3>1, <3>2, Zenon
  <2>2. ASSUME NEW s \in Servers PROVE Len(backlog'[s]) <= Backlog /\ CallsOnce(backlog'[s])
    BY Zenon DEF Ready, CallsReady
  <2>. QED
    BY <2>1, <2>2, Zenon DEF CallsInv
<1>9. SessionsInv'
  <2>1. ASSUME NEW s \in Servers, state'[s] = "serving", NEW c \in Clients
        PROVE  ~At(inbox'[c], s, matchkey'[s])
    <3>1. ~At(inbox[c], s, matchkey'[s])
      BY <2>1, Zenon DEF Ready, SessionsReady
    <3>2. CASE inbox'[c] # inbox[c]
      <4>1. ASSUME At(inbox'[c], s, matchkey'[s]) PROVE FALSE
        <5>1. /\ inbox'[c] \in Values /\ IsOf(inbox'[c], V)
              /\ inbox'[c].server = s /\ inbox'[c].key = matchkey'[s]
          BY <1>3, <3>2, <4>1, Zenon DEF At
        <5>2. inbox'[c].conn \in {"open", "hung"}
          BY <5>1, Zenon DEF Values
        <5>3. /\ inbox'[c].conn = "open" => state'[s] = "listen"
              /\ inbox'[c].conn = "hung" => matchkey'[s] # inbox'[c].key
          BY <5>1, Zenon DEF Ready, OffersReady
        <5>. QED
          BY <2>1, <5>1, <5>2, <5>3, Zenon
      <4>. QED
        BY <4>1, Zenon
    <3>. QED
      BY <3>1, <3>2, Zenon
  <2>2. SessionsReady
    BY Zenon DEF Ready
  <2>3. ASSUME NEW s \in Servers
        PROVE  /\ matchkey'[s] # None <=> state'[s] \in {"listen", "serving"}
               /\ serving'[s] # None => /\ state'[s] = "serving" /\ step'[serving'[s]] = "session"
                                        /\ At(value'[serving'[s]], s, matchkey'[s])
               /\ \A c \in Clients : step'[c] = "handshake" /\ At(value'[c], s, matchkey'[s]) =>
                    \E e \in Calls : IsOf(e, backlog'[s]) /\ e.client = c
    BY <2>2, Zenon DEF SessionsReady
  <2>4. ASSUME NEW s \in Servers, state'[s] = "serving"
        PROVE  /\ \A e \in Calls : IsOf(e, backlog'[s]) => e.key # matchkey'[s]
               /\ \A c \in Clients : At(value'[c], s, matchkey'[s]) => serving'[s] = c
    BY <2>2, <2>4, Zenon DEF SessionsReady
  <2>. QED
    BY <2>1, <2>3, <2>4, Zenon DEF SessionsInv
<1>. QED
  BY <1>1, <1>5, <1>6, <1>7, <1>8, <1>9, Zenon

(* The PUT of a server that is not serving and has no open offer. *)
LEMMA OfferKeyEffect ==
  ASSUME Library, FarmInv, RpcAssumption, NEW s \in Servers, OfferKey(s),
         state[s] \in {"register", "listen"},
         \A v \in Values : IsOf(v, values) /\ v.server = s => v.conn # "open",
         state'[s] = "listen", \A t \in Servers : t # s => state'[t] = state[t],
         UNCHANGED <<backlog, serving, clientVars>>
  PROVE  \E k \in Keys :
           /\ k \notin UsedKeys(s) /\ matchkey' = [matchkey EXCEPT ![s] = k]
           /\ unmatched' = [unmatched EXCEPT ![s] = 0]
           /\ Lists(Append(values, Offer(s, k)), requests, values', requests')
           /\ IsPending(values', pending')
           /\ Replies(Append(values, Offer(s, k)), requests, values', requests', inbox, inbox')
           /\ ListsInv' /\ OffersInv' /\ WaitInv' /\ HoldInv' /\ CallsInv' /\ SessionsInv'
<1>PutLists. ASSUME FarmInv, RpcAssumption, NEW s0 \in Servers, NEW k \in Keys, k \notin UsedKeys(s0),
                    NEW V, V = Append(values, Offer(s0, k)), NEW K, K = [pending EXCEPT ![s0] = @ \cup {k}]
             PROVE  /\ V \in Seq(Values) /\ KeysOnce(V) /\ IsPending(V, K)
                    /\ \A x : IsOf(x, V) <=> IsOf(x, values) \/ x = Offer(s0, k)
           (* The lists with an entry more or less.                                   *)
           (* put: the free list with a new value. *)
  <2>. USE <1>PutLists
  <2>PutIn. ASSUME NEW V0 \in Seq(Values), KeysOnce(V0), NEW v \in Values,
                   \A w \in Values : IsOf(w, V0) => ~(w.server = v.server /\ w.key = v.key)
            PROVE  /\ Append(V0, v) \in Seq(Values) /\ KeysOnce(Append(V0, v))
                   /\ \A x : IsOf(x, Append(V0, v)) <=> IsOf(x, V0) \/ x = v
    <3>. USE <2>PutIn
    <3>. DEFINE W == Append(V0, v)
    <3>1. /\ W \in Seq(Values) /\ Len(W) = Len(V0) + 1 /\ W[Len(V0) + 1] = v
          /\ \A i \in 1 .. Len(V0) : W[i] = V0[i]
      BY SMT, SMTT(20)
    <3>. HIDE DEF W
    <3>2. Len(V0) \in Nat
      BY SMT, SMTT(20)
    <3>3. /\ \A i \in 1 .. Len(W) : i \in 1 .. Len(V0) \/ i = Len(V0) + 1
          /\ \A i \in 1 .. Len(V0) : i \in 1 .. Len(W)
          /\ Len(V0) + 1 \in 1 .. Len(W)
      <4>1. Len(W) = Len(V0) + 1
        BY <3>1, Zenon
      <4>. QED
        BY <3>2, <4>1, SMT, SMTT(20)
    <3>4. ASSUME NEW i \in 1 .. Len(V0) PROVE ~(V0[i].server = v.server /\ V0[i].key = v.key)
      <4>1. V0[i] \in Values /\ IsOf(V0[i], V0)
        BY SMT, SMTT(20) DEF IsOf
      <4>. QED
        BY <4>1, Zenon
    <3>5. KeysOnce(W)
      <4>1. SUFFICES ASSUME NEW i \in 1 .. Len(W), NEW j \in 1 .. Len(W),
                            W[i].server = W[j].server, W[i].key = W[j].key
                     PROVE  i = j
        BY Zenon DEF KeysOnce
      <4>2. CASE i \in 1 .. Len(V0) /\ j \in 1 .. Len(V0)
        BY <3>1, <4>1, <4>2, Zenon DEF KeysOnce
      <4>3. CASE i = Len(V0) + 1 /\ j \in 1 .. Len(V0)
        BY <3>1, <3>4, <4>1, <4>3, Zenon
      <4>4. CASE i \in 1 .. Len(V0) /\ j = Len(V0) + 1
        BY <3>1, <3>4, <4>1, <4>4, Zenon
      <4>. QED
        BY <3>3, <4>2, <4>3, <4>4, Zenon
    <3>6. ASSUME NEW x, IsOf(x, W) PROVE IsOf(x, V0) \/ x = v
      BY <3>1, <3>3, <3>6, Zenon DEF IsOf
    <3>7. ASSUME NEW x, IsOf(x, V0) \/ x = v PROVE IsOf(x, W)
      BY <3>1, <3>3, <3>7, Zenon DEF IsOf
    <3>. QED
      BY <3>1, <3>5, <3>6, <3>7, ZenonT(40) DEF W
  <2>. DEFINE v == Offer(s0, k)
  <2>1. v \in Values /\ v.server = s0 /\ v.key = k /\ v.conn = "open"
    BY Zenon DEF Values, Offer
  <2>2. values \in Seq(Values) /\ KeysOnce(values) /\ IsPending(values, pending)
    BY Zenon DEF FarmInv, Types, ListsInv
  <2>. HIDE DEF v
  <2>3. \A w \in Values : IsOf(w, values) => ~(w.server = v.server /\ w.key = v.key)
    BY <2>1, FreshKey, Zenon
  <2>4. /\ Append(values, v) \in Seq(Values) /\ KeysOnce(Append(values, v))
        /\ \A x : IsOf(x, Append(values, v)) <=> IsOf(x, values) \/ x = v
    BY <2>1, <2>2, <2>3, <2>PutIn, Zenon
  <2>5. /\ V \in Seq(Values) /\ KeysOnce(V) /\ \A x : IsOf(x, V) <=> IsOf(x, values) \/ x = v
    BY <2>4, Zenon DEF v
  <2>6. /\ pending \in [Servers -> SUBSET Keys]
        /\ \A t \in Servers : pending[t] = OpenKeys(values, t)
    BY <2>2, Zenon DEF IsPending
  <2>7. K \in [Servers -> SUBSET Keys]
    BY <2>6, Zenon
  <2>8. \A t, j : /\ j \in OpenKeys(values, t) <=> Opened(values, t, j)
                  /\ j \in OpenKeys(V, t) <=> Opened(V, t, j)
    BY <2>2, <2>5, KeysOpened, Zenon
  <2>9. ASSUME NEW t \in Servers PROVE K[t] = OpenKeys(V, t)
    <3>1. K[t] = IF t = s0 THEN OpenKeys(values, t) \cup {k} ELSE OpenKeys(values, t)
      BY <2>6, Zenon
    <3>2. ASSUME NEW j PROVE Opened(V, t, j) <=> Opened(values, t, j) \/ (t = s0 /\ j = k)
      <4>1. ASSUME Opened(V, t, j) PROVE Opened(values, t, j) \/ (t = s0 /\ j = k)
        BY <2>1, <2>5, <4>1, Zenon DEF Opened
      <4>2. ASSUME Opened(values, t, j) PROVE Opened(V, t, j)
        BY <2>5, <4>2, Zenon DEF Opened
      <4>3. ASSUME t = s0, j = k PROVE Opened(V, t, j)
        BY <2>1, <2>5, <4>3, Zenon DEF Opened
      <4>. QED
        BY <4>1, <4>2, <4>3, Zenon
    <3>3. \A j : j \in OpenKeys(V, t) <=> j \in OpenKeys(values, t) \/ (t = s0 /\ j = k)
      BY <2>8, <3>2, Zenon
    <3>4. CASE t = s0
      <4>1. K[t] = OpenKeys(values, t) \cup {k}
        BY <3>1, <3>4, Zenon
      <4>2. \A j : j \in OpenKeys(V, t) <=> j \in OpenKeys(values, t) \/ j = k
        BY <3>3, <3>4, Zenon
      <4>. QED
        BY <4>1, <4>2, Zenon
    <3>5. CASE t # s0
      <4>1. K[t] = OpenKeys(values, t)
        BY <3>1, <3>5, Zenon
      <4>2. \A j : j \in OpenKeys(V, t) <=> j \in OpenKeys(values, t)
        BY <3>3, <3>5, Zenon
      <4>3. OpenKeys(V, t) = OpenKeys(values, t)
        BY <4>2, Zenon
      <4>. QED
        BY <4>1, <4>3, Zenon
    <3>. QED
      BY <3>4, <3>5, Zenon
  <2>. QED
    BY <2>5, <2>7, <2>9, Zenon DEF IsPending, v
<1>. DEFINE k == Min(Keys \ UsedKeys(s))
            V == Append(values, Offer(s, k))
            K == [pending EXCEPT ![s] = @ \cup {k}]
<1>1. /\ Keys \ UsedKeys(s) # {} /\ Put(s, k) /\ matchkey' = [matchkey EXCEPT ![s] = k]
      /\ unmatched' = [unmatched EXCEPT ![s] = 0]
  BY Zenon DEF OfferKey
<1>2. k \in Keys /\ k \notin UsedKeys(s)
  <2>1. Keys \ UsedKeys(s) \in SUBSET Nat
    BY Zenon DEF RpcAssumption
  <2>2. k \in Keys \ UsedKeys(s)
    BY <1>1, <2>1, MinOfNats, Zenon
  <2>. QED
    BY <2>2, Zenon
<1>3. ScheduleStep(V, requests, K)
  BY <1>1, Zenon DEF Put, Offer
<1>. HIDE DEF k
<1>4. /\ V \in Seq(Values) /\ KeysOnce(V) /\ IsPending(V, K)
      /\ \A x : IsOf(x, V) <=> IsOf(x, values) \/ x = Offer(s, k)
  BY <1>2, <1>PutLists, Zenon
<1>. HIDE DEF V, K
<1>5. /\ requests \in Seq(Requests) /\ RequestsOnce(requests)
      /\ inbox \in [Clients -> Values \cup {None}] /\ matchkey \in [Servers -> Keys \cup {None}]
  BY Zenon DEF FarmInv, Types, ListsInv
<1>6. /\ Lists(V, requests, values', requests') /\ IsPending(values', pending')
      /\ Replies(V, requests, values', requests', inbox, inbox')
  BY <1>3, <1>4, <1>5, ScheduleStepEffect, Zenon
<1>7. /\ k # matchkey[s]
      /\ \A v \in Values : IsOf(v, values) => ~(v.server = s /\ v.key = k)
      /\ \A c \in Clients : ~At(inbox[c], s, k) /\ ~At(value[c], s, k)
      /\ \A t \in Servers : \A e \in Calls : IsOf(e, backlog[t]) => ~(e.server = s /\ e.key = k)
  BY <1>2, FreshKey, Zenon
<1>8. Offer(s, k) \in Values /\ Offer(s, k).server = s /\ Offer(s, k).key = k
      /\ Offer(s, k).conn = "open"
  BY <1>2, Zenon DEF Offer, Values
<1>9. matchkey'[s] = k /\ \A t \in Servers : t # s => matchkey'[t] = matchkey[t]
  BY <1>1, <1>5, Zenon
<1>10. /\ backlog' = backlog /\ serving' = serving /\ step' = step /\ cconn' = cconn
       /\ tries' = tries /\ value' = value
  BY Zenon DEF clientVars
<1>11. OffersReady(V)
  <2>1. SUFFICES ASSUME NEW v \in Values, IsOf(v, V)
                 PROVE  /\ v.conn = "open" => state'[v.server] = "listen" /\ matchkey'[v.server] = v.key
                        /\ v.conn = "hung" => matchkey'[v.server] # v.key
                        /\ \A c \in Clients : ~At(inbox[c], v.server, v.key) /\ ~At(value[c], v.server, v.key)
    BY <1>10, Zenon DEF OffersReady
  <2>2. v.server \in Servers
    BY Zenon DEF Values
  <2>3. CASE IsOf(v, values)
    <3>1. /\ v.conn = "open" => state[v.server] = "listen" /\ matchkey[v.server] = v.key
          /\ v.conn = "hung" => matchkey[v.server] # v.key
          /\ \A c \in Clients : ~At(inbox[c], v.server, v.key) /\ ~At(value[c], v.server, v.key)
      BY <2>3, OfferFacts, Zenon
    <3>2. CASE v.server = s
      <4>1. v.conn # "open" /\ v.key # k
        BY <1>7, <2>3, <3>2, Zenon
      <4>. QED
        BY <1>9, <3>1, <3>2, <4>1, Zenon
    <3>3. CASE v.server # s
      BY <1>9, <2>2, <3>1, <3>3, Zenon
    <3>. QED
      BY <3>2, <3>3, Zenon
  <2>4. CASE v = Offer(s, k)
    <3>1. v.conn = "open" /\ v.conn # "hung" /\ v.server = s /\ v.key = k
      BY <1>8, <2>4, Zenon
    <3>. QED
      BY <1>7, <1>9, <3>1, Zenon
  <2>. QED
    BY <1>4, <2>1, <2>3, <2>4, Zenon
<1>12. WaitReady(requests)
  BY <1>10, Zenon DEF WaitReady, FarmInv, WaitInv
<1>13. HoldReady
  BY <1>10, ZenonT(40) DEF HoldReady, FarmInv, HoldInv
<1>14. CallsReady(V)
  <2>1. ASSUME NEW t \in Servers, NEW e \in Calls, IsOf(e, backlog[t])
        PROVE  /\ e.server = t
               /\ e.client # None => step[e.client] = "handshake" /\ At(value[e.client], t, e.key)
               /\ \A d \in Clients : ~At(inbox[d], t, e.key) /\ (At(value[d], t, e.key) => e.client = d)
               /\ \A v \in Values : IsOf(v, V) => ~At(v, t, e.key)
    <3>1. /\ e.server = t
          /\ e.client # None => step[e.client] = "handshake" /\ At(value[e.client], t, e.key)
          /\ \A d \in Clients : ~At(inbox[d], t, e.key) /\ (At(value[d], t, e.key) => e.client = d)
          /\ \A v \in Values : IsOf(v, values) => ~At(v, t, e.key)
      BY <2>1, CallFacts, Zenon
    <3>2. ~At(Offer(s, k), t, e.key)
      BY <1>7, <1>8, <2>1, <3>1, ZenonT(40) DEF At
    <3>. QED
      BY <1>4, <3>1, <3>2, Zenon
  <2>2. ASSUME NEW t \in Servers PROVE Len(backlog[t]) <= Backlog /\ CallsOnce(backlog[t])
    BY Zenon DEF FarmInv, CallsInv
  <2>. QED
    BY <1>10, <2>1, <2>2, Zenon DEF CallsReady
<1>15. SessionsReady
  <2>1. SUFFICES ASSUME NEW t \in Servers
          PROVE /\ matchkey'[t] # None <=> state'[t] \in {"listen", "serving"}
                /\ state'[t] = "serving" =>
                     /\ \A e \in Calls : IsOf(e, backlog[t]) => e.key # matchkey'[t]
                     /\ \A c \in Clients : /\ ~At(inbox[c], t, matchkey'[t])
                                           /\ At(value[c], t, matchkey'[t]) => serving[t] = c
                /\ serving[t] # None => /\ state'[t] = "serving" /\ step[serving[t]] = "session"
                                        /\ At(value[serving[t]], t, matchkey'[t])
                /\ \A c \in Clients : step[c] = "handshake" /\ At(value[c], t, matchkey'[t]) =>
                     \E e \in Calls : IsOf(e, backlog[t]) /\ e.client = c
    BY <1>10, SMT, SMTT(20) DEF SessionsReady
  <2>2. /\ matchkey[t] # None <=> state[t] \in {"listen", "serving"}
        /\ state[t] = "serving" =>
             /\ \A e \in Calls : IsOf(e, backlog[t]) => e.key # matchkey[t]
             /\ \A c \in Clients : /\ ~At(inbox[c], t, matchkey[t])
                                   /\ At(value[c], t, matchkey[t]) => serving[t] = c
        /\ serving[t] # None => /\ state[t] = "serving" /\ step[serving[t]] = "session"
                                /\ At(value[serving[t]], t, matchkey[t])
        /\ \A c \in Clients : step[c] = "handshake" /\ At(value[c], t, matchkey[t]) =>
             \E e \in Calls : IsOf(e, backlog[t]) /\ e.client = c
    BY SessionFacts, Zenon
  <2>3. CASE t = s
    <3>1. serving[t] = None
      BY <2>2, <2>3, Zenon
    <3>2. matchkey'[t] # None
      BY <1>2, <1>9, <2>3, NoneIsNot, Zenon
    <3>3. state'[t] \in {"listen", "serving"} /\ state'[t] # "serving"
      BY <2>3, Zenon
    <3>4. \A c \in Clients : ~At(value[c], t, matchkey'[t])
      BY <1>7, <1>9, <2>3, Zenon
    <3>. QED
      BY <3>1, <3>2, <3>3, <3>4, Zenon
  <2>4. CASE t # s
    <3>1. state'[t] = state[t] /\ matchkey'[t] = matchkey[t]
      BY <1>9, <2>4, Zenon
    <3>. QED
      BY <2>2, <3>1, Zenon
  <2>. QED
    BY <2>3, <2>4, ZenonT(40)
<1>16. Ready(V, requests)
  BY <1>11, <1>12, <1>13, <1>14, <1>15, Zenon DEF Ready
<1>17. ListsInv' /\ OffersInv' /\ WaitInv' /\ HoldInv' /\ CallsInv' /\ SessionsInv'
  BY <1>4, <1>5, <1>6, <1>16, Handing, Zenon
<1>. QED
  BY <1>1, <1>2, <1>6, <1>17, Zenon DEF V

(* The types after a handler that ends with _schedule. *)
LEMMA ScheduledTypes ==
  ASSUME NEW V, NEW R \in Seq(Requests), Lists(V, R, values', requests'),
         Replies(V, R, values', requests', inbox, inbox'), Len(R) <= MaxRequests, RpcAssumption
  PROVE  /\ values' \in Seq(Values) /\ requests' \in Seq(Requests)
         /\ Len(requests') <= MaxRequests /\ inbox' \in [Clients -> Values \cup {None}]
<1>1. /\ values' \in Seq(Values) /\ requests' \in Seq(Requests) /\ Len(requests') <= Len(R)
      /\ inbox' \in [Clients -> Values \cup {None}]
  BY Zenon DEF Lists, Replies
<1>2. Len(requests') \in Nat /\ Len(R) \in Nat /\ MaxRequests \in Nat
  BY <1>1, SMT, SMTT(20) DEF RpcAssumption
<1>3. Len(requests') <= MaxRequests
  <2>1. Len(requests') <= Len(R) /\ Len(R) <= MaxRequests
    BY <1>1, Zenon
  <2>. QED
    BY <1>2, <2>1, SMT, SMTT(20)
<1>. QED
  BY <1>1, <1>3, Zenon
-----------------------------------------------------------------------------
(* A server's new key, put into the list and scheduled. *)
LEMMA RegisterStep ==
  ASSUME Library, FarmInv, RpcAssumption, NEW s \in Servers, Register(s)
  PROVE  FarmInv'
<1>1. /\ state[s] = "register" /\ OfferKey(s) /\ sconn' = [sconn EXCEPT ![s] = "open"]
      /\ state' = [state EXCEPT ![s] = "listen"] /\ UNCHANGED <<backlog, serving, clientVars>>
  BY Zenon DEF Register
<1>2. Types
  BY Zenon DEF FarmInv
<1>3. state'[s] = "listen" /\ \A t \in Servers : t # s => state'[t] = state[t]
  BY <1>1, <1>2, Zenon DEF Types
<1>4. ASSUME NEW v \in Values, IsOf(v, values), v.server = s PROVE v.conn # "open"
  <2>1. v.conn = "open" => state[v.server] = "listen"
    BY <1>4, OfferFacts, Zenon
  <2>. QED
    BY <1>1, <1>4, <2>1, Zenon
<1>5. state[s] \in {"register", "listen"}
  BY <1>1, Zenon
<1>6. PICK k \in Keys :
        /\ matchkey' = [matchkey EXCEPT ![s] = k] /\ unmatched' = [unmatched EXCEPT ![s] = 0]
        /\ Lists(Append(values, Offer(s, k)), requests, values', requests')
        /\ Replies(Append(values, Offer(s, k)), requests, values', requests', inbox, inbox')
        /\ ListsInv' /\ OffersInv' /\ WaitInv' /\ HoldInv' /\ CallsInv' /\ SessionsInv'
  BY <1>1, <1>3, <1>4, <1>5, OfferKeyEffect, Zenon
<1>7. /\ values' \in Seq(Values) /\ requests' \in Seq(Requests)
      /\ Len(requests') <= MaxRequests /\ inbox' \in [Clients -> Values \cup {None}]
  <2>1. requests \in Seq(Requests) /\ Len(requests) <= MaxRequests
    BY <1>2, Zenon DEF Types
  <2>. QED
    BY <1>6, <2>1, ScheduledTypes, Zenon
<1>8. Types'
  BY <1>1, <1>2, <1>6, <1>7, OfferedTypes, Zenon
<1>. QED
  BY <1>6, <1>8, Zenon DEF FarmInv

(* A server that nobody calls asks for its pending keys, and puts a new    *)
(* one when its own has been away for too many pings.                      *)
LEMMA PingStep ==
  ASSUME Library, FarmInv, RpcAssumption, NEW s \in Servers, Ping(s)
  PROVE  FarmInv'
<1>1. /\ state[s] = "listen"
      /\ IF Unmatched(s) > UnmatchedPings THEN OfferKey(s)
         ELSE /\ unmatched' = [unmatched EXCEPT ![s] = Unmatched(s)]
              /\ UNCHANGED <<trackerVars, matchkey>>
      /\ UNCHANGED <<state, sconn, backlog, serving, clientVars>>
      /\ UNCHANGED <<backlog, serving, clientVars>> /\ state' = state /\ sconn' = sconn
  BY Zenon DEF Ping
<1>2. CASE ~(Unmatched(s) > UnmatchedPings)
  BY <1>1, <1>2, PingWaits, Zenon
<1>3. CASE Unmatched(s) > UnmatchedPings
  <2>1. OfferKey(s)
    BY <1>1, <1>3, Zenon
  <2>2. \A v \in Values : IsOf(v, values) /\ v.server = s => v.conn # "open"
    BY <1>3, NotPending, Zenon
  <2>3. state[s] \in {"register", "listen"} /\ state'[s] = "listen"
        /\ \A t \in Servers : t # s => state'[t] = state[t]
    BY <1>1, Zenon
  <2>4. PICK k \in Keys :
          /\ matchkey' = [matchkey EXCEPT ![s] = k] /\ unmatched' = [unmatched EXCEPT ![s] = 0]
          /\ Lists(Append(values, Offer(s, k)), requests, values', requests')
          /\ Replies(Append(values, Offer(s, k)), requests, values', requests', inbox, inbox')
          /\ ListsInv' /\ OffersInv' /\ WaitInv' /\ HoldInv' /\ CallsInv' /\ SessionsInv'
    BY <1>1, <2>1, <2>2, <2>3, OfferKeyEffect, ZenonT(40)
  <2>5. Types /\ requests \in Seq(Requests) /\ Len(requests) <= MaxRequests
    BY Zenon DEF FarmInv, Types
  <2>6. /\ values' \in Seq(Values) /\ requests' \in Seq(Requests)
        /\ Len(requests') <= MaxRequests /\ inbox' \in [Clients -> Values \cup {None}]
    BY <2>4, <2>5, ScheduledTypes, Zenon
  <2>7. Types'
    BY <1>1, <2>4, <2>5, <2>6, OfferedTypes, Zenon
  <2>. QED
    BY <2>4, <2>7, Zenon DEF FarmInv
<1>. QED
  BY <1>2, <1>3, Zenon

(* The tracker closes the connection of a server that hung up: its offers  *)
(* leave the list before the rest is scheduled.                            *)
LEMMA CloseServerStep ==
  ASSUME Library, FarmInv, RpcAssumption, NEW i \in DOMAIN values, CloseServer(i),
         UNCHANGED <<serverVars, clientVars>>
  PROVE  /\ FarmInv' /\ values[i] \in Values /\ values[i].conn = "hung"
         /\ \A x : IsOf(x, Without(values, i)) <=> IsOf(x, values) /\ x # values[i]
         /\ Lists(Without(values, i), requests, values', requests')
         /\ Replies(Without(values, i), requests, values', requests', inbox, inbox')
<1>. DEFINE V == Without(values, i)
<1>1. values[i].conn = "hung" /\ ScheduleStep(V, requests, pending)
  BY Zenon DEF CloseServer, Without
<1>2. /\ state' = state /\ sconn' = sconn /\ matchkey' = matchkey /\ unmatched' = unmatched
      /\ backlog' = backlog /\ serving' = serving
      /\ step' = step /\ cconn' = cconn /\ tries' = tries /\ value' = value
  BY Zenon DEF serverVars, clientVars
<1>3. /\ Types /\ requests \in Seq(Requests) /\ RequestsOnce(requests)
      /\ values \in Seq(Values) /\ KeysOnce(values) /\ IsPending(values, pending)
      /\ inbox \in [Clients -> Values \cup {None}] /\ Len(requests) <= MaxRequests
  BY Zenon DEF FarmInv, Types, ListsInv
<1>4. i \in 1 .. Len(values) /\ values[i] \in Values
  BY <1>3, OneOf, ZenonT(40)
<1>5. /\ V \in Seq(Values) /\ KeysOnce(V)
      /\ \A x : IsOf(x, V) <=> IsOf(x, values) /\ x # values[i]
  BY <1>3, <1>4, TakenOut, ZenonT(40)
<1>. HIDE DEF V
<1>6. IsPending(V, pending)
  <2>1. \A t, k : /\ k \in OpenKeys(values, t) <=> Opened(values, t, k)
                  /\ k \in OpenKeys(V, t) <=> Opened(V, t, k)
    BY <1>3, <1>5, KeysOpened, ZenonT(40)
  <2>2. ASSUME NEW v, v.conn = "open" PROVE v # values[i]
    BY <1>1, <2>2, ZenonT(40)
  <2>3. ASSUME NEW t, NEW k PROVE Opened(V, t, k) <=> Opened(values, t, k)
    BY <1>5, <2>2, ZenonT(40) DEF Opened
  <2>4. ASSUME NEW t \in Servers PROVE pending[t] = OpenKeys(V, t)
    <3>1. \A k : k \in OpenKeys(V, t) <=> k \in OpenKeys(values, t)
      BY <2>1, <2>3, ZenonT(40)
    <3>2. OpenKeys(V, t) = OpenKeys(values, t)
      BY <3>1, ZenonT(40)
    <3>. QED
      BY <1>3, <3>2, Zenon DEF IsPending
  <2>. QED
    BY <1>3, <2>4, ZenonT(40) DEF IsPending
<1>7. /\ Lists(V, requests, values', requests') /\ IsPending(values', pending')
      /\ Replies(V, requests, values', requests', inbox, inbox')
  BY <1>1, <1>3, <1>5, <1>6, ScheduleStepEffect, ZenonT(40)
<1>8. OffersReady(V)
  BY <1>2, <1>5, Zenon DEF OffersReady, FarmInv, OffersInv
<1>9. WaitReady(requests)
  BY <1>2, Zenon DEF WaitReady, FarmInv, WaitInv
<1>10. HoldReady
  BY <1>2, ZenonT(40) DEF HoldReady, FarmInv, HoldInv
<1>11. CallsReady(V)
  BY <1>2, <1>5, Zenon DEF CallsReady, FarmInv, CallsInv
<1>12. SessionsReady
  BY <1>2, SessionsKept, Zenon
<1>13. Ready(V, requests)
  BY <1>8, <1>9, <1>10, <1>11, <1>12, Zenon DEF Ready
<1>14. ListsInv' /\ OffersInv' /\ WaitInv' /\ HoldInv' /\ CallsInv' /\ SessionsInv'
  BY <1>3, <1>5, <1>7, <1>13, Handing, Zenon
<1>15. /\ values' \in Seq(Values) /\ requests' \in Seq(Requests)
       /\ Len(requests') <= MaxRequests /\ inbox' \in [Clients -> Values \cup {None}]
  BY <1>3, <1>7, ScheduledTypes, Zenon
<1>16. Types'
  BY <1>2, <1>3, <1>15, ZenonT(40) DEF Types
<1>17. FarmInv'
  BY <1>14, <1>16, Zenon DEF FarmInv
<1>. QED
  BY <1>1, <1>4, <1>5, <1>7, <1>17, Zenon DEF V

(* REQUEST of a client that has no other: the queue as _schedule finds it. *)
Asking(c) == [client |-> c, priority |-> Priority[c], conn |-> "open"]

(* A client's request, pushed into the priority queue and scheduled. *)
LEMMA SendRequestStep ==
  ASSUME Library, FarmInv, RpcAssumption, NEW c \in Clients, step[c] \in {"idle", "request"}, SendRequest(c)
  PROVE  /\ FarmInv' /\ ~Asks(c, requests) /\ inbox[c] = None /\ value[c] = None
         /\ Push(requests, Asking(c)) \in Seq(Requests)
         /\ \A d : Asks(d, Push(requests, Asking(c))) => Asks(d, requests) \/ d = c
         /\ Lists(values, Push(requests, Asking(c)), values', requests')
         /\ Replies(values, Push(requests, Asking(c)), values', requests', inbox, inbox')
<1>. DEFINE r == Asking(c)
            R == Push(requests, r)
<1>1. /\ Len(requests) < MaxRequests /\ ScheduleStep(values, R, pending)
      /\ cconn' = [cconn EXCEPT ![c] = "open"] /\ step' = [step EXCEPT ![c] = "wait"]
      /\ state' = state /\ sconn' = sconn /\ matchkey' = matchkey /\ unmatched' = unmatched
      /\ backlog' = backlog /\ serving' = serving /\ tries' = tries /\ value' = value
  BY Zenon DEF SendRequest, Request, Asking, serverVars
<1>2. r \in Requests /\ r.conn = "open" /\ r.client = c /\ c # None
  BY NoneIsNot, Zenon DEF Asking, Requests, RpcAssumption
<1>3. ~Asks(c, requests) /\ inbox[c] = None /\ value[c] = None
  <2>1. /\ Asks(c, requests) => step[c] = "wait"
        /\ inbox[c] # None => step[c] = "wait"
        /\ value[c] # None <=> step[c] \in {"handshake", "session"}
    BY WaitFacts, Zenon
  <2>. QED
    BY <2>1, Zenon
<1>4. /\ Types /\ requests \in Seq(Requests) /\ RequestsOnce(requests)
      /\ values \in Seq(Values) /\ KeysOnce(values) /\ IsPending(values, pending)
      /\ inbox \in [Clients -> Values \cup {None}]
  BY Zenon DEF FarmInv, Types, ListsInv
<1>. HIDE DEF r
<1>5. /\ R \in Seq(Requests) /\ Len(R) = Len(requests) + 1 /\ RequestsOnce(R)
      /\ \A d : Asks(d, R) => Asks(d, requests) \/ d = c
  BY <1>2, <1>3, <1>4, Pushed, Zenon
<1>. HIDE DEF R
<1>6. /\ Lists(values, R, values', requests') /\ IsPending(values', pending')
      /\ Replies(values, R, values', requests', inbox, inbox')
  BY <1>1, <1>4, <1>5, ScheduleStepEffect, ZenonT(40)
<1>7. ASSUME NEW d \in Clients
      PROVE  /\ d = c => step'[d] = "wait" /\ cconn'[d] = "open"
             /\ d # c => step'[d] = step[d] /\ cconn'[d] = cconn[d]
  BY <1>1, <1>4, ZenonT(40) DEF Types
<1>8. OffersReady(values)
  BY <1>1, Zenon DEF OffersReady, FarmInv, OffersInv
<1>9. WaitReady(R)
  <2>1. SUFFICES ASSUME NEW d \in Clients
                 PROVE  /\ Asks(d, R) => step'[d] = "wait" /\ inbox[d] = None /\ cconn'[d] = "open"
                        /\ inbox[d] # None => step'[d] = "wait"
                        /\ value[d] # None <=> step'[d] \in {"handshake", "session"}
    BY <1>1, ZenonT(40) DEF WaitReady
  <2>2. /\ Asks(d, requests) => step[d] = "wait" /\ inbox[d] = None /\ cconn[d] = "open"
        /\ inbox[d] # None => step[d] = "wait"
        /\ value[d] # None <=> step[d] \in {"handshake", "session"}
    BY WaitFacts, ZenonT(40)
  <2>3. CASE d = c
    BY <1>3, <1>7, <2>3, ZenonT(40)
  <2>4. CASE d # c
    BY <1>5, <1>7, <2>2, <2>4, Zenon
  <2>. QED
    BY <2>3, <2>4, ZenonT(40)
<1>10. HoldReady
  BY <1>1, ZenonT(40) DEF HoldReady, FarmInv, HoldInv
<1>11. CallsReady(values)
  <2>1. ASSUME NEW t \in Servers, NEW e \in Calls, IsOf(e, backlog[t])
        PROVE  /\ e.server = t
               /\ e.client # None => step'[e.client] = "handshake" /\ At(value[e.client], t, e.key)
               /\ \A d \in Clients : ~At(inbox[d], t, e.key) /\ (At(value[d], t, e.key) => e.client = d)
               /\ \A v \in Values : IsOf(v, values) => ~At(v, t, e.key)
    <3>1. /\ e.server = t
          /\ e.client # None => step[e.client] = "handshake" /\ At(value[e.client], t, e.key)
          /\ \A d \in Clients : ~At(inbox[d], t, e.key) /\ (At(value[d], t, e.key) => e.client = d)
          /\ \A v \in Values : IsOf(v, values) => ~At(v, t, e.key)
      BY <2>1, CallFacts, ZenonT(40)
    <3>2. ASSUME e.client # None PROVE step'[e.client] = "handshake"
      <4>1. e.client \in Clients
        BY <3>2, Zenon DEF Calls
      <4>2. e.client # c
        BY <3>1, <3>2, ZenonT(40)
      <4>. QED
        BY <1>7, <3>1, <3>2, <4>1, <4>2, Zenon
    <3>. QED
      BY <3>1, <3>2, Zenon
  <2>2. ASSUME NEW t \in Servers PROVE Len(backlog[t]) <= Backlog /\ CallsOnce(backlog[t])
    BY Zenon DEF FarmInv, CallsInv
  <2>. QED
    BY <1>1, <2>1, <2>2, ZenonT(40) DEF CallsReady
<1>12. SessionsReady
  <2>1. ASSUME NEW d \in Clients
        PROVE  /\ step[d] = "session" => step'[d] = "session"
               /\ step'[d] = "handshake" => step[d] = "handshake"
    <3>1. CASE d = c
      BY <1>7, <3>1, ZenonT(40)
    <3>2. CASE d # c
      BY <1>7, <3>2, ZenonT(40)
    <3>. QED
      BY <3>1, <3>2, ZenonT(40)
  <2>. QED
    BY <1>1, <2>1, SessionsKept, ZenonT(40)
<1>13. Ready(values, R)
  BY <1>8, <1>9, <1>10, <1>11, <1>12, Zenon DEF Ready
<1>14. ListsInv' /\ OffersInv' /\ WaitInv' /\ HoldInv' /\ CallsInv' /\ SessionsInv'
  BY <1>4, <1>5, <1>6, <1>13, Handing, Zenon
<1>15. Len(R) <= MaxRequests
  <2>1. Len(requests) \in Nat /\ MaxRequests \in Nat
    BY <1>4, SMT, SMTT(20) DEF RpcAssumption
  <2>. QED
    BY <1>1, <1>5, <2>1, SMT, SMTT(20)
<1>16. /\ values' \in Seq(Values) /\ requests' \in Seq(Requests)
       /\ Len(requests') <= MaxRequests /\ inbox' \in [Clients -> Values \cup {None}]
  BY <1>5, <1>6, <1>15, ScheduledTypes, ZenonT(40)
<1>17. Types'
  BY <1>1, <1>4, <1>16, Zenon DEF Types
<1>18. FarmInv'
  BY <1>14, <1>17, ZenonT(40) DEF FarmInv
<1>. QED
  BY <1>3, <1>5, <1>6, <1>18, Zenon DEF R, r

(* The farm never leaves its invariant. *)
LEMMA FarmGoesOn ==
  ASSUME Library, RpcAssumption, FarmInv, [Next]_vars
  PROVE  FarmInv'
<1>1. ASSUME NEW s \in Servers, Register(s) \/ Ping(s) PROVE FarmInv'
  BY <1>1, RegisterStep, PingStep, ZenonT(40)
<1>2. ASSUME NEW c \in Clients, Again(c) \/ Start(c) PROVE FarmInv'
  <2>1. step[c] \in {"idle", "request"} /\ SendRequest(c)
    BY <1>2, ZenonT(40) DEF Again, Start
  <2>. QED
    BY <2>1, SendRequestStep, Zenon
<1>3. ASSUME NEW i \in DOMAIN values, CloseServer(i), UNCHANGED <<serverVars, clientVars>>
      PROVE  FarmInv'
  BY <1>3, CloseServerStep, ZenonT(40)
<1>4. \/ \E s \in Servers : Register(s) \/ Ping(s)
      \/ \E c \in Clients : Again(c) \/ Start(c)
      \/ (\E i \in DOMAIN values : CloseServer(i)) /\ UNCHANGED <<serverVars, clientVars>>
      \/ QuietStep
  BY Zenon DEF Next, ServerStep, ClientStep, HandleClose, QuietStep
<1>. QED
  BY <1>1, <1>2, <1>3, <1>4, QuietGoesOn, Zenon
=============================================================================
