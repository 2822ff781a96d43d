--------------------------- MODULE RpcFarmProofs ---------------------------
(***************************************************************************)
(* The inductive invariant of the device farm, for any number of servers   *)
(* and clients, any number of deaths and any queue of requests: what       *)
(* follows from it, and that the steps which ask the tracker for nothing   *)
(* preserve it.                                                            *)
(***************************************************************************)
EXTENDS RpcDevices, TLAPS

(* What the proofs take from the library: induction, stated with a set of  *)
(* naturals, the least element of one, and the size of small sets.          *)
(* The lemmas that need it have it as a hypothesis, which LibraryHolds     *)
(* discharges for the theorems: the provers read every fact in sight, and  *)
(* the library has many.                                                   *)
Library ==
  /\ \A S \in SUBSET Nat : 0 \in S /\ (\A n \in S : n + 1 \in S) => S = Nat
  /\ \A S \in SUBSET Nat : S # {} => Min(S) \in S
  /\ \A n \in Nat : \A S \in SUBSET (1 .. n) : Cardinality(S) \in 0 .. n
  /\ Cardinality({}) = 0 /\ \A x : Cardinality({x}) = 1

Values == [server : Servers, key : Keys, conn : {"open", "hung"}]

Requests == [client : Clients \cup {None}, priority : Nat, conn : {"open", "hung", "closed"}]

Grants == [server : Servers, key : Keys]

Calls == [client : Clients \cup {None}, server : Servers, key : Keys]

(* x is, or holds, the match key k of server s. *)
At(x, s, k) == x # None /\ x.server = s /\ x.key = k

(* What is in a list, and who has a request in one. *)
IsOf(v, vals) == \E j \in 1 .. Len(vals) : v = vals[j]

Asks(c, reqs) == \E i \in 1 .. Len(reqs) : reqs[i].client = c

(* The lists as the handlers find and leave them: no match key is offered  *)
(* twice nor shown twice, no client has two requests.                      *)
KeysOnce(vals) ==
  \A i, j \in 1 .. Len(vals) :
    vals[i].server = vals[j].server /\ vals[i].key = vals[j].key => i = j

CallsOnce(calls) ==
  \A i, j \in 1 .. Len(calls) : calls[i].key = calls[j].key => i = j

RequestsOnce(reqs) ==
  /\ \A i \in 1 .. Len(reqs) : reqs[i].client # None <=> reqs[i].conn = "open"
  /\ \A i, j \in 1 .. Len(reqs) :
       reqs[i].client # None /\ reqs[i].client = reqs[j].client => i = j

(* keys are the match keys of the open connections that vals offers. *)
OpenKeys(vals, s) ==
  {vals[i].key : i \in {j \in 1 .. Len(vals) : vals[j].server = s /\ vals[j].conn = "open"}}

IsPending(vals, keys) ==
  keys \in [Servers -> SUBSET Keys] /\ \A s \in Servers : keys[s] = OpenKeys(vals, s)

Types ==
  /\ values \in Seq(Values) /\ requests \in Seq(Requests) /\ Len(requests) <= MaxRequests
  /\ inbox \in [Clients -> Values \cup {None}]
  /\ state \in [Servers -> {"register", "listen", "serving", "dead"}]
  /\ sconn \in [Servers -> {None, "open", "broken"}]
  /\ matchkey \in [Servers -> Keys \cup {None}]
  /\ unmatched \in [Servers -> 0 .. UnmatchedPings]
  /\ backlog \in [Servers -> Seq(Calls)]
  /\ serving \in [Servers -> Clients \cup {None}]
  /\ step \in [Clients -> {"idle", "request", "wait", "handshake", "session"}]
  /\ cconn \in [Clients -> {None, "open", "broken"}]
  /\ tries \in [Clients -> 0 .. MaxRetry - 1] /\ value \in [Clients -> Grants \cup {None}]

(* The tracker's lists.  *)
ListsInv ==
  /\ KeysOnce(values) /\ RequestsOnce(requests) /\ IsPending(values, pending)
  /\ values = <<>> \/ requests = <<>>

(* An offer whose connection is open has its server's current match key,   *)
(* the key of one that hung up is not current; nobody has a key that is    *)
(* offered.                                                                *)
OffersInv ==
  \A v \in Values : IsOf(v, values) =>
    /\ v.conn = "open" => state[v.server] = "listen" /\ matchkey[v.server] = v.key
    /\ v.conn = "hung" => matchkey[v.server] # v.key
    /\ \A c \in Clients : ~At(inbox[c], v.server, v.key) /\ ~At(value[c], v.server, v.key)

(* Who has a request queued waits, and has nothing to read. *)
WaitInv ==
  \A c \in Clients :
    /\ Asks(c, requests) => step[c] = "wait" /\ inbox[c] = None /\ cconn[c] = "open"
    /\ inbox[c] # None => step[c] = "wait"
    /\ value[c] # None <=> step[c] \in {"handshake", "session"}

(* A match key is with one client, in its reply or in its hands. *)
HoldInv ==
  \A c, d \in Clients, s \in Servers, k \in Keys :
    /\ At(inbox[c], s, k) => ~At(value[d], s, k)
    /\ At(inbox[c], s, k) /\ At(inbox[d], s, k) => c = d
    /\ At(value[c], s, k) /\ At(value[d], s, k) => c = d

(* A call in the backlog is the only trace of its match key, but for the   *)
(* client that made it and is in the handshake.                            *)
CallsInv ==
  \A s \in Servers :
    /\ Len(backlog[s]) <= Backlog
    /\ CallsOnce(backlog[s])
    /\ \A e \in Calls : IsOf(e, backlog[s]) =>
         /\ e.server = s
         /\ e.client # None => step[e.client] = "handshake" /\ At(value[e.client], s, e.key)
         /\ \A d \in Clients : ~At(inbox[d], s, e.key) /\ (At(value[d], s, e.key) => e.client = d)
         /\ \A v \in Values : IsOf(v, values) => ~At(v, s, e.key)

(* A session is with the client that has the server's match key, which is  *)
(* nowhere else; a client that shows the current key waits in the backlog. *)
SessionsInv ==
  \A s \in Servers :
    /\ matchkey[s] # None <=> state[s] \in {"listen", "serving"}
    /\ state[s] = "serving" =>
         /\ \A e \in Calls : IsOf(e, backlog[s]) => e.key # matchkey[s]
         /\ \A c \in Clients : /\ ~At(inbox[c], s, matchkey[s])
                               /\ At(value[c], s, matchkey[s]) => serving[s] = c
    /\ serving[s] # None => /\ state[s] = "serving" /\ step[serving[s]] = "session"
                            /\ At(value[serving[s]], s, matchkey[s])
    /\ \A c \in Clients : step[c] = "handshake" /\ At(value[c], s, matchkey[s]) =>
         \E e \in Calls : IsOf(e, backlog[s]) /\ e.client = c

FarmInv ==
  /\ Types /\ ListsInv /\ OffersInv /\ WaitInv /\ HoldInv /\ CallsInv /\ SessionsInv
-----------------------------------------------------------------------------
(* The farm starts in the invariant. *)
LEMMA FarmStarts ==
  ASSUME RpcAssumption, Init
  PROVE  FarmInv
<1>1. /\ values = <<>> /\ requests = <<>> /\ pending = [s \in Servers |-> {}]
      /\ inbox = [c \in Clients |-> None]
      /\ state = [s \in Servers |-> "register"] /\ sconn = [s \in Servers |-> None]
      /\ matchkey = [s \in Servers |-> None] /\ unmatched = [s \in Servers |-> 0]
      /\ backlog = [s \in Servers |-> <<>>] /\ serving = [s \in Servers |-> None]
      /\ step = [c \in Clients |-> "idle"] /\ cconn = [c \in Clients |-> None]
      /\ tries = [c \in Clients |-> 0] /\ value = [c \in Clients |-> None]
  BY Zenon DEF Init, TrackerInit
<1>2. Len(values) = 0 /\ Len(requests) = 0 /\ 1 .. 0 = {}
  BY <1>1
<1>3. \A s \in Servers : backlog[s] = <<>> /\ Len(backlog[s]) = 0
  BY <1>1, Zenon
<1>4. /\ \A x : ~IsOf(x, values) /\ ~Asks(x, requests)
      /\ \A s \in Servers : \A x : ~IsOf(x, backlog[s])
  BY <1>2, <1>3, Zenon DEF IsOf, Asks
<1>5. Types
  <2>1. values \in Seq(Values) /\ requests \in Seq(Requests) /\ Len(requests) <= MaxRequests
    BY <1>1, <1>2 DEF RpcAssumption
  <2>2. backlog \in [Servers -> Seq(Calls)]
    BY <1>1
  <2>3. tries \in [Clients -> 0 .. MaxRetry - 1] /\ unmatched \in [Servers -> 0 .. UnmatchedPings]
    BY <1>1 DEF RpcAssumption
  <2>. QED
    BY <1>1, <2>1, <2>2, <2>3, Zenon DEF Types
<1>6. ListsInv
  <2>1. KeysOnce(values) /\ RequestsOnce(requests)
    BY <1>2, Zenon DEF KeysOnce, RequestsOnce
  <2>2. \A s \in Servers : OpenKeys(values, s) = {}
    BY <1>2, Zenon DEF OpenKeys
  <2>3. IsPending(values, pending)
    BY <1>1, <2>2, Zenon DEF IsPending
  <2>. QED
    BY <1>1, <2>1, <2>3, Zenon DEF ListsInv
<1>7. /\ \A c \in Clients : inbox[c] = None /\ value[c] = None /\ step[c] = "idle"
      /\ \A s \in Servers : matchkey[s] = None /\ serving[s] = None /\ state[s] = "register"
  BY <1>1, Zenon
<1>8. \A c \in Clients : \A s, k : ~At(inbox[c], s, k) /\ ~At(value[c], s, k)
  BY <1>7, Zenon DEF At
<1>9. OffersInv /\ HoldInv
  BY <1>4, <1>8, Zenon DEF OffersInv, HoldInv
<1>10. WaitInv
  BY <1>4, <1>7, Zenon DEF WaitInv
<1>11. CallsInv
  <2>1. \A s \in Servers : Len(backlog[s]) <= Backlog /\ CallsOnce(backlog[s])
    BY <1>2, <1>3 DEF CallsOnce, RpcAssumption
  <2>. QED
    BY <1>4, <2>1, Zenon DEF CallsInv
<1>12. SessionsInv
  BY <1>7, <1>8, Zenon DEF SessionsInv
<1>. QED
  BY <1>5, <1>6, <1>9, <1>10, <1>11, <1>12, Zenon DEF FarmInv
-----------------------------------------------------------------------------
(* None is no server, client or key. *)
LEMMA NoneIsNot ==
  ASSUME RpcAssumption
  PROVE  None \notin Servers /\ None \notin Clients /\ None \notin Keys
  BY Zenon DEF RpcAssumption

(* The invariants, for one server, one call or one offer. *)
LEMMA OfferFacts ==
  ASSUME FarmInv, NEW v \in Values, IsOf(v, values)
  PROVE  /\ v.conn = "open" => state[v.server] = "listen" /\ matchkey[v.server] = v.key
         /\ v.conn = "hung" => matchkey[v.server] # v.key
         /\ \A c \in Clients : ~At(inbox[c], v.server, v.key) /\ ~At(value[c], v.server, v.key)
  BY Zenon DEF FarmInv, OffersInv

(* What the invariant says of one client and its request. *)
LEMMA WaitFacts ==
  ASSUME FarmInv, NEW c \in Clients
  PROVE  /\ Asks(c, requests) => step[c] = "wait" /\ inbox[c] = None /\ cconn[c] = "open"
         /\ inbox[c] # None => step[c] = "wait"
         /\ value[c] # None <=> step[c] \in {"handshake", "session"}
  BY Zenon DEF FarmInv, WaitInv

(* What the invariant says of one call in a server's backlog. *)
LEMMA CallFacts ==
  ASSUME FarmInv, NEW s \in Servers, NEW e \in Calls, IsOf(e, backlog[s])
  PROVE  /\ e.server = s
         /\ e.client # None => step[e.client] = "handshake" /\ At(value[e.client], s, e.key)
         /\ \A d \in Clients : ~At(inbox[d], s, e.key) /\ (At(value[d], s, e.key) => e.client = d)
         /\ \A v \in Values : IsOf(v, values) => ~At(v, s, e.key)
  BY Zenon DEF FarmInv, CallsInv

(* What the invariant says of one server's session. *)
LEMMA SessionFacts ==
  ASSUME FarmInv, NEW s \in Servers
  PROVE  /\ matchkey[s] # None <=> state[s] \in {"listen", "serving"}
         /\ state[s] = "serving" =>
              /\ \A e \in Calls : IsOf(e, backlog[s]) => e.key # matchkey[s]
              /\ \A c \in Clients : /\ ~At(inbox[c], s, matchkey[s])
                                    /\ At(value[c], s, matchkey[s]) => serving[s] = c
         /\ serving[s] # None => /\ state[s] = "serving" /\ step[serving[s]] = "session"
                                 /\ At(value[serving[s]], s, matchkey[s])
         /\ \A c \in Clients : step[c] = "handshake" /\ At(value[c], s, matchkey[s]) =>
              \E e \in Calls : IsOf(e, backlog[s]) /\ e.client = c
  BY Zenon DEF FarmInv, SessionsInv

(* Where a match key is, in the words of the invariant. *)
LEMMA KeyPlaces ==
  ASSUME FarmInv, NEW s, NEW k
  PROVE  /\ \A c : c \in Holders(s, k) <=> c \in Clients /\ At(value[c], s, k)
         /\ \A c : c \in InFlight(s, k) <=> c \in Clients /\ At(inbox[c], s, k)
         /\ \A i : i \in Offers(s, k) <=>
              i \in 1 .. Len(values) /\ values[i].server = s /\ values[i].key = k
<1>1. values \in Seq(Values)
  BY Zenon DEF FarmInv, Types
<1>2. DOMAIN values = 1 .. Len(values)
  BY <1>1
<1>. QED
  BY <1>2, Zenon DEF Holders, InFlight, Offers, At

(* What the invariant says of the variables, of the free list and of the   *)
(* match keys.                                                             *)
LEMMA TypesHold ==
  ASSUME RpcAssumption, FarmInv
  PROVE  TypeOK
<1>2. /\ Types /\ values \in Seq(Values) /\ requests \in Seq(Requests)
      /\ RequestsOnce(requests) /\ IsPending(values, pending)
  BY Zenon DEF FarmInv, Types, ListsInv
<1>3. /\ DOMAIN values = 1 .. Len(values) /\ DOMAIN requests = 1 .. Len(requests)
  BY <1>2
<1>4. ASSUME NEW v \in Range(values)
      PROVE  v.server \in Servers /\ v.key \in Keys /\ v.conn \in {"open", "hung"}
  <2>1. PICK i \in 1 .. Len(values) : v = values[i]
    BY <1>3, Zenon DEF Range
  <2>2. v \in Values
    BY <1>2, <2>1
  <2>. QED
    BY <2>2, Zenon DEF Values
<1>5. ASSUME NEW r \in Range(requests)
      PROVE  IF r.conn = "open" THEN r.client \in Clients ELSE r.client = None
  <2>1. PICK i \in 1 .. Len(requests) : r = requests[i]
    BY <1>3, Zenon DEF Range
  <2>2. r \in Requests
    BY <1>2, <2>1
  <2>3. r.client # None <=> r.conn = "open"
    BY <1>2, <2>1, Zenon DEF RequestsOnce
  <2>. QED
    BY <2>2, <2>3, Zenon DEF Requests
<1>6. pending \in [Servers -> SUBSET Keys]
  BY <1>2, Zenon DEF IsPending
<1>7. value \in [Clients -> [server : Servers, key : Keys] \cup {None}]
  BY <1>2, Zenon DEF Types, Grants
<1>8. \A s \in Servers : Len(backlog[s]) <= Backlog
  BY Zenon DEF FarmInv, CallsInv
<1>. QED
  BY <1>2, <1>4, <1>5, <1>6, <1>7, <1>8, Zenon DEF TypeOK, Types
-----------------------------------------------------------------------------
(* A set without two different elements is empty or has one. *)
LEMMA AtMostOne ==
  ASSUME Library, NEW S, \A x, y \in S : x = y
  PROVE  (S = {} /\ Cardinality(S) = 0) \/ (S # {} /\ Cardinality(S) = 1)
<1>1. CASE S = {}
  BY <1>1, Zenon DEF Library
<1>2. CASE S # {}
  <2>1. PICK x \in S : TRUE
    BY <1>2, Zenon
  <2>2. S = {x}
    BY <2>1, Zenon
  <2>. QED
    BY <1>2, <2>2, Zenon DEF Library
<1>. QED
  BY <1>1, <1>2, Zenon

(* A pending key is one that no client holds. *)
LEMMA PendingHolds ==
  ASSUME Library, RpcAssumption, FarmInv
  PROVE  PendingIsFree
<1>1. SUFFICES ASSUME NEW s \in Servers
               PROVE  LET offers == {i \in DOMAIN values : values[i].server = s /\ values[i].conn = "open"}
                      IN pending[s] = {values[i].key : i \in offers} /\ Cardinality(offers) <= 1
  BY Zenon DEF PendingIsFree
<1>. DEFINE offers == {i \in DOMAIN values : values[i].server = s /\ values[i].conn = "open"}
<1>2. values \in Seq(Values) /\ KeysOnce(values) /\ pending[s] = OpenKeys(values, s)
  BY <1>1, Zenon DEF FarmInv, Types, ListsInv, IsPending
<1>3. DOMAIN values = 1 .. Len(values)
  BY <1>2
<1>4. pending[s] = {values[i].key : i \in offers}
  BY <1>2, <1>3, Zenon DEF OpenKeys
<1>5. ASSUME NEW i \in offers PROVE i \in 1 .. Len(values) /\ values[i].key = matchkey[s]
  <2>1. /\ i \in 1 .. Len(values) /\ values[i] \in Values /\ IsOf(values[i], values)
        /\ values[i].server = s /\ values[i].conn = "open"
    BY <1>2, <1>3 DEF IsOf
  <2>. QED
    BY <1>1, <2>1, OfferFacts, Zenon
<1>6. ASSUME NEW i \in offers, NEW j \in offers PROVE i = j
  <2>1. /\ i \in 1 .. Len(values) /\ j \in 1 .. Len(values)
        /\ values[i].key = values[j].key
    BY <1>5, Zenon
  <2>2. values[i].server = values[j].server
    BY <1>6, Zenon
  <2>. QED
    BY <1>2, <2>1, <2>2, Zenon DEF KeysOnce
<1>. HIDE DEF offers
<1>7. Cardinality(offers) = 0 \/ Cardinality(offers) = 1
  BY <1>6, AtMostOne, Zenon
<1>8. Cardinality(offers) <= 1
  BY <1>7
<1>. QED
  BY <1>4, <1>8, Zenon DEF offers

(* Of three sets with at most one element each, no two of them occupied,   *)
(* the sizes add up to at most one.                                        *)
LEMMA OneOfThree ==
  ASSUME Library, NEW A, NEW B, NEW C,
         \A x, y \in A : x = y, \A x, y \in B : x = y, \A x, y \in C : x = y,
         A = {} \/ B = {}, A = {} \/ C = {}, B = {} \/ C = {}
  PROVE  Cardinality(A) + Cardinality(B) + Cardinality(C) <= 1
<1>1. (A = {} /\ Cardinality(A) = 0) \/ (A # {} /\ Cardinality(A) = 1)
  BY AtMostOne, Zenon
<1>2. (B = {} /\ Cardinality(B) = 0) \/ (B # {} /\ Cardinality(B) = 1)
  BY AtMostOne, Zenon
<1>3. (C = {} /\ Cardinality(C) = 0) \/ (C # {} /\ Cardinality(C) = 1)
  BY AtMostOne, Zenon
<1>. QED
  BY <1>1, <1>2, <1>3

(* A server's current key is in at most one place. *)
LEMMA HolderHolds ==
  ASSUME Library, RpcAssumption, FarmInv
  PROVE  OneHolder
<1>1. SUFFICES ASSUME NEW s \in Servers
               PROVE  /\ \A k \in Keys : Cardinality(Holders(s, k)) + Cardinality(InFlight(s, k))
                                           + Cardinality(Offers(s, k)) <= 1
                      /\ serving[s] # None => Holders(s, matchkey[s]) = {serving[s]}
  BY Zenon DEF OneHolder
<1>2. values \in Seq(Values) /\ KeysOnce(values)
  BY <1>1, Zenon DEF FarmInv, Types, ListsInv
<1>3. ASSUME NEW k \in Keys
      PROVE  Cardinality(Holders(s, k)) + Cardinality(InFlight(s, k))
               + Cardinality(Offers(s, k)) <= 1
  <2>1. /\ \A c : c \in Holders(s, k) <=> c \in Clients /\ At(value[c], s, k)
        /\ \A c : c \in InFlight(s, k) <=> c \in Clients /\ At(inbox[c], s, k)
        /\ \A i : i \in Offers(s, k) <=>
             i \in 1 .. Len(values) /\ values[i].server = s /\ values[i].key = k
    BY <1>1, KeyPlaces, Zenon
  <2>2. \A c, d \in Clients :
          /\ At(inbox[c], s, k) => ~At(value[d], s, k)
          /\ At(inbox[c], s, k) /\ At(inbox[d], s, k) => c = d
          /\ At(value[c], s, k) /\ At(value[d], s, k) => c = d
    BY <1>1, <1>3, Zenon DEF FarmInv, HoldInv
  <2>3. ASSUME NEW i \in Offers(s, k), NEW c \in Clients
        PROVE  ~At(inbox[c], s, k) /\ ~At(value[c], s, k)
    <3>1. i \in 1 .. Len(values) /\ values[i].server = s /\ values[i].key = k
      BY <2>1, Zenon
    <3>2. values[i] \in Values /\ IsOf(values[i], values)
      BY <1>2, <3>1 DEF IsOf
    <3>. QED
      BY <1>1, <3>1, <3>2, OfferFacts, Zenon
  <2>4. \A x, y \in Holders(s, k) : x = y
    BY <2>1, <2>2, Zenon
  <2>5. \A x, y \in InFlight(s, k) : x = y
    BY <2>1, <2>2, Zenon
  <2>6. \A x, y \in Offers(s, k) : x = y
    BY <1>2, <2>1, Zenon DEF KeysOnce
  <2>7. Holders(s, k) = {} \/ InFlight(s, k) = {}
    BY <2>1, <2>2, Zenon
  <2>8. Holders(s, k) = {} \/ Offers(s, k) = {}
    BY <2>1, <2>3, Zenon
  <2>9. InFlight(s, k) = {} \/ Offers(s, k) = {}
    BY <2>1, <2>3, Zenon
  <2>. QED
    BY <2>4, <2>5, <2>6, <2>7, <2>8, <2>9, OneOfThree, Zenon
<1>4. ASSUME serving[s] # None PROVE Holders(s, matchkey[s]) = {serving[s]}
  <2>1. /\ state[s] = "serving" /\ At(value[serving[s]], s, matchkey[s])
        /\ \A c \in Clients : At(value[c], s, matchkey[s]) => serving[s] = c
    BY <1>1, <1>4, SessionFacts, Zenon
  <2>2. serving[s] \in Clients
    BY <1>1, <1>4, Zenon DEF FarmInv, Types
  <2>3. \A c : c \in Holders(s, matchkey[s]) <=> c \in Clients /\ At(value[c], s, matchkey[s])
    BY <1>1, KeyPlaces, Zenon
  <2>4. \A c : c \in Holders(s, matchkey[s]) <=> c = serving[s]
    BY <2>1, <2>2, <2>3, Zenon
  <2>. QED
    BY <2>4, Zenon
<1>. QED
  BY <1>3, <1>4, Zenon
-----------------------------------------------------------------------------
(* connect: the backlog with a new call. *)
LEMMA CallMade ==
  ASSUME NEW q \in Seq(Calls), CallsOnce(q), NEW e \in Calls,
         \A x \in Calls : IsOf(x, q) => x.key # e.key
  PROVE  /\ Append(q, e) \in Seq(Calls) /\ CallsOnce(Append(q, e))
         /\ Len(Append(q, e)) = Len(q) + 1
         /\ \A x : IsOf(x, Append(q, e)) <=> IsOf(x, q) \/ x = e
<1>. DEFINE W == Append(q, e)
<1>1. /\ W \in Seq(Calls) /\ Len(W) = Len(q) + 1 /\ W[Len(q) + 1] = e
      /\ \A i \in 1 .. Len(q) : W[i] = q[i]
  OBVIOUS
<1>. HIDE DEF W
<1>2. Len(q) \in Nat
  OBVIOUS
<1>3. /\ \A i \in 1 .. Len(W) : i \in 1 .. Len(q) \/ i = Len(q) + 1
      /\ \A i \in 1 .. Len(q) : i \in 1 .. Len(W)
      /\ Len(q) + 1 \in 1 .. Len(W)
  <2>1. Len(W) = Len(q) + 1
    BY <1>1, Zenon
  <2>. QED
    BY <1>2, <2>1
<1>4. ASSUME NEW i \in 1 .. Len(q) PROVE q[i].key # e.key
  <2>1. q[i] \in Calls /\ IsOf(q[i], q)
    BY DEF IsOf
  <2>. QED
    BY <2>1, Zenon
<1>5. CallsOnce(W)
  <2>1. SUFFICES ASSUME NEW i \in 1 .. Len(W), NEW j \in 1 .. Len(W), W[i].key = W[j].key
                 PROVE  i = j
    BY Zenon DEF CallsOnce
  <2>2. CASE i \in 1 .. Len(q) /\ j \in 1 .. Len(q)
    BY <1>1, <2>1, <2>2, Zenon DEF CallsOnce
  <2>3. CASE i = Len(q) + 1 /\ j \in 1 .. Len(q)
    BY <1>1, <1>4, <2>1, <2>3, Zenon
  <2>4. CASE i \in 1 .. Len(q) /\ j = Len(q) + 1
    BY <1>1, <1>4, <2>1, <2>4, Zenon
  <2>. QED
    BY <1>3, <2>2, <2>3, <2>4, Zenon
<1>6. ASSUME NEW x, IsOf(x, W) PROVE IsOf(x, q) \/ x = e
  BY <1>1, <1>3, <1>6, Zenon DEF IsOf
<1>7. ASSUME NEW x, IsOf(x, q) \/ x = e PROVE IsOf(x, W)
  BY <1>1, <1>3, <1>7, Zenon DEF IsOf
<1>. QED
  BY <1>1, <1>5, <1>6, <1>7, Zenon DEF W

(* The first call is taken from the backlog. *)
LEMMA BacklogTaken ==
  ASSUME FarmInv, NEW s \in Servers, backlog[s] # <<>>,
         backlog' = [backlog EXCEPT ![s] = Tail(@)]
  PROVE  /\ backlog' \in [Servers -> Seq(Calls)] /\ Head(backlog[s]) \in Calls
         /\ IsOf(Head(backlog[s]), backlog[s])
         /\ \A t \in Servers : Len(backlog'[t]) <= Backlog /\ CallsOnce(backlog'[t])
         /\ \A t \in Servers : t # s => backlog'[t] = backlog[t]
         /\ \A x : IsOf(x, backlog[s]) => x = Head(backlog[s]) \/ IsOf(x, backlog'[s])
         /\ \A x : IsOf(x, backlog'[s]) => IsOf(x, backlog[s]) /\ x.key # Head(backlog[s]).key
<1>CallTaken. ASSUME NEW q \in Seq(Calls), q # <<>>, CallsOnce(q)
              PROVE  /\ Head(q) \in Calls /\ IsOf(Head(q), q)
                     /\ Tail(q) \in Seq(Calls) /\ Len(Tail(q)) <= Len(q) /\ CallsOnce(Tail(q))
                     /\ \A x : IsOf(x, q) => x = Head(q) \/ IsOf(x, Tail(q))
                     /\ \A x : IsOf(x, Tail(q)) => IsOf(x, q) /\ x.key # Head(q).key
  <2>. USE <1>CallTaken
  <2>. DEFINE t == Tail(q)
  <2>1. /\ Head(q) \in Calls /\ t \in Seq(Calls) /\ Len(t) = Len(q) - 1
        /\ \A i \in 1 .. Len(t) : t[i] = q[i + 1]
    OBVIOUS
  <2>2. Len(q) \in Nat \ {0}
    OBVIOUS
  <2>3. Head(q) = q[1]
    OBVIOUS
  <2>. HIDE DEF t
  <2>4. /\ \A i \in 1 .. Len(t) : i + 1 \in 1 .. Len(q) /\ i + 1 # 1
        /\ 1 \in 1 .. Len(q) /\ Len(t) <= Len(q)
        /\ \A p \in 1 .. Len(q) : p # 1 => p - 1 \in 1 .. Len(t) /\ (p - 1) + 1 = p
    <3>1. Len(t) = Len(q) - 1
      BY <2>1, Zenon
    <3>. QED
      BY <2>2, <3>1
  <2>5. CallsOnce(t)
    <3>1. SUFFICES ASSUME NEW i \in 1 .. Len(t), NEW j \in 1 .. Len(t), t[i].key = t[j].key
                   PROVE  i = j
      BY Zenon DEF CallsOnce
    <3>2. i + 1 = j + 1
      BY <2>1, <2>4, <3>1, ZenonT(40) DEF CallsOnce
    <3>. QED
      BY <3>2
  <2>6. ASSUME NEW x, IsOf(x, q) PROVE x = Head(q) \/ IsOf(x, t)
    <3>1. PICK p \in 1 .. Len(q) : x = q[p]
      BY <2>6, Zenon DEF IsOf
    <3>2. CASE p = 1
      BY <2>3, <3>1, <3>2, Zenon
    <3>3. CASE p # 1
      <4>1. p - 1 \in 1 .. Len(t) /\ (p - 1) + 1 = p
        BY <2>4, <3>3, Zenon
      <4>2. t[p - 1] = q[p]
        BY <2>1, <4>1, Zenon
      <4>. QED
        BY <3>1, <4>1, <4>2, Zenon DEF IsOf
    <3>. QED
      BY <3>2, <3>3, Zenon
  <2>7. ASSUME NEW x, IsOf(x, t) PROVE IsOf(x, q) /\ x.key # Head(q).key
    <3>1. PICK i \in 1 .. Len(t) : x = t[i]
      BY <2>7, Zenon DEF IsOf
    <3>2. i + 1 \in 1 .. Len(q) /\ i + 1 # 1 /\ 1 \in 1 .. Len(q) /\ x = q[i + 1]
      BY <2>1, <2>4, <3>1, Zenon
    <3>3. q[i + 1].key # q[1].key
      BY <3>2, Zenon DEF CallsOnce
    <3>. QED
      BY <2>3, <3>2, <3>3, Zenon DEF IsOf
  <2>8. IsOf(Head(q), q)
    BY <2>3, <2>4, Zenon DEF IsOf
  <2>. QED
    BY <2>1, <2>4, <2>5, <2>6, <2>7, <2>8, Zenon DEF t
<1>1. backlog \in [Servers -> Seq(Calls)] /\ backlog[s] \in Seq(Calls)
  BY Zenon DEF FarmInv, Types
<1>2. \A t \in Servers : Len(backlog[t]) <= Backlog /\ CallsOnce(backlog[t])
  BY Zenon DEF FarmInv, CallsInv
<1>. DEFINE q == backlog[s]
<1>3. CallsOnce(q) /\ q \in Seq(Calls) /\ q # <<>>
  BY <1>1, <1>2, Zenon
<1>4. backlog'[s] = Tail(q) /\ \A t \in Servers : t # s => backlog'[t] = backlog[t]
  BY <1>1, Zenon
<1>. HIDE DEF q
<1>5. /\ Head(q) \in Calls /\ IsOf(Head(q), q)
      /\ Tail(q) \in Seq(Calls) /\ Len(Tail(q)) <= Len(q) /\ CallsOnce(Tail(q))
      /\ \A x : IsOf(x, q) => x = Head(q) \/ IsOf(x, Tail(q))
      /\ \A x : IsOf(x, Tail(q)) => IsOf(x, q) /\ x.key # Head(q).key
  BY <1>3, <1>CallTaken, Zenon
<1>6. backlog' \in [Servers -> Seq(Calls)]
  <2>1. Tail(backlog[s]) \in Seq(Calls)
    BY <1>5, Zenon DEF q
  <2>. QED
    BY <1>1, <2>1, Zenon
<1>7. Len(Tail(q)) <= Backlog
  <2>1. Len(q) <= Backlog
    BY <1>2, Zenon DEF q
  <2>2. Len(q) \in Nat /\ Len(Tail(q)) \in Nat /\ Len(Tail(q)) <= Len(q)
    BY <1>3, <1>5
  <2>3. Backlog \in Nat
    BY RpcAssumption, Zenon DEF RpcAssumption
  <2>. QED
    BY <2>1, <2>2, <2>3
<1>8. ASSUME NEW t \in Servers PROVE Len(backlog'[t]) <= Backlog /\ CallsOnce(backlog'[t])
  <2>1. CASE t = s
    BY <1>4, <1>5, <1>7, <2>1, Zenon
  <2>2. CASE t # s
    BY <1>2, <1>4, <2>2, Zenon
  <2>. QED
    BY <2>1, <2>2, Zenon
<1>. QED
  BY <1>4, <1>5, <1>6, <1>8, Zenon DEF q

(* A call in a backlog is made by a client that waits for its answer there. *)
LEMMA CallOf ==
  ASSUME FarmInv, RpcAssumption, NEW t \in Servers, NEW e \in Calls, IsOf(e, backlog[t]),
         NEW c \in Clients, e.client = c
  PROVE  step[c] = "handshake" /\ value[c].server = t /\ value[c].key = e.key
<1>1. c # None
  BY NoneIsNot, Zenon
<1>. QED
  BY <1>1, Zenon DEF FarmInv, CallsInv, At

(* A function on 1 .. n is a sequence of length n. *)
LEMMA FunctionSeq ==
  ASSUME NEW S, NEW n \in Nat, NEW f \in [1 .. n -> S]
  PROVE  f \in Seq(S) /\ Len(f) = n
<1>1. f \in Seq(S)
  OBVIOUS
<1>2. DOMAIN f = 1 .. Len(f) /\ Len(f) \in Nat
  BY <1>1
<1>3. 1 .. Len(f) = 1 .. n
  BY <1>2, Zenon
<1>. QED
  BY <1>1, <1>2, <1>3
-----------------------------------------------------------------------------
(* A client hangs up: its calls stay in the backlogs. *)
Orphan(e, c) == IF e.client = c THEN [e EXCEPT !.client = None] ELSE e

Orphaned(q, c) == [i \in DOMAIN q |-> Orphan(q[i], c)]

(* A call whose client is gone. *)
LEMMA OrphanCall ==
  ASSUME NEW e \in Calls, NEW c
  PROVE  /\ Orphan(e, c) \in Calls /\ Orphan(e, c).server = e.server /\ Orphan(e, c).key = e.key
         /\ Orphan(e, c).client = IF e.client = c THEN None ELSE e.client
  BY Zenon DEF Orphan, Calls

(* The calls of a backlog after their client is gone. *)
LEMMA OrphanedCalls ==
  ASSUME NEW q \in Seq(Calls), CallsOnce(q), NEW c
  PROVE  /\ Orphaned(q, c) \in Seq(Calls) /\ CallsOnce(Orphaned(q, c))
         /\ Len(Orphaned(q, c)) = Len(q)
         /\ \A x : IsOf(x, Orphaned(q, c)) <=> \E e \in Calls : IsOf(e, q) /\ x = Orphan(e, c)
<1>. DEFINE W == Orphaned(q, c)
<1>1. Len(q) \in Nat /\ DOMAIN q = 1 .. Len(q)
  OBVIOUS
<1>2. ASSUME NEW i \in 1 .. Len(q) PROVE q[i] \in Calls /\ IsOf(q[i], q)
  BY DEF IsOf
<1>3. \A i \in 1 .. Len(q) : W[i] = Orphan(q[i], c)
  BY <1>1, Zenon DEF Orphaned
<1>4. W \in [1 .. Len(q) -> Calls]
  <2>1. ASSUME NEW i \in 1 .. Len(q) PROVE Orphan(q[i], c) \in Calls
    BY <1>2, OrphanCall, Zenon
  <2>. QED
    BY <1>1, <2>1, Zenon DEF Orphaned
<1>. HIDE DEF W
<1>5. W \in Seq(Calls) /\ Len(W) = Len(q)
  BY <1>1, <1>4, FunctionSeq, Zenon
<1>6. CallsOnce(W)
  <2>1. SUFFICES ASSUME NEW i \in 1 .. Len(q), NEW j \in 1 .. Len(q), W[i].key = W[j].key
                 PROVE  i = j
    BY <1>5, Zenon DEF CallsOnce
  <2>2. ASSUME NEW p \in 1 .. Len(q) PROVE W[p].key = q[p].key
    <3>1. Orphan(q[p], c).key = q[p].key
      BY <1>2, OrphanCall, Zenon
    <3>. QED
      BY <1>3, <3>1, Zenon
  <2>. QED
    BY <2>1, <2>2, Zenon DEF CallsOnce
<1>7. ASSUME NEW x, IsOf(x, W) PROVE \E e \in Calls : IsOf(e, q) /\ x = Orphan(e, c)
  BY <1>2, <1>3, <1>5, <1>7, Zenon DEF IsOf
<1>8. ASSUME NEW e \in Calls, IsOf(e, q) PROVE IsOf(Orphan(e, c), W)
  BY <1>3, <1>5, <1>8, Zenon DEF IsOf
<1>. QED
  BY <1>5, <1>6, <1>7, <1>8, Zenon DEF W

Opened(vals, s, k) ==
  \E v \in Values : IsOf(v, vals) /\ v.server = s /\ v.conn = "open" /\ v.key = k

(* The keys of the open connections, element by element. *)
LEMMA KeysOpened ==
  ASSUME NEW vals \in Seq(Values)
  PROVE  \A s, k : k \in OpenKeys(vals, s) <=> Opened(vals, s, k)
<1>OpenKeysOf. ASSUME NEW vals0 \in Seq(Values), NEW s
               PROVE  /\ OpenKeys(vals0, s) \subseteq Keys
                      /\ \A k : k \in OpenKeys(vals0, s) <=>
                           \E v \in Values : IsOf(v, vals0) /\ v.server = s /\ v.conn = "open" /\ v.key = k
  <2>1. ASSUME NEW k \in OpenKeys(vals0, s)
        PROVE  \E v \in Values : IsOf(v, vals0) /\ v.server = s /\ v.conn = "open" /\ v.key = k
    <3>1. PICK j \in 1 .. Len(vals0) : vals0[j].server = s /\ vals0[j].conn = "open" /\ vals0[j].key = k
      BY Zenon DEF OpenKeys
    <3>2. vals0[j] \in Values /\ IsOf(vals0[j], vals0)
      BY DEF IsOf
    <3>. QED
      BY <3>1, <3>2, Zenon
  <2>2. ASSUME NEW v \in Values, IsOf(v, vals0), v.server = s, v.conn = "open"
        PROVE  v.key \in OpenKeys(vals0, s)
    <3>1. PICK j \in 1 .. Len(vals0) : v = vals0[j]
      BY <2>2, Zenon DEF IsOf
    <3>2. vals0[j].server = s /\ vals0[j].conn = "open" /\ vals0[j].key = v.key
      BY <2>2, <3>1, Zenon
    <3>. QED
      BY <3>2, Zenon DEF OpenKeys
  <2>3. OpenKeys(vals0, s) \subseteq Keys
    BY <2>1, Zenon DEF Values
  <2>. QED
    BY <2>1, <2>2, <2>3, Zenon
<1>1. ASSUME NEW s, NEW k PROVE k \in OpenKeys(vals, s) <=> Opened(vals, s, k)
  BY <1>OpenKeysOf DEF Opened
<1>. QED
  BY <1>1, Zenon

(* A server hangs up: the free list as the tracker sees it. *)
Hung(v, s) == IF v.server = s THEN [v EXCEPT !.conn = "hung"] ELSE v

AllHung(V, s) == [i \in DOMAIN V |-> Hung(V[i], s)]

(* An offer whose server has hung up. *)
LEMMA HungValue ==
  ASSUME NEW v \in Values, NEW s
  PROVE  /\ Hung(v, s) \in Values /\ Hung(v, s).server = v.server /\ Hung(v, s).key = v.key
         /\ Hung(v, s).conn = IF v.server = s THEN "hung" ELSE v.conn
  BY Zenon DEF Hung, Values

(* A server closes its connection to the tracker. *)
LEMMA ServerHangsUpEffect ==
  ASSUME FarmInv, RpcAssumption, NEW s \in Servers, ServerHangsUp(s), requests' = requests
  PROVE  /\ values' \in Seq(Values) /\ ListsInv'
         /\ \A x : IsOf(x, values') <=> \E v \in Values : IsOf(v, values) /\ x = Hung(v, s)
<1>HungUp. ASSUME NEW V \in Seq(Values), KeysOnce(V), NEW s0
           PROVE  /\ AllHung(V, s0) \in Seq(Values) /\ KeysOnce(AllHung(V, s0))
                  /\ AllHung(V, s0) = <<>> <=> V = <<>>
                  /\ \A x : IsOf(x, AllHung(V, s0)) <=> \E v \in Values : IsOf(v, V) /\ x = Hung(v, s0)
  <2>. USE <1>HungUp
  <2>. DEFINE W == AllHung(V, s0)
  <2>1. Len(V) \in Nat /\ DOMAIN V = 1 .. Len(V)
    OBVIOUS
  <2>2. ASSUME NEW i \in 1 .. Len(V) PROVE V[i] \in Values /\ IsOf(V[i], V)
    BY DEF IsOf
  <2>3. \A i \in 1 .. Len(V) : W[i] = Hung(V[i], s0)
    BY <2>1, Zenon DEF AllHung
  <2>4. W \in [1 .. Len(V) -> Values]
    <3>1. ASSUME NEW i \in 1 .. Len(V) PROVE Hung(V[i], s0) \in Values
      BY <2>2, HungValue, Zenon
    <3>. QED
      BY <2>1, <3>1, Zenon DEF AllHung
  <2>. HIDE DEF W
  <2>5. W \in Seq(Values) /\ Len(W) = Len(V)
    BY <2>1, <2>4, FunctionSeq, Zenon
  <2>6. KeysOnce(W)
    <3>1. SUFFICES ASSUME NEW i \in 1 .. Len(V), NEW j \in 1 .. Len(V),
                          W[i].server = W[j].server, W[i].key = W[j].key
                   PROVE  i = j
      BY <2>5, Zenon DEF KeysOnce
    <3>2. V[i].server = V[j].server /\ V[i].key = V[j].key
      <4>1. ASSUME NEW p \in 1 .. Len(V) PROVE W[p].server = V[p].server /\ W[p].key = V[p].key
        <5>1. Hung(V[p], s0).server = V[p].server /\ Hung(V[p], s0).key = V[p].key
          BY <2>2, HungValue, Zenon
        <5>. QED
          BY <2>3, <5>1, Zenon
      <4>. QED
        BY <3>1, <4>1, Zenon
    <3>. QED
      BY <3>2, Zenon DEF KeysOnce
  <2>7. ASSUME NEW x, IsOf(x, W) PROVE \E v \in Values : IsOf(v, V) /\ x = Hung(v, s0)
    BY <2>2, <2>3, <2>5, <2>7, Zenon DEF IsOf
  <2>8. ASSUME NEW v \in Values, IsOf(v, V) PROVE IsOf(Hung(v, s0), W)
    BY <2>3, <2>5, <2>8, Zenon DEF IsOf
  <2>9. W = <<>> <=> V = <<>>
    <3>1. (W = <<>> <=> Len(W) = 0) /\ (V = <<>> <=> Len(V) = 0)
      BY <2>5
    <3>. QED
      BY <2>5, <3>1, Zenon
  <2>. QED
    BY <2>5, <2>6, <2>7, <2>8, <2>9, Zenon DEF W
<1>1. values' = AllHung(values, s) /\ pending' = [pending EXCEPT ![s] = {}]
  BY Zenon DEF ServerHangsUp, AllHung, Hung
<1>2. /\ values \in Seq(Values) /\ KeysOnce(values) /\ IsPending(values, pending)
      /\ RequestsOnce(requests) /\ (values = <<>> \/ requests = <<>>)
  BY Zenon DEF FarmInv, Types, ListsInv
<1>3. /\ values' \in Seq(Values) /\ KeysOnce(values')
      /\ values' = <<>> <=> values = <<>>
      /\ \A x : IsOf(x, values') <=> \E v \in Values : IsOf(v, values) /\ x = Hung(v, s)
  <2>1. /\ AllHung(values, s) \in Seq(Values) /\ KeysOnce(AllHung(values, s))
        /\ AllHung(values, s) = <<>> <=> values = <<>>
        /\ \A x : IsOf(x, AllHung(values, s)) <=>
             \E v \in Values : IsOf(v, values) /\ x = Hung(v, s)
    BY <1>2, <1>HungUp, Zenon
  <2>. QED
    BY <1>1, <2>1, Zenon
<1>4. \A t, k : /\ k \in OpenKeys(values, t) <=> Opened(values, t, k)
                /\ k \in OpenKeys(values', t) <=> Opened(values', t, k)
  BY <1>2, <1>3, KeysOpened, Zenon
<1>5. ASSUME NEW t \in Servers, NEW k, k \in OpenKeys(values', t)
      PROVE  t # s /\ k \in OpenKeys(values, t)
  <2>1. PICK v \in Values : IsOf(v, values') /\ v.server = t /\ v.conn = "open" /\ v.key = k
    <3>1. Opened(values', t, k)
      BY <1>4, <1>5, Zenon
    <3>. QED
      BY <3>1, Zenon DEF Opened
  <2>2. PICK w \in Values : IsOf(w, values) /\ v = Hung(w, s)
    BY <1>3, <2>1, Zenon
  <2>3. /\ v.server = w.server /\ v.key = w.key
        /\ v.conn = IF w.server = s THEN "hung" ELSE w.conn
    BY <2>2, HungValue, Zenon
  <2>4. t # s /\ w.conn = "open"
    BY <2>1, <2>3, Zenon
  <2>. QED
    BY <1>4, <2>1, <2>2, <2>3, <2>4, Zenon DEF Opened
<1>6. ASSUME NEW t \in Servers, t # s, NEW k, k \in OpenKeys(values, t)
      PROVE  k \in OpenKeys(values', t)
  <2>1. PICK w \in Values : IsOf(w, values) /\ w.server = t /\ w.conn = "open" /\ w.key = k
    <3>1. Opened(values, t, k)
      BY <1>4, <1>6, Zenon
    <3>. QED
      BY <3>1, Zenon DEF Opened
  <2>2. /\ Hung(w, s) \in Values /\ Hung(w, s).server = t /\ Hung(w, s).key = k
        /\ Hung(w, s).conn = "open" /\ IsOf(Hung(w, s), values')
    BY <1>3, <1>6, <2>1, HungValue, Zenon
  <2>. QED
    BY <1>4, <2>2, Zenon DEF Opened
<1>7. IsPending(values', pending')
  <2>1. pending \in [Servers -> SUBSET Keys] /\ \A t \in Servers : pending[t] = OpenKeys(values, t)
    BY <1>2, Zenon DEF IsPending
  <2>2. pending' \in [Servers -> SUBSET Keys]
    BY <1>1, <2>1, Zenon
  <2>3. ASSUME NEW t \in Servers PROVE pending'[t] = OpenKeys(values', t)
    <3>1. CASE t = s
      <4>1. pending'[t] = {}
        BY <1>1, <2>1, <3>1, Zenon
      <4>. QED
        BY <1>5, <3>1, <4>1, Zenon
    <3>2. CASE t # s
      <4>1. pending'[t] = OpenKeys(values, t)
        BY <1>1, <2>1, <3>2, Zenon
      <4>. QED
        BY <1>5, <1>6, <3>2, <4>1, Zenon
    <3>. QED
      BY <3>1, <3>2, Zenon
  <2>. QED
    BY <2>2, <2>3, Zenon DEF IsPending
<1>. QED
  BY <1>2, <1>3, <1>7, Zenon DEF ListsInv
-----------------------------------------------------------------------------
(* A step that only takes away: every client goes on as it was or is free, *)
(* every server goes on as it was or has no match key, and the offers and  *)
(* the calls that are left were there before.                              *)
ClientKept(c) ==
  /\ step'[c] = step[c] /\ value'[c] = value[c] /\ inbox'[c] = inbox[c]
  /\ Asks(c, requests') => Asks(c, requests) /\ cconn'[c] = cconn[c]

ClientFreed(c) ==
  /\ step'[c] \in {"idle", "request"} /\ value'[c] = None /\ inbox'[c] = None
  /\ ~Asks(c, requests')

ServerKept(s) ==
  /\ state'[s] = state[s] /\ matchkey'[s] = matchkey[s]
  /\ serving'[s] = serving[s] \/ (serving'[s] = None /\ ClientFreed(serving[s]))
  /\ serving'[s] # None => ClientKept(serving'[s])
  /\ \A e \in Calls :
       /\ IsOf(e, backlog[s]) /\ e.key = matchkey[s] /\ e.client # None /\ ClientKept(e.client)
       => IsOf(e, backlog'[s])

ServerFreed(s) ==
  state'[s] \in {"register", "dead"} /\ matchkey'[s] = None /\ serving'[s] = None

OfferLeft(v, w) ==
  /\ IsOf(w, values) /\ w.server = v.server /\ w.key = v.key
  /\ \/ v.conn = w.conn /\ ServerKept(v.server)
     \/ v.conn = "hung" /\ matchkey'[v.server] = None

CallLeft(e, f, s) ==
  /\ IsOf(f, backlog[s]) /\ f.server = e.server /\ f.key = e.key
  /\ e.client # None => e.client = f.client /\ ClientKept(e.client)
  /\ e.client = None /\ f.client # None => ClientFreed(f.client)

Fewer ==
  /\ \A c \in Clients : ClientKept(c) \/ ClientFreed(c)
  /\ \A s \in Servers : ServerKept(s) \/ ServerFreed(s)
  /\ \A v \in Values : IsOf(v, values') => \E w \in Values : OfferLeft(v, w)
  /\ \A s \in Servers : \A e \in Calls : IsOf(e, backlog'[s]) => \E f \in Calls : CallLeft(e, f, s)

(* A client hangs up: its request in the queue. *)
Gone(r, c) == IF r.client = c THEN [r EXCEPT !.client = None, !.conn = "hung"] ELSE r

AllGone(R, c) == [i \in DOMAIN R |-> Gone(R[i], c)]

(* close of a client's connection: its request stays in the queue. *)
Closed(R, i) == [R EXCEPT ![i].conn = "closed"]

(* The steps that ask the tracker for nothing. *)
QuietStep ==
  \/ \E s \in Servers : \/ TrackerLost(s) \/ AcceptMatch(s) \/ AcceptMismatch(s) \/ AcceptFails(s)
                        \/ SessionEnds(s) \/ ServerDies(s) \/ ServerGivesUp(s) \/ ServerStarts(s)
  \/ \E c \in Clients : \/ TrackerReset(c) \/ Dial(c) \/ Refused(c)
                        \/ GiveUp(c) \/ Kill(c) \/ EndSession(c)
  \/ (\E i \in DOMAIN requests : CloseClient(i)) /\ UNCHANGED <<serverVars, clientVars>>
  \/ KillTracker \/ RestartTracker \/ UNCHANGED vars

(* They leave the farm in its invariant. *)
LEMMA QuietGoesOn ==
  ASSUME RpcAssumption, FarmInv
  PROVE  QuietStep => FarmInv'
(* Steps that the lists, the servers and the clients do not see. *)
<1>NothingChanged. ASSUME UNCHANGED <<trackerVars, serverVars, clientVars>>
                   PROVE  FarmInv'
  <2>. USE <1>NothingChanged
  <2>1. /\ values' = values /\ requests' = requests /\ pending' = pending /\ inbox' = inbox
        /\ state' = state /\ sconn' = sconn /\ matchkey' = matchkey /\ unmatched' = unmatched
        /\ backlog' = backlog /\ serving' = serving
        /\ step' = step /\ cconn' = cconn /\ tries' = tries /\ value' = value
    BY Zenon DEF trackerVars, serverVars, clientVars
  <2>2. Types' /\ ListsInv' /\ WaitInv'
    BY <2>1, Zenon DEF FarmInv, Types, ListsInv, WaitInv
  <2>3. OffersInv' /\ HoldInv'
    BY <2>1 DEF FarmInv, OffersInv, HoldInv
  <2>4. CallsInv'
    BY <2>1, Zenon DEF FarmInv, CallsInv
  <2>5. SessionsInv'
    BY <2>1, SMT, SMTT(20) DEF FarmInv, SessionsInv
  <2>. QED
    BY <2>2, <2>3, <2>4, <2>5, Zenon DEF FarmInv
<1>Losing. ASSUME Fewer,
                  \A s \in Servers : Len(backlog'[s]) <= Backlog /\ CallsOnce(backlog'[s])
           PROVE  OffersInv' /\ WaitInv' /\ HoldInv' /\ CallsInv' /\ SessionsInv'
  <2>. USE <1>Losing
  <2>1. ASSUME NEW c \in Clients, NEW s, NEW k
        PROVE  /\ At(inbox'[c], s, k) => At(inbox[c], s, k) /\ ClientKept(c)
               /\ At(value'[c], s, k) => At(value[c], s, k) /\ ClientKept(c)
    <3>1. CASE ClientKept(c)
      BY <3>1, Zenon DEF ClientKept
    <3>2. CASE ClientFreed(c)
      BY <3>2, Zenon DEF ClientFreed, At
    <3>. QED
      BY <3>1, <3>2, Zenon DEF Fewer
  <2>2. OffersInv'
    <3>1. SUFFICES ASSUME NEW v \in Values, IsOf(v, values')
                   PROVE  /\ v.conn = "open" => state'[v.server] = "listen" /\ matchkey'[v.server] = v.key
                          /\ v.conn = "hung" => matchkey'[v.server] # v.key
                          /\ \A c \in Clients : /\ ~At(inbox'[c], v.server, v.key)
                                                /\ ~At(value'[c], v.server, v.key)
      BY Zenon DEF OffersInv
    <3>2. PICK w \in Values : OfferLeft(v, w)
      BY <3>1, Zenon DEF Fewer
    <3>3. /\ w.conn = "open" => state[w.server] = "listen" /\ matchkey[w.server] = w.key
          /\ w.conn = "hung" => matchkey[w.server] # w.key
          /\ \A c \in Clients : ~At(inbox[c], w.server, w.key) /\ ~At(value[c], w.server, w.key)
      BY <3>2, Zenon DEF FarmInv, OffersInv, OfferLeft
    <3>4. \A c \in Clients : ~At(inbox'[c], v.server, v.key) /\ ~At(value'[c], v.server, v.key)
      BY <2>1, <3>2, <3>3, Zenon DEF OfferLeft
    <3>5. CASE v.conn = w.conn /\ ServerKept(v.server)
      BY <3>2, <3>3, <3>4, <3>5, Zenon DEF OfferLeft, ServerKept
    <3>6. CASE v.conn = "hung" /\ matchkey'[v.server] = None
      <4>1. v.key \in Keys
        BY Zenon DEF Values
      <4>2. v.key # None
        BY <4>1, NoneIsNot, Zenon
      <4>. QED
        BY <3>4, <3>6, <4>2, Zenon
    <3>. QED
      BY <3>2, <3>5, <3>6, Zenon DEF OfferLeft
  <2>3. WaitInv'
    <3>1. SUFFICES ASSUME NEW c \in Clients
                   PROVE  /\ Asks(c, requests') =>
                               step'[c] = "wait" /\ inbox'[c] = None /\ cconn'[c] = "open"
                          /\ inbox'[c] # None => step'[c] = "wait"
                          /\ value'[c] # None <=> step'[c] \in {"handshake", "session"}
      BY Zenon DEF WaitInv
    <3>2. /\ Asks(c, requests) => step[c] = "wait" /\ inbox[c] = None /\ cconn[c] = "open"
          /\ inbox[c] # None => step[c] = "wait"
          /\ value[c] # None <=> step[c] \in {"handshake", "session"}
      BY Zenon DEF FarmInv, WaitInv
    <3>3. CASE ClientKept(c)
      BY <3>2, <3>3, Zenon DEF ClientKept
    <3>4. CASE ClientFreed(c)
      BY <3>4, Zenon DEF ClientFreed
    <3>. QED
      BY <3>3, <3>4, Zenon DEF Fewer
  <2>4. HoldInv'
    <3>1. SUFFICES ASSUME NEW c \in Clients, NEW d \in Clients, NEW s \in Servers, NEW k \in Keys
                   PROVE  /\ At(inbox'[c], s, k) => ~At(value'[d], s, k)
                          /\ At(inbox'[c], s, k) /\ At(inbox'[d], s, k) => c = d
                          /\ At(value'[c], s, k) /\ At(value'[d], s, k) => c = d
      BY Zenon DEF HoldInv
    <3>2. /\ At(inbox[c], s, k) => ~At(value[d], s, k)
          /\ At(inbox[c], s, k) /\ At(inbox[d], s, k) => c = d
          /\ At(value[c], s, k) /\ At(value[d], s, k) => c = d
      BY Zenon DEF FarmInv, HoldInv
    <3>. QED
      BY <2>1, <3>2, Zenon
  <2>5. CallsInv'
    <3>1. SUFFICES ASSUME NEW s \in Servers, NEW e \in Calls, IsOf(e, backlog'[s])
                   PROVE  /\ e.server = s
                          /\ e.client # None =>
                               step'[e.client] = "handshake" /\ At(value'[e.client], s, e.key)
                          /\ \A d \in Clients : /\ ~At(inbox'[d], s, e.key)
                                                /\ At(value'[d], s, e.key) => e.client = d
                          /\ \A v \in Values : IsOf(v, values') => ~At(v, s, e.key)
      BY Zenon DEF CallsInv
    <3>2. PICK f \in Calls : CallLeft(e, f, s)
      BY <3>1, Zenon DEF Fewer
    <3>3. /\ f.server = s
          /\ f.client # None => step[f.client] = "handshake" /\ At(value[f.client], s, f.key)
          /\ \A d \in Clients : ~At(inbox[d], s, f.key) /\ (At(value[d], s, f.key) => f.client = d)
          /\ \A v \in Values : IsOf(v, values) => ~At(v, s, f.key)
      BY <3>2, Zenon DEF FarmInv, CallsInv, CallLeft
    <3>4. e.client # None => step'[e.client] = "handshake" /\ At(value'[e.client], s, e.key)
      BY <3>2, <3>3, Zenon DEF CallLeft, ClientKept
    <3>5. ASSUME NEW d \in Clients, At(value'[d], s, e.key) PROVE e.client = d
      <4>1. f.client = d
        BY <2>1, <3>2, <3>3, <3>5, Zenon DEF CallLeft
      <4>2. d # None
        BY NoneIsNot, Zenon
      <4>3. ~ClientFreed(d)
        BY <3>5, Zenon DEF ClientFreed, At
      <4>4. e.client # None
        BY <3>2, <4>1, <4>2, <4>3, Zenon DEF CallLeft
      <4>. QED
        BY <3>2, <4>1, <4>4, Zenon DEF CallLeft
    <3>6. ASSUME NEW d \in Clients PROVE ~At(inbox'[d], s, e.key)
      BY <2>1, <3>2, <3>3, Zenon DEF CallLeft
    <3>7. ASSUME NEW v \in Values, IsOf(v, values') PROVE ~At(v, s, e.key)
      <4>1. PICK w \in Values : OfferLeft(v, w)
        BY <3>7, Zenon DEF Fewer
      <4>2. w # None
        BY Zenon DEF RpcAssumption, Values
      <4>. QED
        BY <3>2, <3>3, <4>1, <4>2, Zenon DEF OfferLeft, CallLeft, At
    <3>8. e.server = s
      BY <3>2, <3>3, Zenon DEF CallLeft
    <3>. QED
      BY <3>4, <3>5, <3>6, <3>7, <3>8, Zenon
  <2>6. SessionsInv'
    <3>1. SUFFICES ASSUME NEW s \in Servers
            PROVE /\ matchkey'[s] # None <=> state'[s] \in {"listen", "serving"}
                  /\ state'[s] = "serving" =>
                       /\ \A e \in Calls : IsOf(e, backlog'[s]) => e.key # matchkey'[s]
                       /\ \A c \in Clients : /\ ~At(inbox'[c], s, matchkey'[s])
                                             /\ At(value'[c], s, matchkey'[s]) => serving'[s] = c
                  /\ serving'[s] # None =>
                       /\ state'[s] = "serving" /\ step'[serving'[s]] = "session"
                       /\ At(value'[serving'[s]], s, matchkey'[s])
                  /\ \A c \in Clients : step'[c] = "handshake" /\ At(value'[c], s, matchkey'[s]) =>
                       \E e \in Calls : IsOf(e, backlog'[s]) /\ e.client = c
      BY Zenon DEF SessionsInv
    <3>2. CASE ServerFreed(s)
      <4>1. ASSUME NEW c \in Clients PROVE ~At(value'[c], s, None)
        <5>1. ASSUME At(value'[c], s, None) PROVE FALSE
          <6>1. At(value[c], s, None)
            BY <2>1, <5>1, Zenon
          <6>2. value[c] \in Grants \cup {None}
            BY Zenon DEF FarmInv, Types
          <6>3. value[c] \in Grants /\ value[c].key = None
            BY <6>1, <6>2, Zenon DEF At
          <6>. QED
            BY <6>3, NoneIsNot, Zenon DEF Grants
        <5>. QED
          BY <5>1, Zenon
      <4>. QED
        BY <3>2, <4>1, Zenon DEF ServerFreed
    <3>3. CASE ServerKept(s)
      <4>1. /\ matchkey[s] # None <=> state[s] \in {"listen", "serving"}
            /\ state[s] = "serving" =>
                 /\ \A e \in Calls : IsOf(e, backlog[s]) => e.key # matchkey[s]
                 /\ \A c \in Clients : /\ ~At(inbox[c], s, matchkey[s])
                                       /\ At(value[c], s, matchkey[s]) => serving[s] = c
            /\ serving[s] # None => /\ state[s] = "serving" /\ step[serving[s]] = "session"
                                    /\ At(value[serving[s]], s, matchkey[s])
            /\ \A c \in Clients : step[c] = "handshake" /\ At(value[c], s, matchkey[s]) =>
                 \E e \in Calls : IsOf(e, backlog[s]) /\ e.client = c
        BY Zenon DEF FarmInv, SessionsInv
      <4>2. matchkey'[s] # None <=> state'[s] \in {"listen", "serving"}
        BY <3>3, <4>1, Zenon DEF ServerKept
      <4>3. serving'[s] # None => /\ state'[s] = "serving" /\ step'[serving'[s]] = "session"
                                  /\ At(value'[serving'[s]], s, matchkey'[s])
        BY <3>3, <4>1, Zenon DEF ServerKept, ClientKept
      <4>4. ASSUME state'[s] = "serving", NEW e \in Calls, IsOf(e, backlog'[s])
            PROVE  e.key # matchkey'[s]
        <5>1. PICK f \in Calls : CallLeft(e, f, s)
          BY <4>4, Zenon DEF Fewer
        <5>. QED
          BY <3>3, <4>1, <4>4, <5>1, Zenon DEF ServerKept, CallLeft
      <4>5. ASSUME state'[s] = "serving", NEW c \in Clients PROVE ~At(inbox'[c], s, matchkey'[s])
        BY <2>1, <3>3, <4>1, <4>5, Zenon DEF ServerKept
      <4>6. ASSUME state'[s] = "serving", NEW c \in Clients, At(value'[c], s, matchkey'[s])
            PROVE  serving'[s] = c
        <5>1. serving[s] = c
          BY <2>1, <3>3, <4>1, <4>6, Zenon DEF ServerKept
        <5>2. ~ClientFreed(c)
          BY <4>6, Zenon DEF ClientFreed, At
        <5>. QED
          BY <3>3, <5>1, <5>2, Zenon DEF ServerKept
      <4>7. ASSUME NEW c \in Clients, step'[c] = "handshake", At(value'[c], s, matchkey'[s])
            PROVE  \E e \in Calls : IsOf(e, backlog'[s]) /\ e.client = c
        <5>1. ClientKept(c) /\ At(value[c], s, matchkey[s]) /\ step[c] = "handshake"
          BY <2>1, <3>3, <4>7, Zenon DEF ServerKept, ClientKept
        <5>2. PICK e \in Calls : IsOf(e, backlog[s]) /\ e.client = c
          BY <4>1, <5>1, Zenon
        <5>3. c # None
          BY NoneIsNot, Zenon
        <5>4. At(value[c], s, e.key)
          BY <5>2, <5>3, Zenon DEF FarmInv, CallsInv
        <5>5. e.key = matchkey[s]
          BY <5>1, <5>4, Zenon DEF At
        <5>. QED
          BY <3>3, <5>1, <5>2, <5>3, <5>5, Zenon DEF ServerKept
      <4>. QED
        BY <4>2, <4>3, <4>4, <4>5, <4>6, <4>7, Zenon
    <3>. QED
      BY <3>2, <3>3, Zenon DEF Fewer
  <2>. QED
    BY <2>2, <2>3, <2>4, <2>5, <2>6, Zenon
(* What goes on unchanged. *)
<1>KeptClients. ASSUME UNCHANGED <<requests, inbox, clientVars>>, NEW c
                PROVE  ClientKept(c)
    BY <1>KeptClients, Zenon DEF ClientKept, clientVars
<1>KeptServer. ASSUME NEW s, state'[s] = state[s], matchkey'[s] = matchkey[s], serving'[s] = serving[s],
                      backlog'[s] = backlog[s], serving[s] # None => ClientKept(serving[s])
               PROVE  ServerKept(s)
    BY <1>KeptServer, Zenon DEF ServerKept
<1>KeptCall. ASSUME NEW s, NEW e, IsOf(e, backlog[s]), e.client # None => ClientKept(e.client)
             PROVE  CallLeft(e, e, s)
    BY <1>KeptCall, Zenon DEF CallLeft
(* The servers go on as they were. *)
<1>ServersGoOn. ASSUME values' = values, \A t \in Servers : ServerKept(t),
                       \A c \in Clients : ClientKept(c) \/ ClientFreed(c),
                       \A s \in Servers : \A e \in Calls :
                         IsOf(e, backlog'[s]) => \E f \in Calls : CallLeft(e, f, s),
                       \A s \in Servers : Len(backlog'[s]) <= Backlog /\ CallsOnce(backlog'[s])
                PROVE  OffersInv' /\ WaitInv' /\ HoldInv' /\ CallsInv' /\ SessionsInv'
  <2>. USE <1>ServersGoOn
  <2>1. ASSUME NEW v \in Values, IsOf(v, values') PROVE OfferLeft(v, v)
    <3>1. IsOf(v, values) /\ v.server \in Servers
      BY <2>1, Zenon DEF Values
    <3>. QED
      BY <3>1, Zenon DEF OfferLeft
  <2>2. Fewer
    BY <2>1, Zenon DEF Fewer
  <2>. QED
    BY <2>2, <1>Losing, Zenon
<1>TrackerListsGoOn. ASSUME ListsInv, UNCHANGED <<values, requests, pending>>
                     PROVE  ListsInv'
    BY <1>TrackerListsGoOn, Zenon DEF ListsInv
<1>DialStep. ASSUME NEW c \in Clients, Dial(c)
             PROVE  FarmInv'
  <2>. USE <1>DialStep
  <2>. DEFINE s == inbox[c].server
              k == inbox[c].key
              g == [server |-> s, key |-> k]
              e == [client |-> c, server |-> s, key |-> k]
  <2>1. /\ step[c] = "wait" /\ inbox[c] # None /\ Len(backlog[s]) < Backlog
        /\ value' = [value EXCEPT ![c] = g]
        /\ backlog' = [backlog EXCEPT ![s] = Append(@, e)]
        /\ inbox' = [inbox EXCEPT ![c] = None] /\ step' = [step EXCEPT ![c] = "handshake"]
        /\ UNCHANGED <<values, requests, pending>> /\ requests' = requests /\ values' = values
        /\ state' = state /\ serving' = serving /\ matchkey' = matchkey
        /\ sconn' = sconn /\ unmatched' = unmatched /\ tries' = tries /\ cconn' = cconn
    BY Zenon DEF Dial
  <2>2. Types /\ inbox[c] \in Values
    BY <2>1, SMT, SMTT(20) DEF FarmInv, Types
  <2>3. s \in Servers /\ k \in Keys
    BY <2>2, Zenon DEF Values
  <2>4. g \in Grants /\ g # None /\ g.server = s /\ g.key = k
    BY <2>3, SMT, SMTT(20) DEF Grants, RpcAssumption
  <2>5. e \in Calls /\ e.server = s /\ e.key = k /\ e.client = c
    BY <2>3, Zenon DEF Calls
  <2>6. At(inbox[c], s, k)
    BY <2>1, Zenon DEF At
  <2>. HIDE DEF s, k, g, e
  <2>7. /\ \A x, y : At(g, x, y) <=> x = s /\ y = k
        /\ \A x, y : At(inbox[c], x, y) <=> x = s /\ y = k
    BY <2>4, <2>6, Zenon DEF At
  <2>8. ASSUME NEW d \in Clients
        PROVE  /\ d = c => inbox'[d] = None /\ step'[d] = "handshake" /\ value'[d] = g
               /\ d # c => inbox'[d] = inbox[d] /\ step'[d] = step[d] /\ value'[d] = value[d]
    BY <2>1, <2>2, Zenon DEF Types
  <2>9. ASSUME NEW d \in Clients, NEW x, NEW y, At(inbox'[d], x, y)
        PROVE  At(inbox[d], x, y) /\ d # c
    <3>1. d # c
      BY <2>8, <2>9, Zenon DEF At
    <3>. QED
      BY <2>8, <2>9, <3>1, Zenon
  <2>10. ASSUME NEW d \in Clients, NEW x, NEW y, At(value'[d], x, y)
         PROVE  (At(value[d], x, y) /\ d # c) \/ (d = c /\ x = s /\ y = k /\ At(inbox[c], x, y))
    <3>1. CASE d = c
      <4>1. At(g, x, y)
        BY <2>8, <2>10, <3>1, Zenon
      <4>2. x = s /\ y = k
        BY <2>7, <4>1, Zenon
      <4>. QED
        BY <2>6, <3>1, <4>2, Zenon
    <3>2. CASE d # c
      BY <2>8, <2>10, <3>2, Zenon
    <3>. QED
      BY <3>1, <3>2, Zenon
  <2>11. ASSUME NEW d \in Clients
         PROVE  ~At(value[d], s, k) /\ (At(inbox[d], s, k) => d = c)
    BY <2>3, <2>6, Zenon DEF FarmInv, HoldInv
  <2>12. /\ backlog' \in [Servers -> Seq(Calls)]
         /\ \A t \in Servers : Len(backlog'[t]) <= Backlog /\ CallsOnce(backlog'[t])
         /\ \A t \in Servers : t # s => backlog'[t] = backlog[t]
         /\ \A x : IsOf(x, backlog'[s]) <=> IsOf(x, backlog[s]) \/ x = e
    <3>. DEFINE q == backlog[s]
    <3>1. backlog \in [Servers -> Seq(Calls)] /\ q \in Seq(Calls)
      BY <2>2, <2>3, Zenon DEF Types
    <3>2. \A t \in Servers : Len(backlog[t]) <= Backlog /\ CallsOnce(backlog[t])
      BY Zenon DEF FarmInv, CallsInv
    <3>3. \A x \in Calls : IsOf(x, q) => x.key # e.key
      BY <2>3, <2>5, <2>6, CallFacts, ZenonT(40)
    <3>4. backlog'[s] = Append(q, e) /\ \A t \in Servers : t # s => backlog'[t] = backlog[t]
      BY <2>1, <2>3, <3>1, Zenon
    <3>5. CallsOnce(q) /\ Len(q) < Backlog
      BY <2>1, <2>3, <3>2, Zenon
    <3>. HIDE DEF q
    <3>6. /\ Append(q, e) \in Seq(Calls) /\ CallsOnce(Append(q, e))
          /\ Len(Append(q, e)) = Len(q) + 1
          /\ \A x : IsOf(x, Append(q, e)) <=> IsOf(x, q) \/ x = e
      BY <2>5, <3>1, <3>3, <3>5, CallMade, Zenon
    <3>7. backlog' \in [Servers -> Seq(Calls)]
      <4>1. Append(backlog[s], e) \in Seq(Calls)
        BY <3>6, Zenon DEF q
      <4>. QED
        BY <2>1, <3>1, <4>1, Zenon
    <3>8. Len(Append(q, e)) <= Backlog
      <4>1. Len(q) \in Nat /\ Backlog \in Nat
        BY <3>1, SMT, SMTT(20) DEF RpcAssumption
      <4>. QED
        BY <3>5, <3>6, <4>1, SMT, SMTT(20)
    <3>9. ASSUME NEW t \in Servers PROVE Len(backlog'[t]) <= Backlog /\ CallsOnce(backlog'[t])
      <4>1. CASE t = s
        BY <3>4, <3>6, <3>8, <4>1, Zenon
      <4>2. CASE t # s
        BY <3>2, <3>4, <4>2, Zenon
      <4>. QED
        BY <4>1, <4>2, Zenon
    <3>. QED
      BY <3>4, <3>6, <3>7, <3>9, Zenon DEF q
  <2>13. ASSUME NEW t \in Servers, NEW x \in Calls, IsOf(x, backlog'[t])
         PROVE  IsOf(x, backlog[t]) \/ (t = s /\ x = e)
    BY <2>12, <2>13, Zenon
  <2>14. ListsInv'
    BY <2>1, <1>TrackerListsGoOn, Zenon DEF FarmInv
  <2>15. OffersInv'
    <3>1. SUFFICES ASSUME NEW v \in Values, IsOf(v, values)
                   PROVE  /\ v.conn = "open" => state[v.server] = "listen" /\ matchkey[v.server] = v.key
                          /\ v.conn = "hung" => matchkey[v.server] # v.key
                          /\ \A d \in Clients : /\ ~At(inbox'[d], v.server, v.key)
                                                /\ ~At(value'[d], v.server, v.key)
      BY <2>1, Zenon DEF OffersInv
    <3>2. /\ v.conn = "open" => state[v.server] = "listen" /\ matchkey[v.server] = v.key
          /\ v.conn = "hung" => matchkey[v.server] # v.key
          /\ \A d \in Clients : ~At(inbox[d], v.server, v.key) /\ ~At(value[d], v.server, v.key)
      BY <3>1, OfferFacts, Zenon
    <3>3. ASSUME NEW d \in Clients
          PROVE  ~At(inbox'[d], v.server, v.key) /\ ~At(value'[d], v.server, v.key)
      BY <2>9, <2>10, <3>2, Zenon
    <3>. QED
      BY <3>2, <3>3, Zenon
  <2>16. WaitInv'
    <3>1. SUFFICES ASSUME NEW d \in Clients
                   PROVE  /\ Asks(d, requests) =>
                               step'[d] = "wait" /\ inbox'[d] = None /\ cconn[d] = "open"
                          /\ inbox'[d] # None => step'[d] = "wait"
                          /\ value'[d] # None <=> step'[d] \in {"handshake", "session"}
      BY <2>1, Zenon DEF WaitInv
    <3>2. /\ Asks(d, requests) => step[d] = "wait" /\ inbox[d] = None /\ cconn[d] = "open"
          /\ inbox[d] # None => step[d] = "wait"
          /\ value[d] # None <=> step[d] \in {"handshake", "session"}
      BY WaitFacts, Zenon
    <3>3. CASE d = c
      <4>1. ~Asks(d, requests)
        BY <2>1, <3>2, <3>3, Zenon
      <4>2. inbox'[d] = None /\ step'[d] = "handshake" /\ value'[d] # None
        BY <2>4, <2>8, <3>3, Zenon
      <4>. QED
        BY <4>1, <4>2, Zenon
    <3>4. CASE d # c
      BY <2>8, <3>2, <3>4, Zenon
    <3>. QED
      BY <3>3, <3>4, Zenon
  <2>17. HoldInv'
    <3>1. SUFFICES ASSUME NEW a \in Clients, NEW b \in Clients, NEW t \in Servers, NEW j \in Keys
                   PROVE  /\ At(inbox'[a], t, j) => ~At(value'[b], t, j)
                          /\ At(inbox'[a], t, j) /\ At(inbox'[b], t, j) => a = b
                          /\ At(value'[a], t, j) /\ At(value'[b], t, j) => a = b
      BY Zenon DEF HoldInv
    <3>2. /\ At(inbox[a], t, j) => ~At(value[b], t, j)
          /\ At(inbox[a], t, j) /\ At(inbox[b], t, j) => a = b
          /\ At(value[a], t, j) /\ At(value[b], t, j) => a = b
      BY Zenon DEF FarmInv, HoldInv
    <3>3. ASSUME At(inbox'[a], t, j), At(value'[b], t, j) PROVE FALSE
      <4>1. At(inbox[a], t, j) /\ a # c
        BY <2>9, <3>3, Zenon
      <4>2. b = c /\ t = s /\ j = k
        BY <2>10, <3>2, <3>3, <4>1, Zenon
      <4>. QED
        BY <2>11, <4>1, <4>2, Zenon
    <3>4. ASSUME At(value'[a], t, j), At(value'[b], t, j) PROVE a = b
      <4>1. CASE a # c /\ b # c
        BY <2>10, <3>2, <3>4, <4>1, Zenon
      <4>2. CASE a = c /\ b # c
        <5>1. t = s /\ j = k
          BY <2>10, <3>4, <4>2, SMT, SMTT(20)
        <5>2. At(value[b], t, j)
          BY <2>10, <3>4, <4>2, Zenon
        <5>. QED
          BY <2>11, <5>1, <5>2, Zenon
      <4>3. CASE a # c /\ b = c
        <5>1. t = s /\ j = k
          BY <2>10, <3>4, <4>3, SMT, SMTT(20)
        <5>2. At(value[a], t, j)
          BY <2>10, <3>4, <4>3, Zenon
        <5>. QED
          BY <2>11, <5>1, <5>2, Zenon
      <4>. QED
        BY <4>1, <4>2, <4>3, Zenon
    <3>5. ASSUME At(inbox'[a], t, j), At(inbox'[b], t, j) PROVE a = b
      BY <2>9, <3>2, <3>5, Zenon
    <3>. QED
      BY <3>3, <3>4, <3>5, Zenon
  <2>18. CallsInv'
    <3>1. ASSUME NEW t \in Servers, NEW x \in Calls, IsOf(x, backlog'[t])
          PROVE  /\ x.server = t
                 /\ x.client # None => step'[x.client] = "handshake" /\ At(value'[x.client], t, x.key)
                 /\ \A d \in Clients : ~At(inbox'[d], t, x.key) /\ (At(value'[d], t, x.key) => x.client = d)
                 /\ \A v \in Values : IsOf(v, values') => ~At(v, t, x.key)
      <4>1. CASE IsOf(x, backlog[t])
        <5>1. /\ x.server = t
              /\ x.client # None => step[x.client] = "handshake" /\ At(value[x.client], t, x.key)
              /\ \A d \in Clients : ~At(inbox[d], t, x.key) /\ (At(value[d], t, x.key) => x.client = d)
              /\ \A v \in Values : IsOf(v, values) => ~At(v, t, x.key)
          BY <4>1, CallFacts, Zenon
        <5>2. ASSUME x.client # None
              PROVE  step'[x.client] = "handshake" /\ At(value'[x.client], t, x.key)
          <6>1. x.client \in Clients
            BY <5>2, Zenon DEF Calls
          <6>2. x.client # c
            BY <2>1, <5>1, <5>2, Zenon
          <6>. QED
            BY <2>8, <5>1, <5>2, <6>1, <6>2, Zenon
        <5>3. ASSUME NEW d \in Clients
              PROVE  ~At(inbox'[d], t, x.key) /\ (At(value'[d], t, x.key) => x.client = d)
          BY <2>9, <2>10, <5>1, Zenon
        <5>. QED
          BY <2>1, <5>1, <5>2, <5>3, Zenon
      <4>2. CASE t = s /\ x = e
        <5>1. x.server = t /\ x.client = c /\ x.key = k
          BY <2>5, <4>2, Zenon
        <5>2. step'[c] = "handshake" /\ At(value'[c], s, k)
          BY <2>7, <2>8, Zenon
        <5>3. ASSUME NEW d \in Clients
              PROVE  ~At(inbox'[d], s, k) /\ (At(value'[d], s, k) => c = d)
          BY <2>9, <2>10, <2>11, Zenon
        <5>4. ASSUME NEW v \in Values, IsOf(v, values), At(v, s, k) PROVE FALSE
          <6>1. ~At(inbox[c], v.server, v.key)
            BY <5>4, OfferFacts, Zenon
          <6>. QED
            BY <2>6, <5>4, <6>1, Zenon DEF At
        <5>. QED
          BY <2>1, <4>2, <5>1, <5>2, <5>3, <5>4, ZenonT(40)
      <4>. QED
        BY <2>13, <3>1, <4>1, <4>2, Zenon
    <3>. QED
      BY <2>12, <3>1, Zenon DEF CallsInv
  <2>19. SessionsInv'
    <3>1. SUFFICES ASSUME NEW t \in Servers
            PROVE /\ matchkey[t] # None <=> state[t] \in {"listen", "serving"}
                  /\ state[t] = "serving" =>
                       /\ \A x \in Calls : IsOf(x, backlog'[t]) => x.key # matchkey[t]
                       /\ \A d \in Clients : /\ ~At(inbox'[d], t, matchkey[t])
                                             /\ At(value'[d], t, matchkey[t]) => serving[t] = d
                  /\ serving[t] # None => /\ state[t] = "serving" /\ step'[serving[t]] = "session"
                                          /\ At(value'[serving[t]], t, matchkey[t])
                  /\ \A d \in Clients : step'[d] = "handshake" /\ At(value'[d], t, matchkey[t]) =>
                       \E x \in Calls : IsOf(x, backlog'[t]) /\ x.client = d
      BY <2>1, SMT, SMTT(20) DEF SessionsInv
    <3>2. /\ matchkey[t] # None <=> state[t] \in {"listen", "serving"}
          /\ state[t] = "serving" =>
               /\ \A x \in Calls : IsOf(x, backlog[t]) => x.key # matchkey[t]
               /\ \A d \in Clients : /\ ~At(inbox[d], t, matchkey[t])
                                     /\ At(value[d], t, matchkey[t]) => serving[t] = d
          /\ serving[t] # None => /\ state[t] = "serving" /\ step[serving[t]] = "session"
                                  /\ At(value[serving[t]], t, matchkey[t])
          /\ \A d \in Clients : step[d] = "handshake" /\ At(value[d], t, matchkey[t]) =>
               \E x \in Calls : IsOf(x, backlog[t]) /\ x.client = d
      BY SessionFacts, Zenon
    <3>3. ASSUME state[t] = "serving", NEW x \in Calls, IsOf(x, backlog'[t])
          PROVE  x.key # matchkey[t]
      <4>1. CASE IsOf(x, backlog[t])
        BY <3>2, <3>3, <4>1, Zenon
      <4>2. CASE t = s /\ x = e
        BY <2>5, <2>7, <3>2, <3>3, <4>2, Zenon
      <4>. QED
        BY <2>13, <3>3, <4>1, <4>2, Zenon
    <3>4. ASSUME state[t] = "serving", NEW d \in Clients
          PROVE  ~At(inbox'[d], t, matchkey[t]) /\ (At(value'[d], t, matchkey[t]) => serving[t] = d)
      BY <2>9, <2>10, <3>2, <3>4, Zenon
    <3>5. ASSUME serving[t] # None
          PROVE  step'[serving[t]] = "session" /\ At(value'[serving[t]], t, matchkey[t])
      <4>1. serving[t] \in Clients
        BY <2>2, <3>5, Zenon DEF Types
      <4>2. serving[t] # c
        BY <2>1, <3>2, <3>5, Zenon
      <4>. QED
        BY <2>8, <3>2, <3>5, <4>1, <4>2, Zenon
    <3>6. ASSUME NEW d \in Clients, step'[d] = "handshake", At(value'[d], t, matchkey[t])
          PROVE  \E x \in Calls : IsOf(x, backlog'[t]) /\ x.client = d
      <4>1. CASE d = c
        <5>1. t = s
          BY <2>10, <3>6, <4>1, Zenon
        <5>. QED
          BY <2>5, <2>12, <4>1, <5>1, Zenon
      <4>2. CASE d # c
        <5>1. step[d] = "handshake" /\ At(value[d], t, matchkey[t])
          BY <2>8, <3>6, <4>2, Zenon
        <5>2. PICK x \in Calls : IsOf(x, backlog[t]) /\ x.client = d
          BY <3>2, <5>1, Zenon
        <5>. QED
          BY <2>12, <5>2, Zenon
      <4>. QED
        BY <4>1, <4>2, Zenon
    <3>. QED
      BY <3>2, <3>3, <3>4, <3>5, <3>6, Zenon
  <2>20. Types'
    <3>1. /\ step' \in [Clients -> {"idle", "request", "wait", "handshake", "session"}]
          /\ inbox' \in [Clients -> Values \cup {None}]
          /\ value' \in [Clients -> Grants \cup {None}]
      BY <2>1, <2>2, <2>4, Zenon DEF Types
    <3>. QED
      BY <2>1, <2>2, <2>12, <3>1, SMT, SMTT(20) DEF Types
  <2>. QED
    BY <2>14, <2>15, <2>16, <2>17, <2>18, <2>19, <2>20, Zenon DEF FarmInv
<1>AcceptMatchStep. ASSUME NEW s \in Servers, AcceptMatch(s)
                    PROVE  FarmInv'
  <2>. USE <1>AcceptMatchStep
  <2>. DEFINE h == Head(backlog[s])
              cl == h.client
  <2>1. /\ state[s] = "listen" /\ backlog[s] # <<>> /\ h.key = matchkey[s]
        /\ backlog' = [backlog EXCEPT ![s] = Tail(@)]
        /\ state' = [state EXCEPT ![s] = "serving"] /\ serving' = [serving EXCEPT ![s] = cl]
        /\ step' = IF cl = None THEN step ELSE [step EXCEPT ![cl] = "session"]
        /\ cconn' = IF cl = None THEN cconn ELSE [cconn EXCEPT ![cl] = None]
        /\ UNCHANGED <<values, requests, pending>> /\ requests' = requests /\ values' = values
        /\ inbox' = inbox /\ matchkey' = matchkey /\ value' = value
        /\ sconn' = sconn /\ unmatched' = unmatched /\ tries' = tries
    BY Zenon DEF AcceptMatch, Expected, trackerVars
  <2>2. /\ backlog' \in [Servers -> Seq(Calls)] /\ h \in Calls /\ IsOf(h, backlog[s])
        /\ \A t \in Servers : Len(backlog'[t]) <= Backlog /\ CallsOnce(backlog'[t])
        /\ \A t \in Servers : t # s => backlog'[t] = backlog[t]
        /\ \A x : IsOf(x, backlog[s]) => x = h \/ IsOf(x, backlog'[s])
        /\ \A x : IsOf(x, backlog'[s]) => IsOf(x, backlog[s]) /\ x.key # h.key
    BY <2>1, BacklogTaken, Zenon
  <2>. HIDE DEF h
  <2>3. Types /\ cl \in Clients \cup {None} /\ h.key \in Keys
    BY <2>2, Zenon DEF FarmInv, Calls
  <2>. HIDE DEF cl
  <2>4. /\ h.server = s
        /\ cl # None => step[cl] = "handshake" /\ At(value[cl], s, h.key)
        /\ \A d \in Clients : ~At(inbox[d], s, h.key) /\ (At(value[d], s, h.key) => cl = d)
        /\ \A v \in Values : IsOf(v, values) => ~At(v, s, h.key)
    BY <2>2, CallFacts, Zenon DEF cl
  <2>5. ASSUME NEW d \in Clients
        PROVE  /\ d # cl => step'[d] = step[d] /\ cconn'[d] = cconn[d]
               /\ d = cl => step'[d] = "session"
    <3>1. step \in [Clients -> {"idle", "request", "wait", "handshake", "session"}]
      BY <2>3, Zenon DEF Types
    <3>2. cconn \in [Clients -> {None, "open", "broken"}]
      BY <2>3, Zenon DEF Types
    <3>3. d # None
      BY NoneIsNot, Zenon
    <3>. QED
      BY <2>1, <3>1, <3>2, <3>3, Zenon
  <2>6. /\ state'[s] = "serving" /\ serving'[s] = cl
        /\ \A t \in Servers : t # s => state'[t] = state[t] /\ serving'[t] = serving[t]
    BY <2>1, <2>3, Zenon DEF Types
  <2>7. ListsInv'
    BY <2>1, <1>TrackerListsGoOn, Zenon DEF FarmInv
  <2>8. OffersInv'
    <3>1. SUFFICES ASSUME NEW v \in Values, IsOf(v, values)
                   PROVE  /\ v.conn = "open" =>
                               state'[v.server] = "listen" /\ matchkey[v.server] = v.key
                          /\ v.conn = "hung" => matchkey[v.server] # v.key
                          /\ \A c \in Clients : /\ ~At(inbox[c], v.server, v.key)
                                                /\ ~At(value[c], v.server, v.key)
      BY <2>1, Zenon DEF OffersInv
    <3>2. /\ v.conn = "open" => state[v.server] = "listen" /\ matchkey[v.server] = v.key
          /\ v.conn = "hung" => matchkey[v.server] # v.key
          /\ \A c \in Clients : ~At(inbox[c], v.server, v.key) /\ ~At(value[c], v.server, v.key)
      BY <3>1, OfferFacts, Zenon
    <3>3. v.server \in Servers /\ v # None
      BY Zenon DEF Values, RpcAssumption
    <3>4. CASE v.server = s
      <4>1. v.key # h.key
        BY <2>4, <3>1, <3>3, <3>4, Zenon DEF At
      <4>. QED
        BY <2>1, <3>2, <3>4, <4>1, Zenon
    <3>5. CASE v.server # s
      BY <2>6, <3>2, <3>3, <3>5, Zenon
    <3>. QED
      BY <3>4, <3>5, Zenon
  <2>9. WaitInv'
    <3>1. SUFFICES ASSUME NEW c \in Clients
                   PROVE  /\ Asks(c, requests) =>
                               step'[c] = "wait" /\ inbox[c] = None /\ cconn'[c] = "open"
                          /\ inbox[c] # None => step'[c] = "wait"
                          /\ value[c] # None <=> step'[c] \in {"handshake", "session"}
      BY <2>1, Zenon DEF WaitInv
    <3>2. /\ Asks(c, requests) => step[c] = "wait" /\ inbox[c] = None /\ cconn[c] = "open"
          /\ inbox[c] # None => step[c] = "wait"
          /\ value[c] # None <=> step[c] \in {"handshake", "session"}
      BY WaitFacts, Zenon
    <3>3. CASE c = cl
      <4>1. c # None
        BY NoneIsNot, Zenon
      <4>2. step[c] = "handshake" /\ step'[c] = "session"
        BY <2>4, <2>5, <3>3, <4>1, Zenon
      <4>. QED
        BY <3>2, <4>2, Zenon
    <3>4. CASE c # cl
      BY <2>5, <3>2, <3>4, Zenon
    <3>. QED
      BY <3>3, <3>4, Zenon
  <2>10. HoldInv'
    BY <2>1 DEF FarmInv, HoldInv
  <2>11. CallsInv'
    <3>1. ASSUME NEW t \in Servers, NEW e \in Calls, IsOf(e, backlog'[t])
          PROVE  /\ e.server = t
                 /\ e.client # None => step'[e.client] = "handshake" /\ At(value'[e.client], t, e.key)
                 /\ \A d \in Clients : ~At(inbox'[d], t, e.key) /\ (At(value'[d], t, e.key) => e.client = d)
                 /\ \A v \in Values : IsOf(v, values') => ~At(v, t, e.key)
      <4>1. IsOf(e, backlog[t]) /\ (t # s \/ e.key # h.key)
        BY <2>2, <3>1, Zenon
      <4>2. /\ e.server = t
            /\ e.client # None => step[e.client] = "handshake" /\ At(value[e.client], t, e.key)
            /\ \A d \in Clients : ~At(inbox[d], t, e.key) /\ (At(value[d], t, e.key) => e.client = d)
            /\ \A v \in Values : IsOf(v, values) => ~At(v, t, e.key)
        BY <4>1, CallFacts, Zenon
      <4>3. ASSUME e.client # None PROVE step'[e.client] = "handshake"
        <5>1. e.client \in Clients
          BY <4>3, Zenon DEF Calls
        <5>2. e.client # cl
          BY <2>4, <4>1, <4>2, <4>3, Zenon DEF At
        <5>. QED
          BY <2>5, <4>2, <4>3, <5>1, <5>2, Zenon
      <4>. QED
        BY <2>1, <4>2, <4>3, Zenon
    <3>. QED
      BY <2>2, <3>1, Zenon DEF CallsInv
  <2>12. SessionsInv'
    <3>1. SUFFICES ASSUME NEW t \in Servers
            PROVE /\ matchkey[t] # None <=> state'[t] \in {"listen", "serving"}
                  /\ state'[t] = "serving" =>
                       /\ \A e \in Calls : IsOf(e, backlog'[t]) => e.key # matchkey[t]
                       /\ \A c \in Clients : /\ ~At(inbox[c], t, matchkey[t])
                                             /\ At(value[c], t, matchkey[t]) => serving'[t] = c
                  /\ serving'[t] # None => /\ state'[t] = "serving" /\ step'[serving'[t]] = "session"
                                           /\ At(value[serving'[t]], t, matchkey[t])
                  /\ \A c \in Clients : step'[c] = "handshake" /\ At(value[c], t, matchkey[t]) =>
                       \E e \in Calls : IsOf(e, backlog'[t]) /\ e.client = c
      BY <2>1, SMT, SMTT(20) DEF SessionsInv
    <3>2. /\ matchkey[t] # None <=> state[t] \in {"listen", "serving"}
          /\ state[t] = "serving" =>
               /\ \A e \in Calls : IsOf(e, backlog[t]) => e.key # matchkey[t]
               /\ \A c \in Clients : /\ ~At(inbox[c], t, matchkey[t])
                                     /\ At(value[c], t, matchkey[t]) => serving[t] = c
          /\ serving[t] # None => /\ state[t] = "serving" /\ step[serving[t]] = "session"
                                  /\ At(value[serving[t]], t, matchkey[t])
          /\ \A c \in Clients : step[c] = "handshake" /\ At(value[c], t, matchkey[t]) =>
               \E e \in Calls : IsOf(e, backlog[t]) /\ e.client = c
      BY SessionFacts, Zenon
    <3>3. CASE t = s
      <4>1. matchkey[t] # None
        BY <2>1, <3>2, <3>3, Zenon
      <4>2. \A e \in Calls : IsOf(e, backlog'[t]) => e.key # matchkey[t]
        BY <2>1, <2>2, <3>3, Zenon
      <4>3. \A c \in Clients : /\ ~At(inbox[c], t, matchkey[t])
                               /\ At(value[c], t, matchkey[t]) => serving'[t] = c
        BY <2>1, <2>4, <2>6, <3>3, Zenon
      <4>4. serving'[t] # None => /\ step'[serving'[t]] = "session"
                                  /\ At(value[serving'[t]], t, matchkey[t])
        <5>1. cl # None => cl \in Clients
          BY <2>3, Zenon
        <5>2. cl # None => step'[cl] = "session"
          BY <2>5, <5>1, Zenon
        <5>. QED
          BY <2>1, <2>4, <2>6, <3>3, <5>1, <5>2, SMT, SMTT(20)
      <4>5. ASSUME NEW c \in Clients, step'[c] = "handshake", At(value[c], t, matchkey[t])
            PROVE  FALSE
        <5>1. c = cl
          BY <2>1, <2>4, <3>3, <4>5, Zenon
        <5>. QED
          BY <2>5, <4>5, <5>1, Zenon
      <4>. QED
        BY <2>6, <3>3, <4>1, <4>2, <4>3, <4>4, <4>5, Zenon
    <3>4. CASE t # s
      <4>1. state'[t] = state[t] /\ serving'[t] = serving[t] /\ backlog'[t] = backlog[t]
        BY <2>2, <2>6, <3>4, Zenon
      <4>2. ASSUME serving[t] # None PROVE step'[serving[t]] = "session"
        <5>1. serving[t] \in Clients
          BY <2>3, <4>2, Zenon DEF Types
        <5>2. CASE serving[t] = cl
          BY <2>5, <5>1, <5>2, Zenon
        <5>3. CASE serving[t] # cl
          BY <2>5, <3>2, <4>2, <5>1, <5>3, Zenon
        <5>. QED
          BY <5>2, <5>3, Zenon
      <4>3. ASSUME NEW c \in Clients, step'[c] = "handshake" PROVE step[c] = "handshake"
        <5>1. c # cl
          BY <2>5, <4>3, Zenon
        <5>. QED
          BY <2>5, <4>3, <5>1, Zenon
      <4>. QED
        BY <3>2, <4>1, <4>2, <4>3, Zenon
    <3>. QED
      BY <3>3, <3>4, Zenon
  <2>13. Types'
    <3>1. step' \in [Clients -> {"idle", "request", "wait", "handshake", "session"}]
      BY <2>1, <2>3, Zenon DEF Types
    <3>2. cconn' \in [Clients -> {None, "open", "broken"}]
      BY <2>1, <2>3, Zenon DEF Types
    <3>3. /\ state' \in [Servers -> {"register", "listen", "serving", "dead"}]
          /\ serving' \in [Servers -> Clients \cup {None}]
      BY <2>1, <2>3, Zenon DEF Types
    <3>. QED
      BY <2>1, <2>2, <2>3, <3>1, <3>2, <3>3, SMT, SMTT(20) DEF Types
  <2>. QED
    BY <2>7, <2>8, <2>9, <2>10, <2>11, <2>12, <2>13, Zenon DEF FarmInv
(* One turn of the loop of request is over. *)
<1>NextTryEffect. ASSUME NEW c \in Clients, NEW lost \in BOOLEAN, NextTry(c, lost),
                         requests' = requests, ~Asks(c, requests)
                  PROVE  /\ ClientFreed(c) /\ \A d \in Clients : d # c => ClientKept(d)
                         /\ inbox' \in [Clients -> Values \cup {None}]
                         /\ step' \in [Clients -> {"idle", "request", "wait", "handshake", "session"}]
                         /\ cconn' \in [Clients -> {None, "open", "broken"}]
                         /\ tries' \in [Clients -> 0 .. MaxRetry - 1] /\ value' \in [Clients -> Grants \cup {None}]
  <2>. USE <1>NextTryEffect
  <2>1. /\ inbox \in [Clients -> Values \cup {None}]
        /\ step \in [Clients -> {"idle", "request", "wait", "handshake", "session"}]
        /\ cconn \in [Clients -> {None, "open", "broken"}]
        /\ tries \in [Clients -> 0 .. MaxRetry - 1] /\ value \in [Clients -> Grants \cup {None}]
    BY Zenon DEF FarmInv, Types
  <2>2. /\ step' = [step EXCEPT ![c] = IF LastTry(c) THEN "idle" ELSE "request"]
        /\ tries' = [tries EXCEPT ![c] = IF LastTry(c) THEN 0 ELSE tries[c] + 1]
        /\ cconn' = [cconn EXCEPT ![c] = IF LastTry(c) \/ lost THEN None ELSE cconn[c]]
        /\ value' = [value EXCEPT ![c] = None]
        /\ inbox' = [inbox EXCEPT ![c] = None]
    BY Zenon DEF NextTry
  <2>3. ClientFreed(c)
    BY <2>1, <2>2, Zenon DEF ClientFreed
  <2>4. ASSUME NEW d \in Clients, d # c PROVE ClientKept(d)
    BY <2>1, <2>2, <2>4, Zenon DEF ClientKept
  <2>5. tries' \in [Clients -> 0 .. MaxRetry - 1]
    <3>1. (IF LastTry(c) THEN 0 ELSE tries[c] + 1) \in 0 .. MaxRetry - 1
      <4>1. tries[c] \in 0 .. MaxRetry - 1 /\ MaxRetry \in Nat \ {0}
        BY <2>1, Zenon DEF RpcAssumption
      <4>. QED
        BY <4>1, SMT, SMTT(20) DEF LastTry
    <3>. QED
      BY <2>1, <2>2, <3>1, Zenon
  <2>6. step' \in [Clients -> {"idle", "request", "wait", "handshake", "session"}]
    BY <2>1, <2>2, Zenon
  <2>7. cconn' \in [Clients -> {None, "open", "broken"}]
    BY <2>1, <2>2, Zenon
  <2>8. inbox' \in [Clients -> Values \cup {None}] /\ value' \in [Clients -> Grants \cup {None}]
    BY <2>1, <2>2, Zenon
  <2>. QED
    BY <2>3, <2>4, <2>5, <2>6, <2>7, <2>8, Zenon
(* A client without a call in a backlog goes on with its next turn.        *)
<1>TriesAgain. ASSUME NEW c \in Clients, NEW lost \in BOOLEAN, NextTry(c, lost),
                      UNCHANGED <<values, requests, pending, serverVars>>,
                      ~Asks(c, requests), step[c] # "session",
                      \A t \in Servers : \A e \in Calls : IsOf(e, backlog[t]) => e.client # c
               PROVE  FarmInv'
  <2>. USE <1>TriesAgain
  <2>1. /\ UNCHANGED <<values, requests, pending>> /\ requests' = requests /\ values' = values
        /\ state' = state /\ matchkey' = matchkey /\ serving' = serving /\ backlog' = backlog
        /\ sconn' = sconn /\ unmatched' = unmatched
    BY Zenon DEF serverVars
  <2>2. /\ ClientFreed(c) /\ \A d \in Clients : d # c => ClientKept(d)
        /\ inbox' \in [Clients -> Values \cup {None}]
        /\ step' \in [Clients -> {"idle", "request", "wait", "handshake", "session"}]
        /\ cconn' \in [Clients -> {None, "open", "broken"}]
        /\ tries' \in [Clients -> 0 .. MaxRetry - 1] /\ value' \in [Clients -> Grants \cup {None}]
    BY <2>1, <1>NextTryEffect, Zenon
  <2>3. ASSUME NEW t \in Servers, serving[t] # None PROVE ClientKept(serving[t])
    <3>1. step[serving[t]] = "session"
      BY <2>3, Zenon DEF FarmInv, SessionsInv
    <3>2. serving[t] \in Clients
      BY <2>3, Zenon DEF FarmInv, Types
    <3>. QED
      BY <2>2, <3>1, <3>2, Zenon
  <2>4. ASSUME NEW t \in Servers PROVE ServerKept(t)
    BY <2>1, <2>3, <1>KeptServer, Zenon
  <2>5. ASSUME NEW t \in Servers, NEW e \in Calls, IsOf(e, backlog'[t]) PROVE CallLeft(e, e, t)
    <3>1. IsOf(e, backlog[t])
      BY <2>1, <2>5, Zenon
    <3>2. e.client \in Clients \cup {None}
      BY Zenon DEF Calls
    <3>3. e.client # None => ClientKept(e.client)
      BY <2>2, <3>1, <3>2, Zenon
    <3>. QED
      BY <3>1, <3>3, <1>KeptCall, Zenon
  <2>6. \A t \in Servers : Len(backlog'[t]) <= Backlog /\ CallsOnce(backlog'[t])
    BY <2>1, Zenon DEF FarmInv, CallsInv
  <2>7. OffersInv' /\ WaitInv' /\ HoldInv' /\ CallsInv' /\ SessionsInv'
    BY <2>1, <2>2, <2>4, <2>5, <2>6, <1>ServersGoOn, Zenon
  <2>8. ListsInv'
    BY <2>1, <1>TrackerListsGoOn, Zenon DEF FarmInv
  <2>9. Types'
    BY <2>1, <2>2 DEF FarmInv, Types
  <2>. QED
    BY <2>7, <2>8, <2>9, Zenon DEF FarmInv
<1>TrackerResetStep. ASSUME NEW c \in Clients, TrackerReset(c)
                     PROVE  FarmInv'
  <2>. USE <1>TrackerResetStep
  <2>1. /\ step[c] \in {"request", "wait"} /\ cconn[c] = "broken" /\ NextTry(c, TRUE)
        /\ UNCHANGED <<values, requests, pending, serverVars>>
    BY Zenon DEF TrackerReset
  <2>2. ~Asks(c, requests) /\ step[c] # "session"
    BY <2>1, Zenon DEF FarmInv, WaitInv
  <2>3. ASSUME NEW t \in Servers, NEW e \in Calls, IsOf(e, backlog[t]) PROVE e.client # c
    <3>1. e.client # None => step[e.client] = "handshake"
      BY <2>3, Zenon DEF FarmInv, CallsInv
    <3>2. c # None
      BY NoneIsNot, Zenon
    <3>. QED
      BY <2>1, <3>1, <3>2, Zenon
  <2>. QED
    BY <2>1, <2>2, <2>3, <1>TriesAgain, Zenon
<1>AcceptMismatchStep. ASSUME NEW s \in Servers, AcceptMismatch(s)
                       PROVE  FarmInv'
  <2>. USE <1>AcceptMismatchStep
  <2>. DEFINE h == Head(backlog[s])
  <2>1. /\ state[s] = "listen" /\ backlog[s] # <<>> /\ h.key # matchkey[s]
        /\ backlog' = [backlog EXCEPT ![s] = Tail(@)]
        /\ IF h.client = None THEN UNCHANGED <<inbox, clientVars>> ELSE NextTry(h.client, FALSE)
        /\ UNCHANGED <<values, requests, pending>> /\ requests' = requests /\ values' = values
        /\ state' = state /\ matchkey' = matchkey /\ serving' = serving
        /\ sconn' = sconn /\ unmatched' = unmatched
    BY Zenon DEF AcceptMismatch, Expected
  <2>2. /\ backlog' \in [Servers -> Seq(Calls)] /\ h \in Calls /\ IsOf(h, backlog[s])
        /\ \A t \in Servers : Len(backlog'[t]) <= Backlog /\ CallsOnce(backlog'[t])
        /\ \A t \in Servers : t # s => backlog'[t] = backlog[t]
        /\ \A x : IsOf(x, backlog[s]) => x = h \/ IsOf(x, backlog'[s])
        /\ \A x : IsOf(x, backlog'[s]) => IsOf(x, backlog[s]) /\ x.key # h.key
    BY <2>1, BacklogTaken, Zenon
  <2>. HIDE DEF h
  <2>3. ListsInv'
    BY <2>1, <1>TrackerListsGoOn, Zenon DEF FarmInv
  <2>4. ASSUME NEW t \in Servers, NEW e \in Calls, IsOf(e, backlog'[t])
        PROVE  IsOf(e, backlog[t]) /\ (t # s \/ e.key # h.key)
    BY <2>2, <2>4, Zenon
  <2>5. ASSUME NEW t \in Servers, serving[t] # None
        PROVE  serving[t] \in Clients /\ step[serving[t]] = "session"
    <3>1. step[serving[t]] = "session"
      BY <2>5, Zenon DEF FarmInv, SessionsInv
    <3>. QED
      BY <2>5, <3>1 DEF FarmInv, Types
  <2>6. ASSUME \A d \in Clients : ClientKept(d) \/ ClientFreed(d),
               \A d \in Clients : d # h.client => ClientKept(d)
        PROVE  OffersInv' /\ WaitInv' /\ HoldInv' /\ CallsInv' /\ SessionsInv'
    <3>1. ASSUME NEW t \in Servers, serving[t] # None PROVE ClientKept(serving[t])
      <4>1. CASE h.client = None
        BY <2>5, <2>6, <3>1, <4>1, Zenon
      <4>2. CASE h.client # None
        <5>1. step[h.client] = "handshake"
          BY <2>2, <4>2, Zenon DEF FarmInv, CallsInv
        <5>. QED
          BY <2>5, <2>6, <3>1, <5>1, Zenon
      <4>. QED
        BY <4>1, <4>2, Zenon
    <3>2. ASSUME NEW t \in Servers PROVE ServerKept(t)
      <4>1. CASE t = s
        <5>1. ASSUME NEW e \in Calls, IsOf(e, backlog[t]), e.key = matchkey[t]
              PROVE  IsOf(e, backlog'[t])
          BY <2>1, <2>2, <4>1, <5>1, Zenon
        <5>. QED
          BY <2>1, <3>1, <5>1, Zenon DEF ServerKept
      <4>2. CASE t # s
        BY <2>1, <2>2, <3>1, <4>2, <1>KeptServer, Zenon
      <4>. QED
        BY <4>1, <4>2, Zenon
    <3>3. ASSUME NEW t \in Servers, NEW e \in Calls, IsOf(e, backlog'[t]) PROVE CallLeft(e, e, t)
      <4>1. IsOf(e, backlog[t]) /\ (t # s \/ e.key # h.key)
        BY <2>4, <3>3, Zenon
      <4>2. ASSUME e.client # None PROVE ClientKept(e.client)
        <5>1. e.client \in Clients
          BY <4>2, Zenon DEF Calls
        <5>2. At(value[e.client], t, e.key)
          BY <4>1, <4>2, Zenon DEF FarmInv, CallsInv
        <5>3. ASSUME e.client = h.client PROVE FALSE
          <6>1. At(value[h.client], s, h.key)
            BY <2>2, <4>2, <5>3, Zenon DEF FarmInv, CallsInv
          <6>. QED
            BY <4>1, <5>2, <5>3, <6>1, Zenon DEF At
        <5>. QED
          BY <2>6, <5>1, <5>3, Zenon
      <4>. QED
        BY <4>1, <4>2, <1>KeptCall, Zenon
    <3>. QED
      BY <2>1, <2>2, <2>6, <3>2, <3>3, <1>ServersGoOn, Zenon
  <2>7. CASE h.client = None
    <3>1. UNCHANGED <<requests, inbox, clientVars>>
      BY <2>1, <2>7, Zenon
    <3>2. \A d \in Clients : ClientKept(d)
      BY <3>1, <1>KeptClients, Zenon
    <3>3. OffersInv' /\ WaitInv' /\ HoldInv' /\ CallsInv' /\ SessionsInv'
      BY <2>6, <3>2, Zenon
    <3>4. Types'
      BY <2>1, <2>2, <3>1, Zenon DEF FarmInv, Types, clientVars
    <3>. QED
      BY <2>3, <3>3, <3>4, Zenon DEF FarmInv
  <2>8. CASE h.client # None
    <3>1. h.client \in Clients
      BY <2>2, <2>8, Zenon DEF Calls
    <3>2. step[h.client] = "handshake" /\ NextTry(h.client, FALSE)
      BY <2>1, <2>2, <2>8, Zenon DEF FarmInv, CallsInv
    <3>3. ~Asks(h.client, requests)
      BY <3>1, <3>2, Zenon DEF FarmInv, WaitInv
    <3>4. /\ ClientFreed(h.client) /\ \A d \in Clients : d # h.client => ClientKept(d)
          /\ inbox' \in [Clients -> Values \cup {None}]
          /\ step' \in [Clients -> {"idle", "request", "wait", "handshake", "session"}]
          /\ cconn' \in [Clients -> {None, "open", "broken"}]
          /\ tries' \in [Clients -> 0 .. MaxRetry - 1] /\ value' \in [Clients -> Grants \cup {None}]
      BY <2>1, <3>1, <3>2, <3>3, <1>NextTryEffect, Zenon
    <3>5. OffersInv' /\ WaitInv' /\ HoldInv' /\ CallsInv' /\ SessionsInv'
      BY <2>6, <3>4, Zenon
    <3>6. Types'
      BY <2>1, <2>2, <3>4, Zenon DEF FarmInv, Types
    <3>. QED
      BY <2>3, <3>5, <3>6, Zenon DEF FarmInv
  <2>. QED
    BY <2>7, <2>8, Zenon
<1>KillTrackerStep. ASSUME KillTracker
                    PROVE  FarmInv'
  <2>. USE <1>KillTrackerStep
  <2>1. /\ values' = <<>> /\ requests' = <<>> /\ pending' = [s \in Servers |-> {}]
        /\ inbox' = inbox /\ state' = state /\ matchkey' = matchkey /\ unmatched' = unmatched
        /\ backlog' = backlog /\ serving' = serving /\ step' = step /\ tries' = tries
        /\ value' = value
        /\ sconn' = [s \in Servers |-> Broken(sconn[s])]
        /\ cconn' = [c \in Clients |-> Broken(cconn[c])]
    BY Zenon DEF KillTracker, TrackerDies
  <2>2. Types
    BY Zenon DEF FarmInv
  <2>3. Len(values') = 0 /\ Len(requests') = 0 /\ 1 .. 0 = {}
    BY <2>1, SMT, SMTT(20)
  <2>4. (\A x : ~IsOf(x, values')) /\ \A c : ~Asks(c, requests')
    BY <2>3, Zenon DEF IsOf, Asks
  <2>5. \A c : ClientKept(c)
    BY <2>1, <2>4, Zenon DEF ClientKept
  <2>6. ASSUME NEW t \in Servers PROVE ServerKept(t)
    BY <2>1, <2>5, <1>KeptServer, Zenon
  <2>7. ASSUME NEW t \in Servers, NEW e \in Calls, IsOf(e, backlog'[t]) PROVE CallLeft(e, e, t)
    <3>1. IsOf(e, backlog[t])
      BY <2>1, <2>7, Zenon
    <3>. QED
      BY <2>5, <3>1, <1>KeptCall, Zenon
  <2>8. Fewer
    BY <2>4, <2>5, <2>6, <2>7, Zenon DEF Fewer
  <2>9. \A t \in Servers : Len(backlog'[t]) <= Backlog /\ CallsOnce(backlog'[t])
    BY <2>1, Zenon DEF FarmInv, CallsInv
  <2>10. OffersInv' /\ WaitInv' /\ HoldInv' /\ CallsInv' /\ SessionsInv'
    BY <2>8, <2>9, <1>Losing, Zenon
  <2>11. ListsInv'
    <3>1. KeysOnce(values') /\ RequestsOnce(requests')
      BY <2>3, Zenon DEF KeysOnce, RequestsOnce
    <3>2. \A s \in Servers : OpenKeys(values', s) = {}
      BY <2>3, Zenon DEF OpenKeys
    <3>3. IsPending(values', pending')
      BY <2>1, <3>2, Zenon DEF IsPending
    <3>. QED
      BY <2>1, <3>1, <3>3, Zenon DEF ListsInv
  <2>12. Types'
    <3>1. values' \in Seq(Values) /\ requests' \in Seq(Requests) /\ Len(requests') <= MaxRequests
      BY <2>1, <2>3, SMT, SMTT(20) DEF RpcAssumption
    <3>2. sconn' \in [Servers -> {None, "open", "broken"}]
      BY <2>1, <2>2, Zenon DEF Types, Broken
    <3>3. cconn' \in [Clients -> {None, "open", "broken"}]
      BY <2>1, <2>2, Zenon DEF Types, Broken
    <3>. QED
      BY <2>1, <2>2, <3>1, <3>2, <3>3, Zenon DEF Types
  <2>. QED
    BY <2>10, <2>11, <2>12, Zenon DEF FarmInv
(* A server's session is over, or it is started: nobody sees a difference  *)
(* but the server.                                                         *)
<1>ServerStartsOver. ASSUME NEW s \in Servers, state[s] # "listen", ServerFreed(s),
                            UNCHANGED <<trackerVars, clientVars, backlog>>,
                            \A t \in Servers : t # s =>
                              state'[t] = state[t] /\ matchkey'[t] = matchkey[t] /\ serving'[t] = serving[t]
                     PROVE  ListsInv' /\ OffersInv' /\ WaitInv' /\ HoldInv' /\ CallsInv' /\ SessionsInv'
  <2>. USE <1>ServerStartsOver
  <2>1. /\ values' = values /\ requests' = requests /\ pending' = pending /\ inbox' = inbox
        /\ backlog' = backlog /\ UNCHANGED <<requests, inbox, clientVars>>
    BY Zenon DEF trackerVars
  <2>2. \A c : ClientKept(c)
    BY <2>1, <1>KeptClients, Zenon
  <2>3. ASSUME NEW t \in Servers, t # s PROVE ServerKept(t)
    BY <2>1, <2>2, <2>3, <1>KeptServer, Zenon
  <2>4. ASSUME NEW v \in Values, IsOf(v, values') PROVE OfferLeft(v, v)
    <3>1. IsOf(v, values) /\ v.server \in Servers /\ v.conn \in {"open", "hung"}
      BY <2>1, <2>4, Zenon DEF Values
    <3>2. v.conn = "open" => state[v.server] = "listen"
      BY <3>1, Zenon DEF FarmInv, OffersInv
    <3>3. CASE v.server = s
      <4>1. v.conn = "hung" /\ matchkey'[v.server] = None
        BY <3>1, <3>2, <3>3, Zenon DEF ServerFreed
      <4>. QED
        BY <3>1, <4>1, Zenon DEF OfferLeft
    <3>4. CASE v.server # s
      BY <2>3, <3>1, <3>4, Zenon DEF OfferLeft
    <3>. QED
      BY <3>3, <3>4, Zenon
  <2>5. ASSUME NEW t \in Servers, NEW e \in Calls, IsOf(e, backlog'[t]) PROVE CallLeft(e, e, t)
    <3>1. IsOf(e, backlog[t])
      BY <2>1, <2>5, Zenon
    <3>. QED
      BY <2>2, <3>1, <1>KeptCall, Zenon
  <2>6. Fewer
    BY <2>2, <2>3, <2>4, <2>5, Zenon DEF Fewer
  <2>7. \A t \in Servers : Len(backlog'[t]) <= Backlog /\ CallsOnce(backlog'[t])
    BY <2>1, Zenon DEF FarmInv, CallsInv
  <2>8. OffersInv' /\ WaitInv' /\ HoldInv' /\ CallsInv' /\ SessionsInv'
    BY <2>6, <2>7, <1>Losing, Zenon
  <2>9. ListsInv'
    BY <2>1, Zenon DEF FarmInv, ListsInv
  <2>. QED
    BY <2>8, <2>9, Zenon
<1>ServerStartsStep. ASSUME NEW s \in Servers, ServerStarts(s)
                     PROVE  FarmInv'
  <2>. USE <1>ServerStartsStep
  <2>1. /\ state[s] = "dead" /\ state' = [state EXCEPT ![s] = "register"]
        /\ serving' = serving /\ matchkey' = matchkey /\ unmatched' = unmatched
        /\ UNCHANGED <<trackerVars, clientVars, backlog>> /\ sconn' = sconn
    BY Zenon DEF ServerStarts
  <2>2. Types
    BY Zenon DEF FarmInv
  <2>3. matchkey[s] = None /\ serving[s] = None
    <3>1. /\ matchkey[s] # None => state[s] \in {"listen", "serving"}
          /\ serving[s] # None => state[s] = "serving"
      BY Zenon DEF FarmInv, SessionsInv
    <3>. QED
      BY <2>1, <3>1, Zenon
  <2>4. ServerFreed(s) /\ state[s] # "listen"
    BY <2>1, <2>2, <2>3, Zenon DEF ServerFreed, Types
  <2>5. \A t \in Servers : t # s =>
          state'[t] = state[t] /\ matchkey'[t] = matchkey[t] /\ serving'[t] = serving[t]
    BY <2>1, <2>2, Zenon DEF Types
  <2>6. ListsInv' /\ OffersInv' /\ WaitInv' /\ HoldInv' /\ CallsInv' /\ SessionsInv'
    BY <2>1, <2>4, <2>5, <1>ServerStartsOver, Zenon
  <2>7. Types'
    BY <2>1, <2>2, Zenon DEF Types, trackerVars, clientVars, RpcAssumption
  <2>. QED
    BY <2>6, <2>7, Zenon DEF FarmInv
<1>SessionEndsStep. ASSUME NEW s \in Servers, SessionEnds(s)
                    PROVE  FarmInv'
  <2>. USE <1>SessionEndsStep
  <2>1. /\ state[s] = "serving" /\ state' = [state EXCEPT ![s] = "register"]
        /\ serving' = [serving EXCEPT ![s] = None]
        /\ matchkey' = [matchkey EXCEPT ![s] = None] /\ unmatched' = [unmatched EXCEPT ![s] = 0]
        /\ UNCHANGED <<trackerVars, clientVars, backlog>> /\ sconn' = sconn
    BY Zenon DEF SessionEnds
  <2>2. Types
    BY Zenon DEF FarmInv
  <2>3. ServerFreed(s) /\ state[s] # "listen"
    BY <2>1, <2>2, Zenon DEF ServerFreed, Types
  <2>4. \A t \in Servers : t # s =>
          state'[t] = state[t] /\ matchkey'[t] = matchkey[t] /\ serving'[t] = serving[t]
    BY <2>1, <2>2, Zenon DEF Types
  <2>5. ListsInv' /\ OffersInv' /\ WaitInv' /\ HoldInv' /\ CallsInv' /\ SessionsInv'
    BY <2>1, <2>3, <2>4, <1>ServerStartsOver, Zenon
  <2>6. Types'
    BY <2>1, <2>2, SMT, SMTT(20) DEF Types, trackerVars, clientVars, RpcAssumption
  <2>. QED
    BY <2>5, <2>6, Zenon DEF FarmInv
<1>RefusedStep. ASSUME NEW c \in Clients, Refused(c)
                PROVE  FarmInv'
  <2>. USE <1>RefusedStep
  <2>1. /\ step[c] \in {"wait", "handshake"} /\ NextTry(c, FALSE)
        /\ step[c] = "wait" => inbox[c] # None
        /\ step[c] = "handshake" => \A e \in Range(backlog[value[c].server]) : e.client # c
        /\ UNCHANGED <<values, requests, pending, serverVars>>
    BY Zenon DEF Refused
  <2>2. ~Asks(c, requests) /\ step[c] # "session"
    BY <2>1, Zenon DEF FarmInv, WaitInv
  <2>3. ASSUME NEW t \in Servers, NEW e \in Calls, IsOf(e, backlog[t]), e.client = c PROVE FALSE
    <3>1. step[c] = "handshake" /\ value[c].server = t
      BY <2>3, CallOf, SMT, SMTT(20)
    <3>2. e \in Range(backlog[t])
      <4>1. backlog[t] \in Seq(Calls)
        BY Zenon DEF FarmInv, Types
      <4>2. DOMAIN backlog[t] = 1 .. Len(backlog[t])
        BY <4>1, SMT, SMTT(20)
      <4>. QED
        BY <2>3, <4>2, Zenon DEF IsOf, Range
    <3>. QED
      BY <2>1, <2>3, <3>1, <3>2, Zenon
  <2>. QED
    BY <2>1, <2>2, <2>3, <1>TriesAgain, Zenon
<1>LeaveStep. ASSUME NEW c \in Clients, Leave(c)
              PROVE  FarmInv'
  <2>. USE <1>LeaveStep
  <2>HungRequests. ASSUME NEW R \in Seq(Requests), RequestsOnce(R), NEW c1 \in Clients, RpcAssumption
                   PROVE  /\ AllGone(R, c1) \in Seq(Requests) /\ RequestsOnce(AllGone(R, c1))
                          /\ Len(AllGone(R, c1)) = Len(R) /\ (R = <<>> => AllGone(R, c1) = <<>>)
                          /\ \A d \in Clients : Asks(d, AllGone(R, c1)) <=> Asks(d, R) /\ d # c1
    <3>. USE <2>HungRequests
    <3>GoneRequest. ASSUME NEW r \in Requests, NEW c0 \in Clients
                    PROVE  /\ Gone(r, c0) \in Requests
                           /\ Gone(r, c0).client = IF r.client = c0 THEN None ELSE r.client
                           /\ Gone(r, c0).conn = IF r.client = c0 THEN "hung" ELSE r.conn
        BY Zenon DEF Gone, Requests
    <3>. DEFINE W == AllGone(R, c1)
    <3>1. Len(R) \in Nat /\ DOMAIN R = 1 .. Len(R)
      BY SMT, SMTT(20)
    <3>2. ASSUME NEW i \in 1 .. Len(R) PROVE R[i] \in Requests
      BY SMT, SMTT(20)
    <3>3. \A i \in 1 .. Len(R) : W[i] = Gone(R[i], c1)
      BY <3>1, Zenon DEF AllGone
    <3>4. W \in [1 .. Len(R) -> Requests]
      <4>1. ASSUME NEW i \in 1 .. Len(R) PROVE Gone(R[i], c1) \in Requests
        BY <3>2, <3>GoneRequest, Zenon
      <4>. QED
        BY <3>1, <4>1, Zenon DEF AllGone
    <3>. HIDE DEF W
    <3>5. W \in Seq(Requests) /\ Len(W) = Len(R)
      BY <3>1, <3>4, FunctionSeq, Zenon
    <3>6. ASSUME NEW i \in 1 .. Len(R)
          PROVE  /\ W[i].client = IF R[i].client = c1 THEN None ELSE R[i].client
                 /\ W[i].conn = IF R[i].client = c1 THEN "hung" ELSE R[i].conn
      <4>1. /\ Gone(R[i], c1).client = IF R[i].client = c1 THEN None ELSE R[i].client
            /\ Gone(R[i], c1).conn = IF R[i].client = c1 THEN "hung" ELSE R[i].conn
        BY <3>2, <3>GoneRequest, Zenon
      <4>. QED
        BY <3>3, <4>1, Zenon
    <3>7. RequestsOnce(W)
      <4>1. ASSUME NEW i \in 1 .. Len(R) PROVE W[i].client # None <=> W[i].conn = "open"
        BY <3>6, Zenon DEF RequestsOnce
      <4>2. ASSUME NEW i \in 1 .. Len(R), NEW j \in 1 .. Len(R), W[i].client # None,
                   W[i].client = W[j].client
            PROVE  i = j
        <5>1. R[i].client # None /\ R[i].client = R[j].client
          BY <3>6, <4>2, Zenon
        <5>. QED
          BY <5>1, Zenon DEF RequestsOnce
      <4>. QED
        BY <3>5, <4>1, <4>2, Zenon DEF RequestsOnce
    <3>8. None \notin Clients
      BY Zenon DEF RpcAssumption
    <3>9. ASSUME NEW d \in Clients PROVE Asks(d, W) <=> Asks(d, R) /\ d # c1
      BY <3>5, <3>6, <3>8, Zenon DEF Asks
    <3>10. R = <<>> => W = <<>>
      <4>1. (W = <<>> <=> Len(W) = 0) /\ (R = <<>> <=> Len(R) = 0)
        BY <3>5, SMT, SMTT(20)
      <4>. QED
        BY <3>5, <4>1, Zenon
    <3>. QED
      BY <3>5, <3>7, <3>9, <3>10, Zenon DEF W
  <2>1. /\ values' = values /\ pending' = pending /\ requests' = AllGone(requests, c)
        /\ inbox' = [inbox EXCEPT ![c] = None] /\ cconn' = [cconn EXCEPT ![c] = None]
        /\ step' = [step EXCEPT ![c] = "idle"] /\ tries' = [tries EXCEPT ![c] = 0]
        /\ value' = [value EXCEPT ![c] = None]
        /\ backlog' = [s \in Servers |-> Orphaned(backlog[s], c)]
        /\ serving' = [s \in Servers |-> IF serving[s] = c THEN None ELSE serving[s]]
        /\ state' = state /\ sconn' = sconn /\ matchkey' = matchkey /\ unmatched' = unmatched
    BY Zenon DEF Leave, ClientHangsUp, AllGone, Gone, Orphaned, Orphan
  <2>2. Types
    BY Zenon DEF FarmInv
  <2>3. /\ requests \in Seq(Requests) /\ RequestsOnce(requests) /\ IsPending(values, pending)
        /\ KeysOnce(values) /\ (values = <<>> \/ requests = <<>>)
    BY Zenon DEF FarmInv, Types, ListsInv
  <2>4. /\ requests' \in Seq(Requests) /\ RequestsOnce(requests')
        /\ Len(requests') = Len(requests) /\ (requests = <<>> => requests' = <<>>)
        /\ \A d \in Clients : Asks(d, requests') <=> Asks(d, requests) /\ d # c
    <3>1. /\ AllGone(requests, c) \in Seq(Requests) /\ RequestsOnce(AllGone(requests, c))
          /\ Len(AllGone(requests, c)) = Len(requests)
          /\ requests = <<>> => AllGone(requests, c) = <<>>
          /\ \A d \in Clients : Asks(d, AllGone(requests, c)) <=> Asks(d, requests) /\ d # c
      BY <2>3, <2>HungRequests, Zenon
    <3>. QED
      BY <2>1, <3>1, Zenon
  <2>5. ListsInv'
    BY <2>1, <2>3, <2>4, Zenon DEF ListsInv
  <2>6. ClientFreed(c)
    BY <2>1, <2>2, <2>4, Zenon DEF ClientFreed, Types
  <2>7. ASSUME NEW d \in Clients, d # c PROVE ClientKept(d)
    BY <2>1, <2>2, <2>4, <2>7, Zenon DEF ClientKept, Types
  <2>8. ASSUME NEW t \in Servers
        PROVE  /\ backlog'[t] \in Seq(Calls) /\ CallsOnce(backlog'[t])
               /\ Len(backlog'[t]) <= Backlog
               /\ \A x : IsOf(x, backlog'[t]) <=>
                    \E e \in Calls : IsOf(e, backlog[t]) /\ x = Orphan(e, c)
    <3>. DEFINE q == backlog[t]
    <3>1. q \in Seq(Calls) /\ CallsOnce(q) /\ Len(q) <= Backlog
      BY SMT, SMTT(20) DEF FarmInv, Types, CallsInv
    <3>2. backlog'[t] = Orphaned(q, c)
      BY <2>1, Zenon
    <3>. HIDE DEF q
    <3>3. /\ Orphaned(q, c) \in Seq(Calls) /\ CallsOnce(Orphaned(q, c))
          /\ Len(Orphaned(q, c)) = Len(q)
          /\ \A x : IsOf(x, Orphaned(q, c)) <=> \E e \in Calls : IsOf(e, q) /\ x = Orphan(e, c)
      BY <3>1, OrphanedCalls, Zenon
    <3>. QED
      BY <3>1, <3>2, <3>3, Zenon DEF q
  <2>9. backlog' \in [Servers -> Seq(Calls)]
    <3>1. backlog' = [t \in Servers |-> backlog'[t]]
      BY <2>1, Zenon
    <3>. QED
      BY <2>8, <3>1, Zenon
  <2>10. ASSUME NEW t \in Servers, NEW x \in Calls, IsOf(x, backlog'[t])
         PROVE  \E e \in Calls : CallLeft(x, e, t)
    <3>1. PICK e \in Calls : IsOf(e, backlog[t]) /\ x = Orphan(e, c)
      BY <2>8, <2>10, Zenon
    <3>2. /\ x.server = e.server /\ x.key = e.key
          /\ x.client = IF e.client = c THEN None ELSE e.client
      BY <3>1, OrphanCall, Zenon
    <3>3. e.client \in Clients \cup {None}
      BY Zenon DEF Calls
    <3>4. CASE e.client = c
      BY <2>6, <3>1, <3>2, <3>4, Zenon DEF CallLeft
    <3>5. CASE e.client # c
      <4>1. x.client = e.client
        BY <3>2, <3>5, Zenon
      <4>2. e.client # None => ClientKept(e.client)
        BY <2>7, <3>3, <3>5, Zenon
      <4>. QED
        BY <3>1, <3>2, <4>1, <4>2, ZenonT(40) DEF CallLeft
    <3>. QED
      BY <3>4, <3>5, Zenon
  <2>11. ASSUME NEW t \in Servers PROVE ServerKept(t)
    <3>1. serving'[t] = IF serving[t] = c THEN None ELSE serving[t]
      BY <2>1, Zenon
    <3>2. serving'[t] = serving[t] \/ (serving'[t] = None /\ ClientFreed(serving[t]))
      BY <2>6, <3>1, Zenon
    <3>3. serving[t] \in Clients \cup {None}
      BY <2>2, Zenon DEF Types
    <3>4. serving'[t] # None => ClientKept(serving'[t])
      BY <2>7, <3>1, <3>3, Zenon
    <3>5. ASSUME NEW e \in Calls, IsOf(e, backlog[t]), e.client # None, ClientKept(e.client)
          PROVE  IsOf(e, backlog'[t])
      <4>1. ASSUME e.client = c PROVE FALSE
        <5>1. At(value[c], t, e.key)
          BY <3>5, <4>1, Zenon DEF FarmInv, CallsInv
        <5>2. value'[c] # None
          BY <3>5, <4>1, <5>1, Zenon DEF ClientKept, At
        <5>. QED
          BY <2>6, <5>2, Zenon DEF ClientFreed
      <4>2. e = Orphan(e, c)
        BY <4>1, Zenon DEF Orphan
      <4>. QED
        BY <2>8, <3>5, <4>2, Zenon
    <3>. QED
      BY <2>1, <3>2, <3>4, <3>5, Zenon DEF ServerKept
  <2>12. OffersInv' /\ WaitInv' /\ HoldInv' /\ CallsInv' /\ SessionsInv'
    BY <2>1, <2>6, <2>7, <2>8, <2>10, <2>11, <1>ServersGoOn, Zenon
  <2>13. Types'
    <3>1. serving' \in [Servers -> Clients \cup {None}]
      BY <2>1, <2>2, ZenonT(40) DEF Types
    <3>2. tries' \in [Clients -> 0 .. MaxRetry - 1]
      BY <2>1, <2>2, SMT, SMTT(20) DEF Types, RpcAssumption
    <3>3. /\ inbox' \in [Clients -> Values \cup {None}] /\ value' \in [Clients -> Grants \cup {None}]
          /\ step' \in [Clients -> {"idle", "request", "wait", "handshake", "session"}]
          /\ cconn' \in [Clients -> {None, "open", "broken"}]
      BY <2>1, <2>2, Zenon DEF Types
    <3>. QED
      BY <2>1, <2>2, <2>4, <2>9, <3>1, <3>2, <3>3, Zenon DEF Types
  <2>. QED
    BY <2>5, <2>12, <2>13, Zenon DEF FarmInv
(* close of a client's connection. *)
<1>CloseClientStep. ASSUME NEW i \in DOMAIN requests, CloseClient(i),
                           UNCHANGED <<serverVars, clientVars>>
                    PROVE  FarmInv'
  <2>. USE <1>CloseClientStep
  <2>ClosedRequest. ASSUME NEW R \in Seq(Requests), RequestsOnce(R), NEW i0 \in 1 .. Len(R), R[i0].conn = "hung"
                    PROVE  /\ Closed(R, i0) \in Seq(Requests) /\ RequestsOnce(Closed(R, i0))
                           /\ Len(Closed(R, i0)) = Len(R) /\ \A c : Asks(c, Closed(R, i0)) <=> Asks(c, R)
    <3>. USE <2>ClosedRequest
    <3>. DEFINE W == Closed(R, i0)
    <3>1. Len(R) \in Nat /\ DOMAIN R = 1 .. Len(R) /\ R \in [1 .. Len(R) -> Requests]
      BY SMT, SMTT(20)
    <3>. DEFINE r == [R[i0] EXCEPT !.conn = "closed"]
    <3>2. R[i0] \in Requests
      BY SMT, SMTT(20)
    <3>3. r \in Requests /\ r.client = R[i0].client /\ r.conn = "closed"
      BY <3>2, Zenon DEF Requests
    <3>4. W = [R EXCEPT ![i0] = r]
      BY Zenon DEF Closed
    <3>. HIDE DEF r, W
    <3>5. W \in [1 .. Len(R) -> Requests]
      BY <3>1, <3>3, <3>4, Zenon
    <3>6. W \in Seq(Requests) /\ Len(W) = Len(R)
      BY <3>1, <3>5, FunctionSeq, Zenon
    <3>7. ASSUME NEW j \in 1 .. Len(R)
          PROVE  W[j].client = R[j].client /\ (W[j].conn = "open" <=> R[j].conn = "open")
      BY <3>1, <3>3, <3>4, Zenon
    <3>8. RequestsOnce(W)
      <4>1. ASSUME NEW j \in 1 .. Len(R) PROVE W[j].client # None <=> W[j].conn = "open"
        BY <3>7, Zenon DEF RequestsOnce
      <4>2. ASSUME NEW j \in 1 .. Len(R), NEW k \in 1 .. Len(R), W[j].client # None,
                   W[j].client = W[k].client
            PROVE  j = k
        BY <3>7, <4>2, Zenon DEF RequestsOnce
      <4>. QED
        BY <3>6, <4>1, <4>2, Zenon DEF RequestsOnce
    <3>9. \A c : Asks(c, W) <=> Asks(c, R)
      BY <3>6, <3>7, Zenon DEF Asks
    <3>. QED
      BY <3>6, <3>8, <3>9, ZenonT(40) DEF W
  <2>1. /\ values' = values /\ pending' = pending /\ inbox' = inbox
        /\ requests[i].conn = "hung" /\ requests' = Closed(requests, i)
    BY Zenon DEF CloseClient, Closed
  <2>2. /\ state' = state /\ sconn' = sconn /\ matchkey' = matchkey /\ unmatched' = unmatched
        /\ backlog' = backlog /\ serving' = serving
        /\ step' = step /\ cconn' = cconn /\ tries' = tries /\ value' = value
    BY Zenon DEF serverVars, clientVars
  <2>3. /\ requests \in Seq(Requests) /\ RequestsOnce(requests) /\ IsPending(values, pending)
        /\ KeysOnce(values) /\ (values = <<>> \/ requests = <<>>)
    BY Zenon DEF FarmInv, Types, ListsInv
  <2>4. i \in 1 .. Len(requests) /\ Len(requests) \in Nat
    BY <2>3, SMT, SMTT(20)
  <2>5. /\ requests' \in Seq(Requests) /\ RequestsOnce(requests') /\ Len(requests') = Len(requests)
        /\ \A c : Asks(c, requests') <=> Asks(c, requests)
    BY <2>1, <2>3, <2>4, <2>ClosedRequest, ZenonT(40)
  <2>6. values = <<>>
    BY <2>3, <2>4, SMT, SMTT(20)
  <2>7. ListsInv'
    BY <2>1, <2>3, <2>5, <2>6, Zenon DEF ListsInv
  <2>8. \A c : ClientKept(c)
    BY <2>1, <2>2, <2>5, Zenon DEF ClientKept
  <2>9. ASSUME NEW t \in Servers PROVE ServerKept(t)
    BY <2>2, <2>8, <1>KeptServer, Zenon
  <2>10. ASSUME NEW t \in Servers, NEW e \in Calls, IsOf(e, backlog'[t]) PROVE CallLeft(e, e, t)
    <3>1. IsOf(e, backlog[t])
      BY <2>2, <2>10, Zenon
    <3>. QED
      BY <2>8, <3>1, <1>KeptCall, Zenon
  <2>11. \A t \in Servers : Len(backlog'[t]) <= Backlog /\ CallsOnce(backlog'[t])
    BY <2>2, Zenon DEF FarmInv, CallsInv
  <2>12. OffersInv' /\ WaitInv' /\ HoldInv' /\ CallsInv' /\ SessionsInv'
    BY <2>1, <2>8, <2>9, <2>10, <2>11, <1>ServersGoOn, Zenon
  <2>13. Types'
    BY <2>1, <2>2, <2>5, Zenon DEF FarmInv, Types
  <2>. QED
    BY <2>7, <2>12, <2>13, Zenon DEF FarmInv
(* A server that has lost or dropped its match key: its offers are hung,   *)
(* some of its calls are gone.                                             *)
<1>ServerLeaves. ASSUME NEW s \in Servers, ServerHangsUp(s), ServerFreed(s),
                        UNCHANGED <<requests, inbox, clientVars>>,
                        \A t \in Servers : t # s =>
                          /\ state'[t] = state[t] /\ matchkey'[t] = matchkey[t]
                          /\ serving'[t] = serving[t] /\ backlog'[t] = backlog[t],
                        Len(backlog'[s]) <= Backlog /\ CallsOnce(backlog'[s]),
                        \A e \in Calls : IsOf(e, backlog'[s]) => IsOf(e, backlog[s])
                 PROVE  /\ values' \in Seq(Values) /\ ListsInv'
                        /\ OffersInv' /\ WaitInv' /\ HoldInv' /\ CallsInv' /\ SessionsInv'
  <2>. USE <1>ServerLeaves
  <2>1. requests' = requests
    BY Zenon
  <2>2. /\ values' \in Seq(Values) /\ ListsInv'
        /\ \A x : IsOf(x, values') <=> \E v \in Values : IsOf(v, values) /\ x = Hung(v, s)
    BY <2>1, ServerHangsUpEffect, Zenon
  <2>3. \A c : ClientKept(c)
    BY <1>KeptClients, Zenon
  <2>4. ASSUME NEW t \in Servers, t # s PROVE ServerKept(t)
    BY <2>3, <2>4, <1>KeptServer, Zenon
  <2>5. ASSUME NEW v \in Values, IsOf(v, values') PROVE \E w \in Values : OfferLeft(v, w)
    <3>1. PICK w \in Values : IsOf(w, values) /\ v = Hung(w, s)
      BY <2>2, <2>5, Zenon
    <3>2. /\ v.server = w.server /\ v.key = w.key
          /\ v.conn = IF w.server = s THEN "hung" ELSE w.conn
      BY <3>1, HungValue, ZenonT(40)
    <3>3. w.server \in Servers
      BY Zenon DEF Values
    <3>4. CASE w.server = s
      BY <3>1, <3>2, <3>4, Zenon DEF OfferLeft, ServerFreed
    <3>5. CASE w.server # s
      BY <2>4, <3>1, <3>2, <3>3, <3>5, Zenon DEF OfferLeft
    <3>. QED
      BY <3>4, <3>5, Zenon
  <2>6. ASSUME NEW t \in Servers, NEW e \in Calls, IsOf(e, backlog'[t])
        PROVE  \E f \in Calls : CallLeft(e, f, t)
    <3>1. IsOf(e, backlog[t])
      BY <2>6, Zenon
    <3>. QED
      BY <2>3, <3>1, <1>KeptCall, Zenon
  <2>7. Fewer
    BY <2>3, <2>4, <2>5, <2>6, Zenon DEF Fewer
  <2>8. \A t \in Servers : Len(backlog'[t]) <= Backlog /\ CallsOnce(backlog'[t])
    <3>1. \A t \in Servers : Len(backlog[t]) <= Backlog /\ CallsOnce(backlog[t])
      BY Zenon DEF FarmInv, CallsInv
    <3>2. ASSUME NEW t \in Servers PROVE Len(backlog'[t]) <= Backlog /\ CallsOnce(backlog'[t])
      <4>1. CASE t = s
        BY <4>1, Zenon
      <4>2. CASE t # s
        BY <3>1, <4>2, Zenon
      <4>. QED
        BY <4>1, <4>2, Zenon
    <3>. QED
      BY <3>2, Zenon
  <2>9. OffersInv' /\ WaitInv' /\ HoldInv' /\ CallsInv' /\ SessionsInv'
    BY <2>7, <2>8, <1>Losing, Zenon
  <2>. QED
    BY <2>2, <2>9, Zenon
<1>TrackerLostStep. ASSUME NEW s \in Servers, TrackerLost(s)
                    PROVE  FarmInv'
  <2>. USE <1>TrackerLostStep
  <2>1. /\ state[s] \in {"register", "listen"} /\ ServerHangsUp(s)
        /\ sconn' = [sconn EXCEPT ![s] = None] /\ state' = [state EXCEPT ![s] = "register"]
        /\ matchkey' = [matchkey EXCEPT ![s] = None] /\ unmatched' = [unmatched EXCEPT ![s] = 0]
        /\ UNCHANGED <<requests, inbox, clientVars>> /\ backlog' = backlog /\ serving' = serving
    BY Zenon DEF TrackerLost, DropTracker
  <2>2. Types
    BY Zenon DEF FarmInv
  <2>3. serving[s] = None /\ Len(backlog[s]) <= Backlog /\ CallsOnce(backlog[s])
    <3>1. serving[s] # None => state[s] = "serving"
      BY Zenon DEF FarmInv, SessionsInv
    <3>. QED
      BY <2>1, <3>1, Zenon DEF FarmInv, CallsInv
  <2>4. ServerFreed(s)
    BY <2>1, <2>2, <2>3, Zenon DEF ServerFreed, Types
  <2>5. \A t \in Servers : t # s =>
          /\ state'[t] = state[t] /\ matchkey'[t] = matchkey[t]
          /\ serving'[t] = serving[t] /\ backlog'[t] = backlog[t]
    BY <2>1, <2>2, Zenon DEF Types
  <2>6. backlog'[s] = backlog[s]
    BY <2>1, Zenon
  <2>7. /\ values' \in Seq(Values) /\ ListsInv'
        /\ OffersInv' /\ WaitInv' /\ HoldInv' /\ CallsInv' /\ SessionsInv'
    BY <2>1, <2>3, <2>4, <2>5, <2>6, <1>ServerLeaves, Zenon
  <2>8. Types'
    <3>1. /\ state' \in [Servers -> {"register", "listen", "serving", "dead"}]
          /\ sconn' \in [Servers -> {None, "open", "broken"}]
          /\ matchkey' \in [Servers -> Keys \cup {None}]
          /\ unmatched' \in [Servers -> 0 .. UnmatchedPings]
          /\ serving' \in [Servers -> Clients \cup {None}]
      BY <2>1, <2>2, SMT, SMTT(20) DEF Types, RpcAssumption
    <3>2. step' = step /\ cconn' = cconn /\ tries' = tries /\ value' = value
      BY <2>1, Zenon DEF clientVars
    <3>. QED
      BY <2>1, <2>2, <2>7, <3>1, <3>2, Zenon DEF Types
  <2>. QED
    BY <2>7, <2>8, Zenon DEF FarmInv
<1>AcceptFailsStep. ASSUME NEW s \in Servers, AcceptFails(s)
                    PROVE  FarmInv'
  <2>. USE <1>AcceptFailsStep
  <2>1. /\ state[s] = "listen" /\ backlog[s] # <<>> /\ ServerHangsUp(s)
        /\ backlog' = [backlog EXCEPT ![s] = Tail(@)]
        /\ sconn' = [sconn EXCEPT ![s] = None] /\ state' = [state EXCEPT ![s] = "register"]
        /\ matchkey' = [matchkey EXCEPT ![s] = None] /\ unmatched' = [unmatched EXCEPT ![s] = 0]
        /\ UNCHANGED <<requests, inbox, clientVars>> /\ serving' = serving
    BY Zenon DEF AcceptFails, DropTracker
  <2>2. Types
    BY Zenon DEF FarmInv
  <2>3. serving[s] = None
    <3>1. serving[s] # None => state[s] = "serving"
      BY Zenon DEF FarmInv, SessionsInv
    <3>. QED
      BY <2>1, <3>1, Zenon
  <2>4. ServerFreed(s)
    BY <2>1, <2>2, <2>3, Zenon DEF ServerFreed, Types
  <2>5. /\ backlog' \in [Servers -> Seq(Calls)]
        /\ \A t \in Servers : Len(backlog'[t]) <= Backlog /\ CallsOnce(backlog'[t])
        /\ \A t \in Servers : t # s => backlog'[t] = backlog[t]
        /\ \A x : IsOf(x, backlog'[s]) => IsOf(x, backlog[s])
    BY <2>1, BacklogTaken, Zenon
  <2>6. \A t \in Servers : t # s =>
          /\ state'[t] = state[t] /\ matchkey'[t] = matchkey[t]
          /\ serving'[t] = serving[t] /\ backlog'[t] = backlog[t]
    BY <2>1, <2>2, <2>5, Zenon DEF Types
  <2>7. /\ values' \in Seq(Values) /\ ListsInv'
        /\ OffersInv' /\ WaitInv' /\ HoldInv' /\ CallsInv' /\ SessionsInv'
    BY <2>1, <2>4, <2>5, <2>6, <1>ServerLeaves, Zenon
  <2>8. Types'
    <3>1. /\ state' \in [Servers -> {"register", "listen", "serving", "dead"}]
          /\ sconn' \in [Servers -> {None, "open", "broken"}]
          /\ matchkey' \in [Servers -> Keys \cup {None}]
          /\ unmatched' \in [Servers -> 0 .. UnmatchedPings]
          /\ serving' \in [Servers -> Clients \cup {None}]
      BY <2>1, <2>2, SMT, SMTT(20) DEF Types, RpcAssumption
    <3>2. step' = step /\ cconn' = cconn /\ tries' = tries /\ value' = value
      BY <2>1, Zenon DEF clientVars
    <3>. QED
      BY <2>1, <2>2, <2>5, <2>7, <3>1, <3>2, Zenon DEF Types
  <2>. QED
    BY <2>7, <2>8, Zenon DEF FarmInv
<1>ServerEndsStep. ASSUME NEW s \in Servers, ServerEnds(s)
                   PROVE  FarmInv'
  <2>. USE <1>ServerEndsStep
  <2>1. /\ ServerHangsUp(s)
        /\ backlog' = [backlog EXCEPT ![s] = <<>>] /\ serving' = [serving EXCEPT ![s] = None]
        /\ sconn' = [sconn EXCEPT ![s] = None] /\ state' = [state EXCEPT ![s] = "dead"]
        /\ matchkey' = [matchkey EXCEPT ![s] = None] /\ unmatched' = [unmatched EXCEPT ![s] = 0]
        /\ UNCHANGED <<requests, inbox, clientVars>>
    BY Zenon DEF ServerEnds
  <2>2. Types
    BY Zenon DEF FarmInv
  <2>3. ServerFreed(s)
    BY <2>1, <2>2, Zenon DEF ServerFreed, Types
  <2>4. backlog' \in [Servers -> Seq(Calls)] /\ backlog'[s] = <<>>
    <3>1. <<>> \in Seq(Calls)
      BY SMT, SMTT(20)
    <3>. QED
      BY <2>1, <2>2, <3>1, Zenon DEF Types
  <2>5. /\ Len(backlog'[s]) <= Backlog /\ CallsOnce(backlog'[s])
        /\ \A e \in Calls : IsOf(e, backlog'[s]) => IsOf(e, backlog[s])
    <3>1. Len(backlog'[s]) = 0
      BY <2>4, SMT, SMTT(20)
    <3>. QED
      BY <3>1, SMT, SMTT(20) DEF CallsOnce, IsOf, RpcAssumption
  <2>6. \A t \in Servers : t # s =>
          /\ state'[t] = state[t] /\ matchkey'[t] = matchkey[t]
          /\ serving'[t] = serving[t] /\ backlog'[t] = backlog[t]
    BY <2>1, <2>2, ZenonT(40) DEF Types
  <2>7. /\ values' \in Seq(Values) /\ ListsInv'
        /\ OffersInv' /\ WaitInv' /\ HoldInv' /\ CallsInv' /\ SessionsInv'
    BY <2>1, <2>3, <2>5, <2>6, <1>ServerLeaves, Zenon
  <2>8. Types'
    <3>1. /\ state' \in [Servers -> {"register", "listen", "serving", "dead"}]
          /\ sconn' \in [Servers -> {None, "open", "broken"}]
          /\ matchkey' \in [Servers -> Keys \cup {None}]
          /\ unmatched' \in [Servers -> 0 .. UnmatchedPings]
          /\ serving' \in [Servers -> Clients \cup {None}]
      BY <2>1, <2>2, SMT, SMTT(20) DEF Types, RpcAssumption
    <3>2. step' = step /\ cconn' = cconn /\ tries' = tries /\ value' = value
      BY <2>1, Zenon DEF clientVars
    <3>. QED
      BY <2>1, <2>2, <2>4, <2>7, <3>1, <3>2, Zenon DEF Types
  <2>. QED
    BY <2>7, <2>8, Zenon DEF FarmInv
<1>1. ASSUME NEW s \in Servers,
             \/ TrackerLost(s) \/ AcceptMatch(s) \/ AcceptMismatch(s) \/ AcceptFails(s)
             \/ SessionEnds(s) \/ ServerDies(s) \/ ServerGivesUp(s) \/ ServerStarts(s)
      PROVE  FarmInv'
  BY <1>1, <1>TrackerLostStep, <1>AcceptMatchStep, <1>AcceptMismatchStep, <1>AcceptFailsStep,
     <1>SessionEndsStep, <1>ServerEndsStep, <1>ServerStartsStep, Zenon
     DEF ServerDies, ServerGivesUp
<1>2. ASSUME NEW c \in Clients,
             \/ TrackerReset(c) \/ Dial(c) \/ Refused(c) \/ GiveUp(c) \/ Kill(c) \/ EndSession(c)
      PROVE  FarmInv'
  BY <1>2, <1>TrackerResetStep, <1>DialStep, <1>RefusedStep, <1>LeaveStep, Zenon
     DEF GiveUp, Kill, EndSession
<1>3. ASSUME RestartTracker \/ UNCHANGED vars PROVE FarmInv'
  <2>1. UNCHANGED <<trackerVars, serverVars, clientVars>>
    BY <1>3, Zenon DEF RestartTracker, vars
  <2>. QED
    BY <2>1, <1>NothingChanged, Zenon
<1>. QED
  BY <1>1, <1>2, <1>3, <1>CloseClientStep, <1>KillTrackerStep, Zenon DEF QuietStep
=============================================================================
