-------------------------- MODULE RpcDevicesProofs --------------------------
(***************************************************************************)
(* The safety of the device farm, and that it implements the pool of       *)
(* devices of DevicePool.                                                  *)
(***************************************************************************)
EXTENDS RpcTrackerProofs

(* What the pool of devices sees of the farm, and of those steps.          *)
(* Whether the tracker has the device's current match key on offer, a      *)
(* client has it, or somebody has shown it.                                *)
Offered(s) == \E v \in Values : IsOf(v, values) /\ v.server = s /\ v.key = matchkey[s]

Has(c, s) == At(inbox[c], s, matchkey[s]) \/ At(value[c], s, matchkey[s])

Called(s) == \E e \in Calls : IsOf(e, backlog[s]) /\ e.key = matchkey[s]

Unheld(s) == ~Offered(s) /\ \A c \in Clients : ~Has(c, s)

(* What the pool sees of a device. *)
Sees(s, d, u) == Device(s) = d /\ User(s) = u

View(s) ==
  /\ state[s] = "serving" => Sees(s, "busy", serving[s])
  /\ state[s] = "listen" =>
       /\ Offered(s) => Sees(s, "free", None)
       /\ \A c \in Clients : Has(c, s) => Sees(s, "granted", c)
       /\ Unheld(s) /\ Called(s) => Sees(s, "granted", None)
       /\ Unheld(s) /\ ~Called(s) => Sees(s, "away", None)
  /\ state[s] \notin {"serving", "listen"} => Sees(s, "away", None)

(* Where a server's current key can be, by the places the invariant names: *)
(* with the tracker, with a client, in the server's backlog.               *)
LEMMA Places ==
  ASSUME FarmInv, RpcAssumption, NEW s \in Servers
  PROVE  /\ Offers(s, matchkey[s]) # {} <=> Offered(s)
         /\ \A c : c \in Users(s) <=> c \in Clients /\ Has(c, s)
         /\ Dialled(s) <=> Called(s)
<1>1. values \in Seq(Values) /\ backlog[s] \in Seq(Calls)
  BY Zenon DEF FarmInv, Types
<1>2. /\ \A c : c \in Holders(s, matchkey[s]) <=> c \in Clients /\ At(value[c], s, matchkey[s])
      /\ \A c : c \in InFlight(s, matchkey[s]) <=> c \in Clients /\ At(inbox[c], s, matchkey[s])
      /\ \A i : i \in Offers(s, matchkey[s]) <=>
           i \in 1 .. Len(values) /\ values[i].server = s /\ values[i].key = matchkey[s]
  BY KeyPlaces, Zenon
<1>3. \A i \in 1 .. Len(values) : values[i] \in Values
  BY <1>1
<1>4. Offers(s, matchkey[s]) # {} <=> Offered(s)
  <2>1. ASSUME NEW i \in Offers(s, matchkey[s]) PROVE Offered(s)
    <3>1. values[i] \in Values /\ IsOf(values[i], values)
      BY <1>2, <1>3, <2>1, Zenon DEF IsOf
    <3>2. values[i].server = s /\ values[i].key = matchkey[s]
      BY <1>2, <2>1, Zenon
    <3>. QED
      BY <3>1, <3>2, Zenon DEF Offered
  <2>2. ASSUME Offered(s) PROVE Offers(s, matchkey[s]) # {}
    BY <1>2, <2>2, Zenon DEF Offered, IsOf
  <2>. QED
    BY <2>1, <2>2, Zenon
<1>5. \A c : c \in Users(s) <=> c \in Clients /\ Has(c, s)
  BY <1>2, Zenon DEF Users, Has
<1>6. /\ \A i \in 1 .. Len(backlog[s]) : backlog[s][i] \in Calls
      /\ DOMAIN backlog[s] = 1 .. Len(backlog[s])
  BY <1>1
<1>7. Dialled(s) <=> Called(s)
  BY <1>6, Zenon DEF Dialled, Called, IsOf, Range
<1>. QED
  BY <1>4, <1>5, <1>7, Zenon

(* A match key on offer is with nobody and was shown by nobody, and one    *)
(* client has it at most.                                                  *)
LEMMA OnePlace ==
  ASSUME FarmInv, RpcAssumption, NEW s \in Servers
  PROVE  /\ Offered(s) => ~Called(s) /\ \A c \in Clients : ~Has(c, s)
         /\ \A c, d \in Clients : Has(c, s) /\ Has(d, s) => c = d
<1>1. ASSUME Offered(s) PROVE ~Called(s) /\ \A c \in Clients : ~Has(c, s)
  <2>1. PICK v \in Values : IsOf(v, values) /\ v.server = s /\ v.key = matchkey[s]
    BY <1>1, Zenon DEF Offered
  <2>2. \A c \in Clients : ~Has(c, s)
    BY <2>1, OfferFacts, Zenon DEF Has
  <2>3. v # None
    BY Zenon DEF RpcAssumption, Values
  <2>4. ASSUME NEW e \in Calls, IsOf(e, backlog[s]), e.key = matchkey[s] PROVE FALSE
    <3>1. At(v, s, e.key)
      BY <2>1, <2>3, <2>4, Zenon DEF At
    <3>. QED
      BY <2>1, <2>4, <3>1, CallFacts, Zenon
  <2>. QED
    BY <2>2, <2>4, Zenon DEF Called
<1>2. ASSUME NEW c \in Clients, NEW d \in Clients, Has(c, s), Has(d, s) PROVE c = d
  <2>1. matchkey[s] \in Keys
    <3>1. matchkey[s] \in Keys \cup {None}
      BY Zenon DEF FarmInv, Types
    <3>2. ASSUME NEW x, At(x, s, None), x \in Values \cup Grants \cup {None} PROVE FALSE
      <4>1. x.key \in Keys
        BY <3>2, Zenon DEF At, Values, Grants
      <4>. QED
        BY <3>2, <4>1, NoneIsNot, Zenon DEF At
    <3>3. inbox[c] \in Values \cup Grants \cup {None} /\ value[c] \in Values \cup Grants \cup {None}
      BY Zenon DEF FarmInv, Types
    <3>. QED
      BY <1>2, <3>1, <3>2, <3>3, Zenon DEF Has
  <2>. QED
    BY <1>2, <2>1, Zenon DEF FarmInv, HoldInv, Has
<1>. QED
  BY <1>1, <1>2, Zenon

(* The invariant determines what the pool of devices sees of a server. *)
LEMMA ViewHolds ==
  ASSUME FarmInv, RpcAssumption, NEW s \in Servers
  PROVE  View(s)
<1>1. /\ Offers(s, matchkey[s]) # {} <=> Offered(s)
      /\ \A c : c \in Users(s) <=> c \in Clients /\ Has(c, s)
      /\ Dialled(s) <=> Called(s)
  BY Places, Zenon
<1>2. /\ Offered(s) => ~Called(s) /\ \A c \in Clients : ~Has(c, s)
      /\ \A c, d \in Clients : Has(c, s) /\ Has(d, s) => c = d
  BY OnePlace, Zenon
<1>3. ASSUME state[s] = "serving" PROVE Sees(s, "busy", serving[s])
  BY <1>3, Zenon DEF Sees, Device, User
<1>4. ASSUME state[s] = "listen", Offered(s) PROVE Sees(s, "free", None)
  <2>1. Device(s) = "free"
    <3>1. Offers(s, matchkey[s]) # {} /\ Users(s) = {} /\ ~Dialled(s)
      BY <1>1, <1>2, <1>4, Zenon
    <3>. QED
      BY <1>4, <3>1 DEF Device
  <2>. QED
    BY <2>1, Zenon DEF Sees, User
<1>5. ASSUME state[s] = "listen", NEW c \in Clients, Has(c, s) PROVE Sees(s, "granted", c)
  <2>1. ~Offered(s) /\ Users(s) = {c}
    BY <1>1, <1>2, <1>5, Zenon
  <2>2. Device(s) = "granted"
    BY <1>1, <1>5, <2>1, Zenon DEF Device
  <2>3. (CHOOSE d \in Users(s) : TRUE) = c
    BY <2>1, Zenon
  <2>. QED
    BY <2>1, <2>2, <2>3, Zenon DEF Sees, User
<1>6. ASSUME Unheld(s) PROVE Users(s) = {} /\ Offers(s, matchkey[s]) = {}
  BY <1>1, <1>6, Zenon DEF Unheld
<1>7. ASSUME state[s] = "listen", Unheld(s), Called(s) PROVE Sees(s, "granted", None)
  <2>1. Device(s) = "granted"
    BY <1>1, <1>6, <1>7, Zenon DEF Device
  <2>. QED
    BY <1>6, <1>7, <2>1, Zenon DEF Sees, User
<1>8. ASSUME state[s] = "listen", Unheld(s), ~Called(s) PROVE Sees(s, "away", None)
  <2>1. Device(s) = "away"
    BY <1>1, <1>6, <1>8, Zenon DEF Device
  <2>. QED
    BY <2>1, Zenon DEF Sees, User
<1>9. ASSUME state[s] \notin {"serving", "listen"} PROVE Sees(s, "away", None)
  <2>1. Device(s) = "away"
    BY <1>9, Zenon DEF Device
  <2>. QED
    BY <2>1, Zenon DEF Sees, User
<1>. QED
  BY <1>3, <1>4, <1>5, <1>7, <1>8, <1>9, Zenon DEF View

(* The view of the state before and of the state after.                    *)
LEMMA AllViews ==
  ASSUME RpcAssumption
  PROVE  FarmInv => \A s \in Servers : View(s)
  BY ViewHolds, Zenon

(* The same before and after a step. *)
LEMMA Views ==
  ASSUME RpcAssumption
  PROVE  FarmInv /\ FarmInv' => \A s \in Servers : View(s) /\ View(s)'
<1>1. FarmInv => \A s \in Servers : View(s)
  BY AllViews, Zenon
<1>2. (FarmInv => \A s \in Servers : View(s))'
  BY <1>1, PTL
<1>. QED
  BY <1>1, <1>2, Zenon
-----------------------------------------------------------------------------
(* The steps of the pool, said of its devices one by one.                  *)
Kept(s) == Device(s)' = Device(s) /\ User(s)' = User(s)

PoolStep == [Pool!Next]_<<[s \in Servers |-> Device(s)], [s \in Servers |-> User(s)]>>

(* A step that leaves every device as it was is a stutter of the pool. *)
LEMMA NothingSeen ==
  ASSUME \A t \in Servers : Kept(t)
  PROVE  PoolStep
<1>1. UNCHANGED <<[s \in Servers |-> Device(s)], [s \in Servers |-> User(s)]>>
  BY Zenon DEF Kept
<1>. QED
  BY <1>1, Zenon DEF PoolStep

(* A device that becomes free is offered to the pool. *)
LEMMA OfferSeen ==
  ASSUME NEW s \in Servers, Device(s) # "busy", Sees(s, "free", None)',
         \A t \in Servers : t # s => Kept(t)
  PROVE  PoolStep
<1>1. Pool!Offer(s)
  BY Zenon DEF Pool!Offer, Sees, Kept
<1>2. Pool!Next
  BY <1>1, Zenon DEF Pool!Next
<1>. QED
  BY <1>2, Zenon DEF PoolStep

(* A device handed to a client without one is granted. *)
LEMMA GrantSeen ==
  ASSUME NEW s \in Servers, NEW c \in Clients, Device(s) # "busy",
         \A t \in Servers : User(t) # c,
         Sees(s, "granted", c)', \A t \in Servers : t # s => Kept(t)
  PROVE  PoolStep
<1>1. Pool!Grant(s, c)
  BY Zenon DEF Pool!Grant, Sees, Kept
<1>2. Pool!Next
  BY <1>1, Zenon DEF Pool!Next
<1>. QED
  BY <1>2, Zenon DEF PoolStep

(* A granted device that becomes busy with the same client is put to use. *)
LEMMA UseSeen ==
  ASSUME NEW s \in Servers, Device(s) = "granted", Device(s)' = "busy", User(s)' = User(s),
         \A t \in Servers : t # s => Kept(t)
  PROVE  PoolStep
<1>1. Pool!Use(s)
  BY Zenon DEF Pool!Use, Kept
<1>2. Pool!Next
  BY <1>1, Zenon DEF Pool!Next
<1>. QED
  BY <1>2, Zenon DEF PoolStep

(* A device whose client goes is abandoned. *)
LEMMA AbandonSeen ==
  ASSUME NEW s \in Servers, Device(s)' = Device(s), User(s)' = None,
         \A t \in Servers : t # s => Kept(t)
  PROVE  PoolStep
<1>1. Pool!Abandon(s)
  BY Zenon DEF Pool!Abandon, Kept
<1>2. Pool!Next
  BY <1>1, Zenon DEF Pool!Next
<1>. QED
  BY <1>2, Zenon DEF PoolStep

(* Devices that go away are withdrawn. *)
LEMMA WithdrawSeen ==
  ASSUME NEW lost \in SUBSET Servers, \A t \in lost : Sees(t, "away", None)',
         \A t \in Servers : t \notin lost => Kept(t)
  PROVE  PoolStep
<1>1. Pool!Withdraw(lost)
  BY Zenon DEF Pool!Withdraw, Sees, Kept
<1>2. Pool!Next
  BY <1>1, Zenon DEF Pool!Next
<1>. QED
  BY <1>2, Zenon DEF PoolStep

(* The same for a single device. *)
LEMMA OneWithdrawn ==
  ASSUME NEW s \in Servers, Sees(s, "away", None)', \A t \in Servers : t # s => Kept(t)
  PROVE  PoolStep
<1>1. {s} \in SUBSET Servers /\ (\A t \in {s} : Sees(t, "away", None)')
      /\ \A t \in Servers : t \notin {s} => Kept(t)
  BY Zenon
<1>. QED
  BY <1>1, WithdrawSeen, Zenon

(* A device whose server is where it was and whose match key is where it   *)
(* was is the same to the pool; that it is shown adds nothing to that it   *)
(* is held.                                                                *)
LEMMA SameDevice ==
  ASSUME NEW s \in Servers, View(s), View(s)', state'[s] = state[s],
         state[s] = "serving" => serving'[s] = serving[s],
         state[s] = "listen" =>
           /\ Offered(s)' <=> Offered(s)
           /\ \A c \in Clients : Has(c, s)' <=> Has(c, s)
           /\ Unheld(s) => (Called(s)' <=> Called(s))
  PROVE  Kept(s)
<1>1. CASE state[s] = "serving"
  BY <1>1, Zenon DEF View, Sees, Kept
<1>2. CASE state[s] = "listen" /\ Offered(s)
  BY <1>2, Zenon DEF View, Sees, Kept
<1>3. CASE state[s] = "listen" /\ \E c \in Clients : Has(c, s)
  BY <1>3, Zenon DEF View, Sees, Kept
<1>4. CASE state[s] = "listen" /\ Unheld(s)
  <2>1. Unheld(s)' /\ (Called(s)' <=> Called(s))
    BY <1>4, Zenon DEF Unheld
  <2>. QED
    BY <1>4, <2>1, Zenon DEF View, Sees, Kept
<1>5. CASE state[s] \notin {"serving", "listen"}
  BY <1>5, Zenon DEF View, Sees, Kept
<1>. QED
  BY <1>1, <1>2, <1>3, <1>4, <1>5, Zenon DEF Unheld

(* A server whose own state, key, calls and offers are untouched keeps its *)
(* device as it was.                                                       *)
LEMMA OtherKept ==
  ASSUME RpcAssumption, FarmInv, FarmInv', NEW s \in Servers,
         state'[s] = state[s], matchkey'[s] = matchkey[s], serving'[s] = serving[s],
         backlog'[s] = backlog[s], inbox' = inbox, value' = value, Offered(s)' <=> Offered(s)
  PROVE  Kept(s)
<1>1. View(s) /\ View(s)'
  BY Views, Zenon
<1>2. \A c \in Clients : Has(c, s)' <=> Has(c, s)
  BY Zenon DEF Has
<1>3. Called(s)' <=> Called(s)
  BY Zenon DEF Called
<1>. QED
  BY <1>1, <1>2, <1>3, SameDevice, Zenon

(* A server that is neither listening nor serving has no device to give. *)
LEMMA AwaySeen ==
  ASSUME RpcAssumption, FarmInv, FarmInv', NEW s \in Servers,
         state'[s] \notin {"serving", "listen"}
  PROVE  Sees(s, "away", None)'
<1>1. View(s)'
  BY Views, Zenon
<1>. QED
  BY <1>1, Zenon DEF View
-----------------------------------------------------------------------------
(* The farm starts with the pool in its initial state. *)
LEMMA PoolStarts ==
  ASSUME RpcAssumption, Init
  PROVE  Pool!Init
<1>1. \A s \in Servers : state[s] = "register"
  BY Zenon DEF Init
<1>2. \A s \in Servers : Sees(s, "away", None)
  BY <1>1, FarmStarts, ViewHolds, Zenon DEF View
<1>. QED
  BY <1>2, Zenon DEF Pool!Init, Sees

(* Steps that change nothing the pool can see. *)
LEMMA NothingMoved ==
  ASSUME RpcAssumption, FarmInv, FarmInv', values' = values, inbox' = inbox, value' = value,
         matchkey' = matchkey, backlog' = backlog, serving' = serving,
         \A t \in Servers : \/ state'[t] = state[t]
                            \/ state[t] \notin {"serving", "listen"} /\ state'[t] \notin {"serving", "listen"}
  PROVE  PoolStep
<1>1. ASSUME NEW t \in Servers PROVE Kept(t)
  <2>1. CASE state'[t] = state[t]
    <3>1. Offered(t)' <=> Offered(t)
      BY Zenon DEF Offered
    <3>. QED
      BY <2>1, <3>1, OtherKept, Zenon
  <2>2. CASE state[t] \notin {"serving", "listen"} /\ state'[t] \notin {"serving", "listen"}
    <3>1. View(t) /\ View(t)'
      BY Views, Zenon
    <3>. QED
      BY <2>2, <3>1, Zenon DEF View, Sees, Kept
  <2>. QED
    BY <2>1, <2>2, Zenon
<1>. QED
  BY <1>1, NothingSeen, Zenon

(* A client that calls with the current key had it before; what it shows   *)
(* does not move the device.                                               *)
LEMMA DialSeen ==
  ASSUME RpcAssumption, FarmInv, FarmInv', NEW c \in Clients, Dial(c)
  PROVE  PoolStep
<1>. DEFINE s == inbox[c].server
            k == inbox[c].key
            g == [server |-> s, key |-> k]
            e == [client |-> c, server |-> s, key |-> k]
<1>1. /\ step[c] = "wait" /\ inbox[c] # None /\ value' = [value EXCEPT ![c] = g]
      /\ backlog' = [backlog EXCEPT ![s] = Append(@, e)] /\ inbox' = [inbox EXCEPT ![c] = None]
      /\ values' = values /\ state' = state /\ serving' = serving /\ matchkey' = matchkey
  BY Zenon DEF Dial
<1>2. Types /\ inbox[c] \in Values
  <2>1. Types
    BY Zenon DEF FarmInv
  <2>. QED
    BY <1>1, <2>1 DEF Types
<1>3. s \in Servers /\ k \in Keys
  BY <1>2, Zenon DEF Values
<1>4. g # None /\ g.server = s /\ g.key = k /\ e \in Calls /\ e.key = k
  BY <1>3 DEF RpcAssumption, Calls
<1>5. value[c] = None
  <2>1. value[c] # None <=> step[c] \in {"handshake", "session"}
    BY WaitFacts, Zenon
  <2>. QED
    BY <1>1, <2>1, Zenon
<1>6. At(inbox[c], s, k)
  BY <1>1, Zenon DEF At
<1>. HIDE DEF s, k, g, e
<1>7. \A x, y : At(inbox[c], x, y) <=> At(g, x, y)
  BY <1>4, <1>6, Zenon DEF At
<1>8. /\ inbox'[c] = None /\ value'[c] = g
      /\ \A d \in Clients : d # c => inbox'[d] = inbox[d] /\ value'[d] = value[d]
  BY <1>1, <1>2, Zenon DEF Types
<1>9. /\ \A t \in Servers : t # s => backlog'[t] = backlog[t]
      /\ \A x : IsOf(x, backlog'[s]) <=> IsOf(x, backlog[s]) \/ x = e
  <2>1. backlog[s] \in Seq(Calls) /\ CallsOnce(backlog[s])
    BY <1>2, <1>3 DEF Types, FarmInv, CallsInv
  <2>2. ASSUME NEW x \in Calls, IsOf(x, backlog[s]) PROVE x.key # e.key
    <3>1. ~At(inbox[c], s, x.key)
      BY <1>3, <2>2, CallFacts, Zenon
    <3>. QED
      BY <1>4, <1>6, <3>1, Zenon
  <2>3. \A x : IsOf(x, Append(backlog[s], e)) <=> IsOf(x, backlog[s]) \/ x = e
    BY <1>4, <2>1, <2>2, CallMade, Zenon
  <2>4. backlog'[s] = Append(backlog[s], e) /\ \A t \in Servers : t # s => backlog'[t] = backlog[t]
    BY <1>1, <1>2, <1>3, Zenon DEF Types
  <2>. QED
    BY <2>3, <2>4, Zenon
<1>10. ASSUME NEW t \in Servers, NEW d \in Clients PROVE Has(d, t)' <=> Has(d, t)
  <2>1. CASE d = c
    <3>1. Has(c, t)' <=> At(g, t, matchkey[t])
      BY <1>1, <1>8 DEF Has, At
    <3>2. Has(c, t) <=> At(inbox[c], t, matchkey[t])
      BY <1>5, Zenon DEF Has, At
    <3>. QED
      BY <1>7, <2>1, <3>1, <3>2, Zenon
  <2>2. CASE d # c
    BY <1>1, <1>8, <2>2, Zenon DEF Has
  <2>. QED
    BY <2>1, <2>2, Zenon
<1>11. ASSUME NEW t \in Servers, Unheld(t) PROVE Called(t)' <=> Called(t)
  <2>1. CASE t # s
    <3>1. backlog'[t] = backlog[t]
      BY <1>9, <2>1, Zenon
    <3>. QED
      BY <1>1, <3>1, Zenon DEF Called
  <2>2. CASE t = s
    <3>1. k # matchkey[s]
      BY <1>6, <1>11, <2>2, Zenon DEF Unheld, Has
    <3>2. (\E x \in Calls : IsOf(x, backlog'[s]) /\ x.key = matchkey[s]) <=> Called(s)
      BY <1>4, <1>9, <3>1, Zenon DEF Called
    <3>. QED
      BY <1>1, <2>2, <3>2 DEF Called
  <2>. QED
    BY <2>1, <2>2, Zenon
<1>12. ASSUME NEW t \in Servers PROVE Kept(t)
  <2>1. View(t) /\ View(t)'
    BY Views, Zenon
  <2>2. Offered(t)' <=> Offered(t)
    BY <1>1, Zenon DEF Offered
  <2>. QED
    BY <1>1, <1>10, <1>11, <2>1, <2>2, SameDevice, Zenon
<1>. QED
  BY <1>12, NothingSeen, Zenon

(* A client with no current key tries again. *)
LEMMA TryUnseen ==
  ASSUME RpcAssumption, FarmInv, FarmInv', NEW c \in Clients, NEW lost \in BOOLEAN, NextTry(c, lost),
         \A t \in Servers : ~Has(c, t), values' = values, state' = state, matchkey' = matchkey,
         serving' = serving, \A t \in Servers : Called(t)' <=> Called(t)
  PROVE  PoolStep
<1>1. inbox' = [inbox EXCEPT ![c] = None] /\ value' = [value EXCEPT ![c] = None]
  BY Zenon DEF NextTry
<1>2. /\ inbox'[c] = None /\ value'[c] = None
      /\ \A d \in Clients : d # c => inbox'[d] = inbox[d] /\ value'[d] = value[d]
  BY <1>1 DEF FarmInv, Types
<1>3. ASSUME NEW t \in Servers PROVE Kept(t)
  <2>1. View(t) /\ View(t)'
    BY Views, Zenon
  <2>2. Offered(t)' <=> Offered(t)
    BY Zenon DEF Offered
  <2>3. ASSUME NEW d \in Clients PROVE Has(d, t)' <=> Has(d, t)
    <3>1. CASE d = c
      <4>1. ~Has(c, t)'
        BY <1>2, Zenon DEF Has, At
      <4>. QED
        BY <3>1, <4>1, Zenon
    <3>2. CASE d # c
      BY <1>2, <3>2, Zenon DEF Has
    <3>. QED
      BY <3>1, <3>2, Zenon
  <2>. QED
    BY <2>1, <2>2, <2>3, SameDevice, Zenon
<1>. QED
  BY <1>3, NothingSeen, Zenon

(* A client that finds its tracker connection broken, with no reply in it, *)
(* holds no device: the pool sees nothing.                                 *)
LEMMA TrackerResetSeen ==
  ASSUME RpcAssumption, FarmInv, FarmInv', NEW c \in Clients, TrackerReset(c)
  PROVE  PoolStep
<1>1. /\ step[c] \in {"request", "wait"} /\ inbox[c] = None /\ NextTry(c, TRUE)
      /\ values' = values /\ state' = state /\ matchkey' = matchkey /\ serving' = serving
      /\ backlog' = backlog
  BY Zenon DEF TrackerReset, serverVars
<1>2. value[c] = None
  <2>1. value[c] # None <=> step[c] \in {"handshake", "session"}
    BY WaitFacts, Zenon
  <2>. QED
    BY <1>1, <2>1
<1>3. \A t \in Servers : ~Has(c, t)
  BY <1>1, <1>2, Zenon DEF Has, At
<1>4. \A t \in Servers : Called(t)' <=> Called(t)
  BY <1>1, Zenon DEF Called
<1>. QED
  BY <1>1, <1>3, <1>4, TryUnseen, Zenon

(* A client whose handshake is refused had the key of a server that is     *)
(* dead or one that was replaced.                                          *)
LEMMA RefusedSeen ==
  ASSUME RpcAssumption, FarmInv, FarmInv', NEW c \in Clients, Refused(c)
  PROVE  PoolStep
<1>1. /\ NextTry(c, FALSE) /\ backlog' = backlog
      /\ values' = values /\ state' = state /\ matchkey' = matchkey /\ serving' = serving
  BY Zenon DEF Refused, serverVars
<1>2. \/ step[c] = "wait" /\ inbox[c] # None /\ state[inbox[c].server] = "dead"
      \/ step[c] = "handshake" /\ \A e \in Range(backlog[value[c].server]) : e.client # c
  BY Zenon DEF Refused
<1>3. /\ inbox[c] # None => step[c] = "wait"
      /\ value[c] # None <=> step[c] \in {"handshake", "session"}
  BY WaitFacts, Zenon
<1>4. ASSUME NEW t \in Servers, At(inbox[c], t, matchkey[t]) PROVE FALSE
  <2>1. inbox[c] # None /\ inbox[c].server = t /\ inbox[c].key = matchkey[t]
    BY <1>4, Zenon DEF At
  <2>2. inbox[c] \in Values
    BY <2>1 DEF FarmInv, Types
  <2>3. inbox[c].key \in Keys
    BY <2>2, Zenon DEF Values
  <2>4. state[t] = "dead"
    BY <1>2, <1>3, <2>1, Zenon
  <2>5. matchkey[t] = None
    <3>1. matchkey[t] # None <=> state[t] \in {"listen", "serving"}
      BY SessionFacts, Zenon
    <3>. QED
      BY <2>4, <3>1, Zenon
  <2>. QED
    BY <2>1, <2>3, <2>5, NoneIsNot, Zenon
<1>5. ASSUME NEW t \in Servers, At(value[c], t, matchkey[t]) PROVE FALSE
  <2>1. value[c] # None /\ value[c].server = t
    BY <1>5, Zenon DEF At
  <2>2. step[c] = "handshake" /\ \A e \in Range(backlog[t]) : e.client # c
    BY <1>2, <1>3, <2>1
  <2>3. PICK e \in Calls : IsOf(e, backlog[t]) /\ e.client = c
    BY <1>5, <2>2, SessionFacts, Zenon
  <2>4. backlog[t] \in Seq(Calls)
    BY Zenon DEF FarmInv, Types
  <2>5. DOMAIN backlog[t] = 1 .. Len(backlog[t])
    BY <2>4, SMT, SMTT(20)
  <2>6. e \in Range(backlog[t])
    BY <2>3, <2>5, Zenon DEF IsOf, Range
  <2>. QED
    BY <2>2, <2>3, <2>6, Zenon
<1>6. \A t \in Servers : ~Has(c, t)
  BY <1>4, <1>5, Zenon DEF Has
<1>7. \A t \in Servers : Called(t)' <=> Called(t)
  BY <1>1 DEF Called
<1>. QED
  BY <1>1, <1>6, <1>7, TryUnseen, Zenon

(* A call with a key that was replaced changes nothing for the pool. *)
LEMMA AcceptMismatchSeen ==
  ASSUME RpcAssumption, FarmInv, FarmInv', NEW s \in Servers, AcceptMismatch(s)
  PROVE  PoolStep
<1>. DEFINE h == Head(backlog[s])
<1>1. /\ backlog[s] # <<>> /\ h.key # matchkey[s] /\ backlog' = [backlog EXCEPT ![s] = Tail(@)]
      /\ IF h.client = None THEN UNCHANGED <<inbox, clientVars>> ELSE NextTry(h.client, FALSE)
      /\ values' = values /\ state' = state /\ matchkey' = matchkey /\ serving' = serving
  BY Zenon DEF AcceptMismatch, Expected
<1>2. /\ h \in Calls /\ IsOf(h, backlog[s]) /\ \A t \in Servers : t # s => backlog'[t] = backlog[t]
      /\ \A x : IsOf(x, backlog[s]) => x = h \/ IsOf(x, backlog'[s])
      /\ \A x : IsOf(x, backlog'[s]) => IsOf(x, backlog[s])
  BY <1>1, BacklogTaken, Zenon
<1>. HIDE DEF h
<1>3. ASSUME NEW t \in Servers PROVE Called(t)' <=> Called(t)
  <2>1. CASE t = s
    <3>1. ASSUME NEW e \in Calls, e.key = matchkey[s]
          PROVE  IsOf(e, backlog'[s]) <=> IsOf(e, backlog[s])
      BY <1>1, <1>2, <3>1, Zenon
    <3>2. (\E e \in Calls : IsOf(e, backlog'[s]) /\ e.key = matchkey[s]) <=> Called(s)
      BY <3>1, Zenon DEF Called
    <3>. QED
      BY <1>1, <2>1, <3>2 DEF Called
  <2>2. CASE t # s
    <3>1. backlog'[t] = backlog[t]
      BY <1>2, <2>2, Zenon
    <3>. QED
      BY <1>1, <3>1 DEF Called
  <2>. QED
    BY <2>1, <2>2, Zenon
<1>4. CASE h.client = None
  <2>1. inbox' = inbox /\ value' = value
    BY <1>1, <1>4 DEF clientVars
  <2>2. ASSUME NEW t \in Servers PROVE Kept(t)
    <3>1. View(t) /\ View(t)'
      BY Views, Zenon
    <3>2. (Offered(t)' <=> Offered(t)) /\ \A d \in Clients : Has(d, t)' <=> Has(d, t)
      BY <1>1, <2>1 DEF Offered, Has
    <3>. QED
      BY <1>1, <1>3, <3>1, <3>2, SameDevice, Zenon
  <2>. QED
    BY <2>2, NothingSeen, Zenon
<1>5. CASE h.client # None
  <2>1. h.client \in Clients
    BY <1>2, <1>5 DEF Calls
  <2>2. step[h.client] = "handshake" /\ value[h.client].server = s /\ value[h.client].key = h.key
    BY <1>2, <2>1, CallOf, SMT, SMTT(20)
  <2>3. inbox[h.client] = None
    <3>1. inbox[h.client] # None => step[h.client] = "wait"
      BY <2>1, WaitFacts, Zenon
    <3>. QED
      BY <2>2, <3>1, Zenon
  <2>4. \A t \in Servers : ~Has(h.client, t)
    BY <1>1, <2>2, <2>3, Zenon DEF Has, At
  <2>5. NextTry(h.client, FALSE)
    BY <1>1, <1>5, Zenon
  <2>. QED
    BY <1>1, <1>3, <2>1, <2>4, <2>5, TryUnseen, Zenon
<1>. QED
  BY <1>4, <1>5, Zenon

(* The first call shows the current key: the device goes from granted to   *)
(* busy with the client that was given the key, or with nobody.            *)
LEMMA AcceptMatchSeen ==
  ASSUME RpcAssumption, FarmInv, FarmInv', NEW s \in Servers, AcceptMatch(s)
  PROVE  PoolStep
<1>. DEFINE h == Head(backlog[s])
<1>1. /\ state[s] = "listen" /\ backlog[s] # <<>> /\ h.key = matchkey[s]
      /\ backlog' = [backlog EXCEPT ![s] = Tail(@)]
      /\ state' = [state EXCEPT ![s] = "serving"] /\ serving' = [serving EXCEPT ![s] = h.client]
      /\ values' = values /\ inbox' = inbox /\ matchkey' = matchkey /\ value' = value
  BY Zenon DEF AcceptMatch, Expected, trackerVars
<1>2. /\ h \in Calls /\ IsOf(h, backlog[s]) /\ \A t \in Servers : t # s => backlog'[t] = backlog[t]
  BY <1>1, BacklogTaken, Zenon
<1>. HIDE DEF h
<1>3. /\ state'[s] = "serving" /\ serving'[s] = h.client
      /\ \A t \in Servers : t # s => state'[t] = state[t] /\ serving'[t] = serving[t]
  BY <1>1, SMT, SMTT(20) DEF FarmInv, Types
<1>4. ASSUME NEW t \in Servers, t # s PROVE Kept(t)
  <2>1. Offered(t)' <=> Offered(t)
    BY <1>1, Zenon DEF Offered
  <2>2. /\ state'[t] = state[t] /\ matchkey'[t] = matchkey[t] /\ serving'[t] = serving[t]
        /\ backlog'[t] = backlog[t]
    BY <1>1, <1>2, <1>3, <1>4, Zenon
  <2>. QED
    BY <1>1, <2>1, <2>2, OtherKept, Zenon
<1>5. Called(s)
  BY <1>1, <1>2, Zenon DEF Called
<1>6. ~Offered(s) /\ View(s) /\ View(s)'
  BY <1>5, OnePlace, Views, Zenon
<1>7. h.client \in Clients \cup {None}
  BY <1>2 DEF Calls
<1>8. /\ h.client # None => At(value[h.client], s, h.key)
      /\ \A d \in Clients : ~At(inbox[d], s, h.key) /\ (At(value[d], s, h.key) => h.client = d)
  BY <1>2, CallFacts, Zenon
<1>9. Sees(s, "granted", h.client)
  <2>1. CASE h.client = None
    <3>1. \A d \in Clients : ~Has(d, s)
      BY <1>1, <1>8, <2>1, NoneIsNot, Zenon DEF Has
    <3>2. Unheld(s)
      BY <1>6, <3>1, Zenon DEF Unheld
    <3>. QED
      BY <1>1, <1>5, <1>6, <2>1, <3>2, Zenon DEF View
  <2>2. CASE h.client # None
    <3>1. h.client \in Clients
      BY <1>7, <2>2
    <3>2. Has(h.client, s)
      BY <1>1, <1>8, <2>2, Zenon DEF Has
    <3>. QED
      BY <1>1, <1>6, <3>1, <3>2, Zenon DEF View
  <2>. QED
    BY <2>1, <2>2, Zenon
<1>10. Device(s)' = "busy" /\ User(s)' = h.client
  <2>1. Sees(s, "busy", serving[s])'
    BY <1>3, <1>6 DEF View
  <2>2. Device(s)' = "busy" /\ User(s)' = serving'[s]
    BY <2>1, Zenon DEF Sees
  <2>. QED
    BY <1>3, <2>2
<1>11. Device(s) = "granted" /\ User(s) = h.client
  BY <1>9, Zenon DEF Sees
<1>. QED
  BY <1>4, <1>10, <1>11, UseSeen
-----------------------------------------------------------------------------
(* The tracker's death withdraws the devices that were free. *)
LEMMA KillTrackerSeen ==
  ASSUME RpcAssumption, FarmInv, FarmInv', KillTracker
  PROVE  PoolStep
<1>1. /\ values' = <<>> /\ inbox' = inbox /\ value' = value /\ state' = state
      /\ matchkey' = matchkey /\ backlog' = backlog /\ serving' = serving
  BY Zenon DEF KillTracker, TrackerDies
<1>2. \A t \in Servers : ~Offered(t)'
  <2>1. Len(values') = 0 /\ 1 .. 0 = {}
    BY <1>1, SMT, SMTT(20)
  <2>2. \A x : ~IsOf(x, values')
    BY <2>1, Zenon DEF IsOf
  <2>. QED
    BY <2>2 DEF Offered
<1>. DEFINE lost == {t \in Servers : state[t] = "listen" /\ Offered(t)}
<1>3. ASSUME NEW t \in Servers, t \notin lost PROVE Kept(t)
  <2>1. View(t) /\ View(t)'
    BY Views, Zenon
  <2>2. (\A c \in Clients : Has(c, t)' <=> Has(c, t)) /\ (Called(t)' <=> Called(t))
    BY <1>1, Zenon DEF Has, Called
  <2>3. state[t] = "listen" => ~Offered(t) /\ ~Offered(t)'
    BY <1>2, <1>3
  <2>. QED
    BY <1>1, <2>1, <2>2, <2>3, SameDevice, Zenon
<1>4. ASSUME NEW t \in lost PROVE Sees(t, "away", None)'
  <2>1. View(t)' /\ t \in Servers /\ state'[t] = "listen"
    BY <1>1, <1>4, Views
  <2>2. ~Called(t) /\ \A c \in Clients : ~Has(c, t)
    BY <1>4, OnePlace
  <2>3. Unheld(t)' /\ ~Called(t)'
    BY <1>1, <1>2, <2>1, <2>2 DEF Unheld, Has, Called
  <2>. QED
    BY <2>1, <2>3 DEF View
<1>. QED
  BY <1>3, <1>4, WithdrawSeen, Zenon

(* The end of a session withdraws its device until the server registers a  *)
(* new key.                                                                *)
LEMMA SessionEndsSeen ==
  ASSUME RpcAssumption, FarmInv, FarmInv', NEW s \in Servers, SessionEnds(s)
  PROVE  PoolStep
<1>1. /\ state' = [state EXCEPT ![s] = "register"] /\ serving' = [serving EXCEPT ![s] = None]
      /\ matchkey' = [matchkey EXCEPT ![s] = None] /\ backlog' = backlog
      /\ values' = values /\ inbox' = inbox /\ value' = value
  BY Zenon DEF SessionEnds, clientVars, trackerVars
<1>2. /\ state'[s] \notin {"serving", "listen"}
      /\ \A t \in Servers : t # s =>
           state'[t] = state[t] /\ matchkey'[t] = matchkey[t] /\ serving'[t] = serving[t]
  BY <1>1, SMT, SMTT(20) DEF FarmInv, Types
<1>3. ASSUME NEW t \in Servers, t # s PROVE Kept(t)
  <2>1. matchkey'[t] = matchkey[t] /\ backlog'[t] = backlog[t]
    BY <1>1, <1>2, <1>3, Zenon
  <2>2. Offered(t)' <=> Offered(t)
    BY <1>1, <2>1, Zenon DEF Offered
  <2>. QED
    BY <1>1, <1>2, <1>3, <2>1, <2>2, OtherKept, Zenon
<1>4. Sees(s, "away", None)'
  BY <1>2, AwaySeen, Zenon
<1>. QED
  BY <1>3, <1>4, OneWithdrawn, Zenon

(* A server that starts over has no device in the pool yet. *)
LEMMA ServerStartsSeen ==
  ASSUME RpcAssumption, FarmInv, FarmInv', NEW s \in Servers, ServerStarts(s)
  PROVE  PoolStep
<1>1. /\ state[s] = "dead" /\ state' = [state EXCEPT ![s] = "register"]
      /\ values' = values /\ inbox' = inbox /\ value' = value
      /\ matchkey' = matchkey /\ backlog' = backlog /\ serving' = serving
  BY Zenon DEF ServerStarts, clientVars, trackerVars
<1>2. state'[s] = "register" /\ \A t \in Servers : t # s => state'[t] = state[t]
  BY <1>1, SMT, SMTT(20) DEF FarmInv, Types
<1>3. ASSUME NEW t \in Servers, state'[t] # state[t]
      PROVE  state[t] \notin {"serving", "listen"} /\ state'[t] \notin {"serving", "listen"}
  <2>1. t = s
    BY <1>2, <1>3, Zenon
  <2>. QED
    BY <1>1, <1>2, <2>1, Zenon
<1>. QED
  BY <1>1, <1>3, NothingMoved, Zenon

(* The tracker's close of a client's connection: the pool sees nothing. *)
LEMMA CloseClientSeen ==
  ASSUME RpcAssumption, FarmInv, FarmInv', NEW i \in DOMAIN requests, CloseClient(i),
         UNCHANGED <<serverVars, clientVars>>
  PROVE  PoolStep
<1>1. /\ state' = state /\ values' = values /\ inbox' = inbox /\ value' = value
      /\ matchkey' = matchkey /\ backlog' = backlog /\ serving' = serving
  BY Zenon DEF CloseClient, clientVars, serverVars
<1>. QED
  BY <1>1, NothingMoved, Zenon

(* A client that is over: the device it was granted or used has no user    *)
(* any more, and is back with its server if its key was not yet shown.     *)
LEMMA LeaveSeen ==
  ASSUME RpcAssumption, FarmInv, FarmInv', NEW c \in Clients, Leave(c)
  PROVE  PoolStep
<1>1. /\ values' = values /\ inbox' = [inbox EXCEPT ![c] = None]
      /\ value' = [value EXCEPT ![c] = None]
      /\ backlog' = [s \in Servers |-> Orphaned(backlog[s], c)]
      /\ serving' = [s \in Servers |-> IF serving[s] = c THEN None ELSE serving[s]]
      /\ state' = state /\ matchkey' = matchkey
  BY Zenon DEF Leave, ClientHangsUp, Orphaned, Orphan
<1>2. /\ inbox'[c] = None /\ value'[c] = None
      /\ \A d \in Clients : d # c => inbox'[d] = inbox[d] /\ value'[d] = value[d]
  BY <1>1, SMT, SMTT(20) DEF FarmInv, Types
<1>3. ASSUME NEW t \in Servers PROVE Called(t)' <=> Called(t)
  <2>1. backlog[t] \in Seq(Calls) /\ CallsOnce(backlog[t]) /\ backlog'[t] = Orphaned(backlog[t], c)
    BY <1>1, SMT, SMTT(20) DEF FarmInv, Types, CallsInv
  <2>2. \A x : IsOf(x, Orphaned(backlog[t], c)) <=>
          \E e \in Calls : IsOf(e, backlog[t]) /\ x = Orphan(e, c)
    BY <2>1, OrphanedCalls, Zenon
  <2>3. \A e \in Calls : Orphan(e, c) \in Calls /\ Orphan(e, c).key = e.key
    BY OrphanCall, Zenon
  <2>4. (\E x \in Calls : IsOf(x, Orphaned(backlog[t], c)) /\ x.key = matchkey[t]) <=> Called(t)
    <3>1. ASSUME NEW x \in Calls, IsOf(x, Orphaned(backlog[t], c)), x.key = matchkey[t]
          PROVE  Called(t)
      <4>1. PICK e \in Calls : IsOf(e, backlog[t]) /\ x = Orphan(e, c)
        BY <2>2, <3>1, Zenon
      <4>2. e.key = matchkey[t]
        BY <2>3, <3>1, <4>1
      <4>. QED
        BY <4>1, <4>2, Zenon DEF Called
    <3>2. ASSUME NEW e \in Calls, IsOf(e, backlog[t]), e.key = matchkey[t]
          PROVE  \E x \in Calls : IsOf(x, Orphaned(backlog[t], c)) /\ x.key = matchkey[t]
      <4>1. Orphan(e, c) \in Calls /\ Orphan(e, c).key = matchkey[t]
        BY <2>3, <3>2, Zenon
      <4>2. IsOf(Orphan(e, c), Orphaned(backlog[t], c))
        BY <2>2, <3>2, Zenon
      <4>. QED
        BY <4>1, <4>2, Zenon
    <3>. QED
      BY <3>1, <3>2, Zenon DEF Called
  <2>. QED
    BY <1>1, <2>1, <2>4, Zenon DEF Called
<1>4. ASSUME NEW t \in Servers, NEW d \in Clients PROVE Has(d, t)' <=> Has(d, t) /\ d # c
  <2>1. CASE d = c
    BY <1>2, <2>1, Zenon DEF Has, At
  <2>2. CASE d # c
    BY <1>1, <1>2, <2>2 DEF Has
  <2>. QED
    BY <2>1, <2>2, Zenon
<1>5. ASSUME NEW t \in Servers PROVE View(t) /\ View(t)' /\ (Offered(t)' <=> Offered(t))
  <2>1. Offered(t)' <=> Offered(t)
    BY <1>1 DEF Offered
  <2>. QED
    BY <2>1, Views, Zenon
<1>6. ASSUME NEW t \in Servers, serving[t] = c PROVE Has(c, t)
  <2>1. serving[t] # None
    BY <1>6, NoneIsNot, Zenon
  <2>2. At(value[serving[t]], t, matchkey[t])
    BY <2>1, SessionFacts, Zenon
  <2>. QED
    BY <1>6, <2>2 DEF Has
<1>7. ASSUME NEW t \in Servers, ~Has(c, t) PROVE Kept(t)
  <2>1. serving'[t] = serving[t] /\ state'[t] = state[t]
    BY <1>1, <1>6, <1>7, Zenon
  <2>2. \A d \in Clients : Has(d, t)' <=> Has(d, t)
    BY <1>4, <1>7, Zenon
  <2>. QED
    BY <1>3, <1>5, <2>1, <2>2, SameDevice, Zenon
<1>8. CASE \A t \in Servers : ~Has(c, t)
  BY <1>7, <1>8, NothingSeen, Zenon
<1>9. ASSUME NEW s \in Servers, Has(c, s) PROVE PoolStep
  <2>1. ASSUME NEW t \in Servers, t # s PROVE Kept(t)
    <3>1. /\ inbox[c] # None => step[c] = "wait"
          /\ value[c] # None <=> step[c] \in {"handshake", "session"}
      BY WaitFacts, Zenon
    <3>2. ~Has(c, t)
      BY <1>9, <2>1, <3>1 DEF Has, At
    <3>. QED
      BY <1>7, <3>2, Zenon
  <2>2. CASE state[s] = "serving"
    <3>1. serving[s] = c
      BY <1>9, <2>2, SessionFacts, Zenon DEF Has
    <3>2. serving'[s] = None /\ state'[s] = "serving"
      BY <1>1, <2>2, <3>1
    <3>3. Device(s) = "busy"
      BY <1>5, <2>2, Zenon DEF View, Sees
    <3>4. Device(s)' = "busy" /\ User(s)' = None
      BY <1>5, <3>2, ZenonT(40) DEF View, Sees
    <3>. QED
      BY <2>1, <3>3, <3>4, AbandonSeen
  <2>3. CASE state[s] = "listen"
    <3>1. state'[s] = "listen"
      BY <1>1, <2>3
    <3>2. Unheld(s)'
      <4>1. ~Offered(s) /\ \A d \in Clients : Has(d, s) => d = c
        BY <1>9, OnePlace, Zenon
      <4>2. ~Offered(s)' /\ \A d \in Clients : ~Has(d, s)'
        BY <1>4, <1>5, <4>1, Zenon
      <4>. QED
        BY <4>2, Zenon DEF Unheld
    <3>3. CASE Called(s)
      <4>1. Device(s) = "granted"
        BY <1>5, <1>9, <2>3, Zenon DEF View, Sees
      <4>2. Device(s)' = "granted" /\ User(s)' = None
        BY <1>3, <1>5, <3>1, <3>2, <3>3, Zenon DEF View, Sees
      <4>. QED
        BY <2>1, <4>1, <4>2, AbandonSeen
    <3>4. CASE ~Called(s)
      <4>1. Sees(s, "away", None)'
        BY <1>3, <1>5, <3>1, <3>2, <3>4, Zenon DEF View
      <4>. QED
        BY <2>1, <4>1, OneWithdrawn, Zenon
    <3>. QED
      BY <3>3, <3>4, Zenon
  <2>4. CASE state[s] \notin {"serving", "listen"}
    <3>1. state'[s] \notin {"serving", "listen"}
      BY <1>1, <2>4, Zenon
    <3>2. Sees(s, "away", None)'
      BY <3>1, AwaySeen, Zenon
    <3>. QED
      BY <2>1, <3>2, OneWithdrawn, Zenon
  <2>. QED
    BY <2>2, <2>3, <2>4, Zenon
<1>. QED
  BY <1>8, <1>9, Zenon

(* The offers of the other servers when one hangs up. *)
LEMMA OffersHung ==
  ASSUME FarmInv, RpcAssumption, NEW s \in Servers, ServerHangsUp(s), requests' = requests,
         NEW t \in Servers, t # s, matchkey'[t] = matchkey[t]
  PROVE  Offered(t)' <=> Offered(t)
<1>1. \A x : IsOf(x, values') <=> \E v \in Values : IsOf(v, values) /\ x = Hung(v, s)
  BY ServerHangsUpEffect, Zenon
<1>2. ASSUME Offered(t) PROVE Offered(t)'
  <2>1. PICK v \in Values : IsOf(v, values) /\ v.server = t /\ v.key = matchkey[t]
    BY <1>2, Zenon DEF Offered
  <2>2. Hung(v, s) = v
    BY <2>1, Zenon DEF Hung
  <2>3. IsOf(v, values')
    BY <1>1, <2>1, <2>2, Zenon
  <2>. QED
    BY <2>1, <2>3, Zenon DEF Offered
<1>3. ASSUME Offered(t)' PROVE Offered(t)
  <2>1. PICK x \in Values : IsOf(x, values') /\ x.server = t /\ x.key = matchkey'[t]
    BY <1>3, Zenon DEF Offered
  <2>2. PICK v \in Values : IsOf(v, values) /\ x = Hung(v, s)
    BY <1>1, <2>1, Zenon
  <2>3. v.server = t /\ v.key = matchkey[t]
    BY <2>1, <2>2, HungValue, Zenon
  <2>. QED
    BY <2>2, <2>3, Zenon DEF Offered
<1>. QED
  BY <1>2, <1>3, Zenon

(* The connection of a server to the tracker is dropped, or the server     *)
(* ends: its device is withdrawn.                                          *)
LEMMA ServerGoneSeen ==
  ASSUME RpcAssumption, FarmInv, FarmInv', NEW s \in Servers, ServerHangsUp(s),
         requests' = requests, inbox' = inbox, value' = value,
         state'[s] \notin {"serving", "listen"},
         \A t \in Servers : t # s =>
           /\ state'[t] = state[t] /\ matchkey'[t] = matchkey[t]
           /\ serving'[t] = serving[t] /\ backlog'[t] = backlog[t]
  PROVE  PoolStep
<1>1. ASSUME NEW t \in Servers, t # s PROVE Kept(t)
  <2>1. Offered(t)' <=> Offered(t)
    BY <1>1, OffersHung, Zenon
  <2>. QED
    BY <1>1, <2>1, OtherKept, Zenon
<1>2. Sees(s, "away", None)'
  BY AwaySeen, Zenon
<1>. QED
  BY <1>1, <1>2, OneWithdrawn, Zenon

(* A server that loses the tracker withdraws its device. *)
LEMMA TrackerLostSeen ==
  ASSUME RpcAssumption, FarmInv, FarmInv', NEW s \in Servers, TrackerLost(s)
  PROVE  PoolStep
<1>1. /\ ServerHangsUp(s) /\ state' = [state EXCEPT ![s] = "register"]
      /\ matchkey' = [matchkey EXCEPT ![s] = None] /\ backlog' = backlog /\ serving' = serving
      /\ requests' = requests /\ inbox' = inbox /\ value' = value
  BY Zenon DEF TrackerLost, DropTracker, clientVars
<1>2. /\ state'[s] \notin {"serving", "listen"}
      /\ \A t \in Servers : t # s => state'[t] = state[t] /\ matchkey'[t] = matchkey[t]
  BY <1>1, SMT, SMTT(20) DEF FarmInv, Types
<1>. QED
  BY <1>1, <1>2, ServerGoneSeen, Zenon

(* A server whose accept fails withdraws its device. *)
LEMMA AcceptFailsSeen ==
  ASSUME RpcAssumption, FarmInv, FarmInv', NEW s \in Servers, AcceptFails(s)
  PROVE  PoolStep
<1>1. /\ ServerHangsUp(s) /\ state' = [state EXCEPT ![s] = "register"]
      /\ matchkey' = [matchkey EXCEPT ![s] = None] /\ serving' = serving
      /\ backlog' = [backlog EXCEPT ![s] = Tail(@)]
      /\ requests' = requests /\ inbox' = inbox /\ value' = value
  BY Zenon DEF AcceptFails, DropTracker, clientVars
<1>2. /\ state'[s] \notin {"serving", "listen"}
      /\ \A t \in Servers : t # s =>
           state'[t] = state[t] /\ matchkey'[t] = matchkey[t] /\ backlog'[t] = backlog[t]
  BY <1>1, SMT, SMTT(20) DEF FarmInv, Types
<1>. QED
  BY <1>1, <1>2, ServerGoneSeen, Zenon

(* A server process that ends withdraws its device. *)
LEMMA ServerEndsSeen ==
  ASSUME RpcAssumption, FarmInv, FarmInv', NEW s \in Servers, ServerEnds(s)
  PROVE  PoolStep
<1>1. /\ ServerHangsUp(s) /\ state' = [state EXCEPT ![s] = "dead"]
      /\ matchkey' = [matchkey EXCEPT ![s] = None] /\ serving' = [serving EXCEPT ![s] = None]
      /\ backlog' = [backlog EXCEPT ![s] = <<>>]
      /\ requests' = requests /\ inbox' = inbox /\ value' = value
  BY Zenon DEF ServerEnds, clientVars
<1>2. /\ state'[s] \notin {"serving", "listen"}
      /\ \A t \in Servers : t # s =>
           /\ state'[t] = state[t] /\ matchkey'[t] = matchkey[t]
           /\ serving'[t] = serving[t] /\ backlog'[t] = backlog[t]
  BY <1>1, SMT, SMTT(20) DEF FarmInv, Types
<1>. QED
  BY <1>1, <1>2, ServerGoneSeen, Zenon
-----------------------------------------------------------------------------
(* A client that has no key, read or unread, uses no device. *)
LEMMA NoUser ==
  ASSUME RpcAssumption, FarmInv, NEW c \in Clients, inbox[c] = None, value[c] = None,
         NEW t \in Servers
  PROVE  User(t) # c
<1>1. View(t) /\ c # None
  BY ViewHolds, NoneIsNot, Zenon
<1>2. ~Has(c, t)
  BY Zenon DEF Has, At
<1>3. CASE state[t] = "serving"
  <2>1. User(t) = serving[t]
    BY <1>1, <1>3, Zenon DEF View, Sees
  <2>2. serving[t] # None => At(value[serving[t]], t, matchkey[t])
    BY SessionFacts, Zenon
  <2>3. serving[t] # c
    BY <1>1, <2>2, Zenon DEF At
  <2>. QED
    BY <2>1, <2>3, Zenon
<1>4. CASE state[t] = "listen"
  <2>1. CASE Offered(t)
    BY <1>1, <1>4, <2>1, Zenon DEF View, Sees
  <2>2. CASE Unheld(t)
    BY <1>1, <1>4, <2>2, Zenon DEF View, Sees
  <2>3. ASSUME NEW d \in Clients, Has(d, t) PROVE User(t) # c
    <3>1. User(t) = d
      BY <1>1, <1>4, <2>3, Zenon DEF View, Sees
    <3>. QED
      BY <1>2, <2>3, <3>1
  <2>. QED
    BY <2>1, <2>2, <2>3, Zenon DEF Unheld
<1>5. CASE state[t] \notin {"serving", "listen"}
  BY <1>1, <1>5, Zenon DEF View, Sees
<1>. QED
  BY <1>3, <1>4, <1>5, Zenon

(* Only a server in a session has a busy device. *)
LEMMA IdleDevice ==
  ASSUME NEW s, state[s] # "serving"
  PROVE  Device(s) # "busy"
  BY Zenon DEF Device

(* The PUT of a fresh key: it stays on offer, or a client that waits gets  *)
(* it, or the reply is lost.                                               *)
LEMMA OfferKeySeen ==
  ASSUME Library, RpcAssumption, FarmInv, FarmInv', NEW s \in Servers, OfferKey(s),
         state[s] \in {"register", "listen"},
         \A v \in Values : IsOf(v, values) /\ v.server = s => v.conn # "open",
         state'[s] = "listen", \A t \in Servers : t # s => state'[t] = state[t],
         UNCHANGED <<backlog, serving, clientVars>>
  PROVE  PoolStep
<1>1. PICK k \in Keys :
        /\ k \notin UsedKeys(s) /\ matchkey' = [matchkey EXCEPT ![s] = k]
        /\ Lists(Append(values, Offer(s, k)), requests, values', requests')
        /\ Replies(Append(values, Offer(s, k)), requests, values', requests', inbox, inbox')
  BY OfferKeyEffect, Zenon
<1>2. /\ backlog' = backlog /\ serving' = serving /\ value' = value
  BY Zenon DEF clientVars
<1>3. /\ \A v \in Values : IsOf(v, values) => ~(v.server = s /\ v.key = k)
      /\ \A c \in Clients : ~At(inbox[c], s, k) /\ ~At(value[c], s, k)
      /\ \A e \in Calls : IsOf(e, backlog[s]) => ~(e.server = s /\ e.key = k)
  BY <1>1, FreshKey, Zenon
<1>4. matchkey'[s] = k /\ \A t \in Servers : t # s => matchkey'[t] = matchkey[t]
  BY <1>1, ZenonT(40) DEF FarmInv, Types
<1>. DEFINE o == Offer(s, k)
            V == Append(values, o)
<1>5. o \in Values /\ o.server = s /\ o.key = k /\ o # None
  BY SMT, SMTT(20) DEF Offer, Values, RpcAssumption
<1>6. values \in Seq(Values) /\ (values = <<>> \/ requests = <<>>)
      /\ inbox \in [Clients -> Values \cup {None}]
  BY Zenon DEF FarmInv, Types, ListsInv
<1>. HIDE DEF o
<1>7. \A x : IsOf(x, V) <=> IsOf(x, values) \/ x = o
  <2>1. /\ Len(V) = Len(values) + 1 /\ V[Len(values) + 1] = o /\ Len(values) \in Nat
        /\ \A i \in 1 .. Len(values) : V[i] = values[i]
    BY <1>5, <1>6, SMT, SMTT(20)
  <2>. HIDE DEF V
  <2>2. \A i : i \in 1 .. Len(V) <=> i \in 1 .. Len(values) \/ i = Len(values) + 1
    BY <2>1, SMT, SMTT(20)
  <2>. QED
    BY <2>1, <2>2, Zenon DEF IsOf
<1>8. Lists(V, requests, values', requests') /\ Replies(V, requests, values', requests', inbox, inbox')
  BY <1>1, Zenon DEF o
<1>. HIDE DEF V
<1>9. ASSUME NEW x, IsOf(x, values) PROVE requests = <<>> /\ \A d : ~Asks(d, requests)
  <2>1. values # <<>>
    BY <1>6, <1>9, SMT, SMTT(20) DEF IsOf
  <2>2. requests = <<>>
    BY <1>6, <2>1, Zenon
  <2>. QED
    BY <2>2, SMT, SMTT(20) DEF Asks
<1>10. ASSUME NEW d \in Clients, inbox'[d] # inbox[d]
       PROVE  inbox'[d] = o /\ inbox[d] = None /\ value[d] = None
  <2>1. IsOf(inbox'[d], V) /\ Asks(d, requests)
    BY <1>8, <1>10, Zenon DEF Replies
  <2>2. inbox'[d] = o
    BY <1>7, <1>9, <2>1, Zenon
  <2>3. /\ step[d] = "wait" /\ inbox[d] = None
        /\ value[d] # None <=> step[d] \in {"handshake", "session"}
    BY <2>1, WaitFacts, Zenon
  <2>. QED
    BY <2>2, <2>3, Zenon
<1>11. ASSUME NEW x, IsOf(x, values') PROVE IsOf(x, values) \/ x = o
  <2>1. PICK j \in 1 .. Len(values') : x = values'[j]
    BY <1>11, Zenon DEF IsOf
  <2>2. IsOf(values'[j], V)
    BY <1>8, <2>1, Zenon DEF Lists
  <2>. QED
    BY <1>7, <2>1, <2>2, Zenon
<1>12. ASSUME NEW x, IsOf(x, V)
       PROVE  IsOf(x, values') \/ (\E d \in Clients : inbox'[d] = x) \/ Asks(None, requests)
  <2>1. PICK j \in 1 .. Len(V) : x = V[j]
    BY <1>12, Zenon DEF IsOf
  <2>2. IsOf(V[j], values') \/ (\E d \in Clients : inbox'[d] = V[j]) \/ Asks(None, requests)
    BY <1>8, <2>1, Zenon DEF Replies
  <2>. QED
    BY <2>1, <2>2, Zenon
<1>13. ASSUME NEW t \in Servers, t # s PROVE Kept(t)
  <2>1. ASSUME NEW x \in Values, x.server = t PROVE IsOf(x, values') <=> IsOf(x, values)
    <3>1. x # o
      BY <1>5, <1>13, <2>1, Zenon
    <3>2. ASSUME IsOf(x, values) PROVE IsOf(x, values')
      <4>1. ASSUME NEW d \in Clients, inbox'[d] = x PROVE FALSE
        <5>1. inbox[d] = x /\ x # None
          BY <1>10, <3>1, <4>1, NoneIsNot, Zenon DEF Values, RpcAssumption
        <5>. QED
          BY <3>2, <5>1, OfferFacts, Zenon DEF At
      <4>. QED
        BY <1>7, <1>9, <1>12, <3>2, <4>1, Zenon
    <3>. QED
      BY <1>11, <3>1, <3>2, Zenon
  <2>2. (\E x \in Values : IsOf(x, values') /\ x.server = t /\ x.key = matchkey[t]) <=> Offered(t)
    BY <2>1, Zenon DEF Offered
  <2>3. matchkey'[t] = matchkey[t] /\ state'[t] = state[t]
    BY <1>4, <1>13, Zenon
  <2>4. Offered(t)' <=> Offered(t)
    BY <2>2, <2>3, ZenonT(40) DEF Offered
  <2>5. ASSUME NEW d \in Clients PROVE Has(d, t)' <=> Has(d, t)
    <3>1. At(inbox'[d], t, matchkey[t]) <=> At(inbox[d], t, matchkey[t])
      BY <1>5, <1>10, <1>13, Zenon DEF At
    <3>. QED
      BY <1>2, <2>3, <3>1 DEF Has
  <2>6. Called(t)' <=> Called(t)
    BY <1>2, <2>3, Zenon DEF Called
  <2>7. View(t) /\ View(t)'
    BY Views, Zenon
  <2>. QED
    BY <1>2, <2>3, <2>4, <2>5, <2>6, <2>7, SameDevice, Zenon
<1>14. View(s)' /\ Device(s) # "busy"
  BY Views, IdleDevice, Zenon
<1>15. ~Called(s)'
  <2>1. ASSUME NEW e \in Calls, IsOf(e, backlog[s]) PROVE e.key # k
    BY <1>3, <2>1, CallFacts, Zenon
  <2>. QED
    BY <1>2, <1>4, <2>1, Zenon DEF Called
<1>16. ASSUME NEW d \in Clients PROVE Has(d, s)' <=> inbox'[d] = o
  <2>1. Has(d, s)' <=> At(inbox'[d], s, k)
    BY <1>2, <1>3, <1>4 DEF Has
  <2>. QED
    BY <1>3, <1>5, <1>10, <2>1, ZenonT(40) DEF At
<1>17. Offered(s)' <=> IsOf(o, values')
  <2>1. ASSUME NEW x \in Values, IsOf(x, values'), x.server = s, x.key = k PROVE x = o
    BY <1>3, <1>11, <2>1, Zenon
  <2>2. (\E x \in Values : IsOf(x, values') /\ x.server = s /\ x.key = k) <=> IsOf(o, values')
    BY <1>5, <2>1, Zenon
  <2>. QED
    BY <1>4, <2>2, Zenon DEF Offered
<1>18. CASE IsOf(o, values')
  <2>1. Sees(s, "free", None)'
    BY <1>14, <1>17, <1>18 DEF View
  <2>. QED
    BY <1>13, <1>14, <2>1, OfferSeen, Zenon
<1>19. ASSUME NEW c \in Clients, inbox'[c] = o PROVE PoolStep
  <2>1. inbox[c] = None /\ value[c] = None
    BY <1>3, <1>5, <1>10, <1>19, Zenon DEF At
  <2>2. \A t \in Servers : User(t) # c
    BY <2>1, NoUser, Zenon
  <2>3. Sees(s, "granted", c)'
    BY <1>14, <1>16, <1>19 DEF View
  <2>. QED
    BY <1>13, <1>14, <2>2, <2>3, GrantSeen, Zenon
<1>20. ASSUME ~IsOf(o, values'), \A c \in Clients : inbox'[c] # o PROVE PoolStep
  <2>1. Unheld(s)'
    BY <1>16, <1>17, <1>20 DEF Unheld
  <2>2. Sees(s, "away", None)'
    BY <1>14, <1>15, <2>1, Zenon DEF View
  <2>. QED
    BY <1>13, <2>2, OneWithdrawn, ZenonT(40)
<1>. QED
  BY <1>18, <1>19, <1>20, Zenon

(* A new key, through _schedule: the device is offered, or granted at once *)
(* to the client whose request it answers.                                 *)
LEMMA RegisterSeen ==
  ASSUME Library, RpcAssumption, FarmInv, FarmInv', NEW s \in Servers, Register(s)
  PROVE  PoolStep
<1>1. /\ state[s] = "register" /\ OfferKey(s) /\ state' = [state EXCEPT ![s] = "listen"]
      /\ UNCHANGED <<backlog, serving, clientVars>>
  BY Zenon DEF Register
<1>2. /\ state[s] \in {"register", "listen"} /\ state'[s] = "listen"
      /\ \A t \in Servers : t # s => state'[t] = state[t]
  BY <1>1, SMT, SMTT(20) DEF FarmInv, Types
<1>3. ASSUME NEW v \in Values, IsOf(v, values), v.server = s PROVE v.conn # "open"
  <2>1. v.conn = "open" => state[v.server] = "listen"
    BY <1>3, OfferFacts, Zenon
  <2>. QED
    BY <1>1, <1>3, <2>1, Zenon
<1>. QED
  BY <1>1, <1>2, <1>3, OfferKeySeen, Zenon

(* A ping keeps the key, which the pool does not see, or puts a new one,   *)
(* with the same two outcomes.                                             *)
LEMMA PingSeen ==
  ASSUME Library, RpcAssumption, FarmInv, FarmInv', NEW s \in Servers, Ping(s)
  PROVE  PoolStep
<1>1. /\ state[s] = "listen" /\ state' = state
      /\ IF Unmatched(s) > UnmatchedPings THEN OfferKey(s)
         ELSE values' = values /\ inbox' = inbox /\ matchkey' = matchkey
      /\ UNCHANGED <<backlog, serving, clientVars>>
  BY Zenon DEF Ping, trackerVars
<1>2. backlog' = backlog /\ serving' = serving /\ value' = value
  BY <1>1, Zenon DEF clientVars
<1>3. CASE ~(Unmatched(s) > UnmatchedPings)
  BY <1>1, <1>2, <1>3, NothingMoved, Zenon
<1>4. CASE Unmatched(s) > UnmatchedPings
  <2>1. OfferKey(s) /\ \A v \in Values : IsOf(v, values) /\ v.server = s => v.conn # "open"
    BY <1>1, <1>4, NotPending, Zenon
  <2>2. /\ state[s] \in {"register", "listen"} /\ state'[s] = "listen"
        /\ \A t \in Servers : t # s => state'[t] = state[t]
    BY <1>1, Zenon
  <2>. QED
    BY <1>1, <2>1, <2>2, OfferKeySeen, Zenon
<1>. QED
  BY <1>3, <1>4, Zenon

(* close of a server's connection: what it offered was no longer current.  *)
LEMMA CloseServerSeen ==
  ASSUME Library, RpcAssumption, FarmInv, FarmInv', NEW i \in DOMAIN values, CloseServer(i),
         UNCHANGED <<serverVars, clientVars>>
  PROVE  PoolStep
<1>. DEFINE V == Without(values, i)
<1>1. /\ state' = state /\ matchkey' = matchkey /\ backlog' = backlog /\ serving' = serving
      /\ value' = value
  BY Zenon DEF serverVars, clientVars
<1>2. /\ values[i] \in Values /\ values[i].conn = "hung"
      /\ \A x : IsOf(x, V) <=> IsOf(x, values) /\ x # values[i]
      /\ Lists(V, requests, values', requests')
      /\ Replies(V, requests, values', requests', inbox, inbox')
  BY CloseServerStep, Zenon
<1>. HIDE DEF V
<1>3. requests = <<>> /\ IsOf(values[i], values)
  <2>1. values \in Seq(Values) /\ (values = <<>> \/ requests = <<>>)
    BY Zenon DEF FarmInv, Types, ListsInv
  <2>2. values # <<>> /\ i \in 1 .. Len(values)
    BY <2>1, SMT, SMTT(20)
  <2>. QED
    BY <2>1, <2>2, Zenon DEF IsOf
<1>4. \A d : ~Asks(d, requests)
  BY <1>3, SMT, SMTT(20) DEF Asks
<1>5. inbox' = inbox
  <2>1. \A d \in Clients : inbox'[d] = inbox[d]
    BY <1>2, <1>4, Zenon DEF Replies
  <2>2. inbox \in [Clients -> Values \cup {None}] /\ inbox' \in [Clients -> Values \cup {None}]
    BY <1>2, Zenon DEF Replies, FarmInv, Types
  <2>. QED
    BY <2>1, <2>2, SMT, SMTT(20)
<1>6. ASSUME NEW x, IsOf(x, values') PROVE IsOf(x, V)
  <2>1. PICK j \in 1 .. Len(values') : x = values'[j]
    BY <1>6, Zenon DEF IsOf
  <2>2. IsOf(values'[j], V)
    BY <1>2, <2>1, Zenon DEF Lists
  <2>. QED
    BY <2>1, <2>2, Zenon
<1>7. ASSUME NEW x \in Values, IsOf(x, V) PROVE IsOf(x, values')
  <2>1. PICK j \in 1 .. Len(V) : x = V[j]
    BY <1>7, Zenon DEF IsOf
  <2>2. IsOf(x, values') \/ \E d \in Clients : inbox'[d] = x
    BY <1>2, <1>4, <2>1, Zenon DEF Replies
  <2>3. ASSUME NEW d \in Clients, inbox[d] = x PROVE FALSE
    <3>1. IsOf(x, values) /\ x # None
      BY <1>2, <1>7, NoneIsNot DEF Values, RpcAssumption
    <3>. QED
      BY <2>3, <3>1, OfferFacts, Zenon DEF At
  <2>. QED
    BY <1>5, <2>2, <2>3, Zenon
<1>8. ASSUME NEW t \in Servers PROVE Kept(t)
  <2>1. ASSUME NEW x \in Values, x.server = t, x.key = matchkey[t]
        PROVE  IsOf(x, values') <=> IsOf(x, values)
    <3>1. values[i].server = t => values[i].key # matchkey[t]
      BY <1>2, <1>3, OfferFacts, Zenon
    <3>2. x # values[i]
      BY <2>1, <3>1, Zenon
    <3>. QED
      BY <1>2, <1>6, <1>7, <3>2, Zenon
  <2>2. (\E x \in Values : IsOf(x, values') /\ x.server = t /\ x.key = matchkey[t]) <=> Offered(t)
    BY <2>1, Zenon DEF Offered
  <2>3. Offered(t)' <=> Offered(t)
    BY <1>1, <2>2, Zenon DEF Offered
  <2>. QED
    BY <1>1, <1>5, <2>3, OtherKept, Zenon
<1>. QED
  BY <1>8, NothingSeen, Zenon

(* A REQUEST: the client that asks gets a key on offer or waits; nobody    *)
(* else is given anything.                                                 *)
LEMMA SendRequestSeen ==
  ASSUME Library, RpcAssumption, FarmInv, FarmInv', NEW c \in Clients, step[c] \in {"idle", "request"},
         SendRequest(c)
  PROVE  PoolStep
<1>. DEFINE R == Push(requests, Asking(c))
            w == inbox'[c]
<1>1. /\ inbox[c] = None /\ value[c] = None /\ \A d : Asks(d, R) => Asks(d, requests) \/ d = c
      /\ Lists(values, R, values', requests')
      /\ Replies(values, R, values', requests', inbox, inbox')
  BY SendRequestStep, Zenon
<1>. HIDE DEF R
<1>2. /\ state' = state /\ matchkey' = matchkey /\ backlog' = backlog /\ serving' = serving
      /\ value' = value
  BY Zenon DEF SendRequest, serverVars
<1>3. ASSUME NEW x, IsOf(x, values) PROVE \A d : Asks(d, R) => d = c
  <2>1. values \in Seq(Values) /\ (values = <<>> \/ requests = <<>>)
    BY Zenon DEF FarmInv, Types, ListsInv
  <2>2. values # <<>>
    BY <1>3, <2>1, SMT, SMTT(20) DEF IsOf
  <2>3. \A d : ~Asks(d, requests)
    BY <2>1, <2>2, SMT, SMTT(20) DEF Asks
  <2>. QED
    BY <1>1, <2>3, Zenon
<1>4. ASSUME NEW d \in Clients, inbox'[d] # inbox[d]
      PROVE  d = c /\ IsOf(inbox'[d], values) /\ ~IsOf(inbox'[d], values')
  BY <1>1, <1>3, <1>4, Zenon DEF Replies
<1>5. ASSUME NEW x, IsOf(x, values') PROVE IsOf(x, values)
  <2>1. PICK j \in 1 .. Len(values') : x = values'[j]
    BY <1>5, Zenon DEF IsOf
  <2>2. IsOf(values'[j], values)
    BY <1>1, <2>1, Zenon DEF Lists
  <2>. QED
    BY <2>1, <2>2, Zenon
<1>6. ASSUME NEW x \in Values, IsOf(x, values) PROVE IsOf(x, values') \/ w = x
  <2>1. PICK j \in 1 .. Len(values) : x = values[j]
    BY <1>6, Zenon DEF IsOf
  <2>2. IsOf(x, values') \/ (\E d \in Clients : inbox'[d] = x) \/ Asks(None, R)
    BY <1>1, <2>1, Zenon DEF Replies
  <2>3. ~Asks(None, R)
    BY <1>3, <1>6, NoneIsNot, Zenon
  <2>4. ASSUME NEW d \in Clients, inbox'[d] = x PROVE w = x
    <3>1. x # None
      BY Zenon DEF Values, RpcAssumption
    <3>2. inbox[d] # x
      BY <1>6, <3>1, OfferFacts, Zenon DEF At
    <3>3. d = c
      BY <1>4, <2>4, <3>2, Zenon
    <3>. QED
      BY <2>4, <3>3, Zenon
  <2>. QED
    BY <2>2, <2>3, <2>4, Zenon
<1>7. w # None => w \in Values /\ IsOf(w, values) /\ ~IsOf(w, values')
  <2>1. w \in Values \cup {None}
    BY <1>1, Zenon DEF Replies
  <2>. QED
    BY <1>1, <1>4, <2>1
<1>. HIDE DEF w
<1>8. ASSUME NEW t \in Servers, ~At(w, t, matchkey[t]) PROVE Kept(t)
  <2>1. ASSUME NEW x \in Values, x.server = t, x.key = matchkey[t]
        PROVE  IsOf(x, values') <=> IsOf(x, values)
    <3>1. x # None
      BY Zenon DEF Values, RpcAssumption
    <3>2. w # x
      BY <1>8, <2>1, <3>1, Zenon DEF At
    <3>. QED
      BY <1>5, <1>6, <3>2, Zenon
  <2>2. (\E x \in Values : IsOf(x, values') /\ x.server = t /\ x.key = matchkey[t]) <=> Offered(t)
    BY <2>1, Zenon DEF Offered
  <2>3. Offered(t)' <=> Offered(t)
    BY <1>2, <2>2, Zenon DEF Offered
  <2>4. ASSUME NEW d \in Clients PROVE Has(d, t)' <=> Has(d, t)
    <3>1. At(inbox'[d], t, matchkey[t]) <=> At(inbox[d], t, matchkey[t])
      <4>1. CASE d = c
        BY <1>1, <1>8, <4>1, Zenon DEF w, At
      <4>2. CASE d # c
        BY <1>4, <4>2, Zenon
      <4>. QED
        BY <4>1, <4>2, Zenon
    <3>. QED
      BY <1>2, <3>1, Zenon DEF Has
  <2>5. Called(t)' <=> Called(t)
    BY <1>2, Zenon DEF Called
  <2>6. View(t) /\ View(t)'
    BY Views, Zenon
  <2>. QED
    BY <1>2, <2>3, <2>4, <2>5, <2>6, SameDevice, Zenon
<1>9. CASE \A t \in Servers : ~At(w, t, matchkey[t])
  BY <1>8, <1>9, NothingSeen, Zenon
<1>10. ASSUME NEW s \in Servers, At(w, s, matchkey[s]) PROVE PoolStep
  <2>1. w # None /\ w.server = s /\ w.key = matchkey[s]
    BY <1>10, Zenon DEF At
  <2>2. w \in Values /\ IsOf(w, values)
    BY <1>7, <2>1, Zenon
  <2>3. state[s] = "listen"
    <3>1. w.conn \in {"open", "hung"}
      BY <2>2, Zenon DEF Values
    <3>2. /\ w.conn = "open" => state[w.server] = "listen"
          /\ w.conn = "hung" => matchkey[w.server] # w.key
      BY <2>2, OfferFacts, Zenon
    <3>. QED
      BY <2>1, <3>1, <3>2, Zenon
  <2>4. ASSUME NEW t \in Servers, t # s PROVE Kept(t)
    <3>1. ~At(w, t, matchkey[t])
      BY <2>1, <2>4, Zenon DEF At
    <3>. QED
      BY <1>8, <3>1, Zenon
  <2>5. Has(c, s)'
    BY <1>2, <1>10, Zenon DEF Has, w
  <2>6. Sees(s, "granted", c)'
    <3>1. View(s)'
      BY Views, Zenon
    <3>. QED
      BY <1>2, <2>3, <2>5, <3>1, Zenon DEF View
  <2>7. Device(s) # "busy" /\ \A t \in Servers : User(t) # c
    BY <1>1, <2>3, IdleDevice, NoUser, Zenon
  <2>. QED
    BY <2>4, <2>6, <2>7, GrantSeen, Zenon
<1>. QED
  BY <1>9, <1>10, Zenon
-----------------------------------------------------------------------------
(* Every step of the farm is a step of the pool or a stutter. *)
LEMMA PoolGoesOn ==
  ASSUME Library, RpcAssumption, FarmInv, FarmInv', [Next]_vars
  PROVE  PoolStep
<1>1. ASSUME NEW s \in Servers, ServerStep(s) PROVE PoolStep
  BY <1>1, RegisterSeen, PingSeen, TrackerLostSeen, AcceptMatchSeen, AcceptMismatchSeen,
     AcceptFailsSeen, Zenon DEF ServerStep
<1>2. ASSUME NEW s \in Servers,
             SessionEnds(s) \/ ServerDies(s) \/ ServerGivesUp(s) \/ ServerStarts(s)
      PROVE  PoolStep
  BY <1>2, SessionEndsSeen, ServerEndsSeen, ServerStartsSeen, Zenon
     DEF ServerDies, ServerGivesUp
<1>3. ASSUME NEW c \in Clients, Again(c) \/ Start(c) PROVE PoolStep
  <2>1. step[c] \in {"idle", "request"} /\ SendRequest(c)
    BY <1>3, Zenon DEF Again, Start
  <2>. QED
    BY <2>1, SendRequestSeen, Zenon
<1>4. ASSUME NEW c \in Clients, TrackerReset(c) \/ Dial(c) \/ Refused(c) PROVE PoolStep
  BY <1>4, TrackerResetSeen, DialSeen, RefusedSeen, Zenon
<1>5. ASSUME NEW c \in Clients, GiveUp(c) \/ Kill(c) \/ EndSession(c) PROVE PoolStep
  BY <1>5, LeaveSeen, Zenon DEF GiveUp, Kill, EndSession
<1>6. ASSUME HandleClose PROVE PoolStep
  <2>1. UNCHANGED <<serverVars, clientVars>>
    BY <1>6, Zenon DEF HandleClose
  <2>2. (\E i \in DOMAIN values : CloseServer(i)) \/ \E i \in DOMAIN requests : CloseClient(i)
    BY <1>6, Zenon DEF HandleClose
  <2>. QED
    BY <2>1, <2>2, CloseServerSeen, CloseClientSeen, Zenon
<1>7. ASSUME KillTracker PROVE PoolStep
  BY <1>7, KillTrackerSeen, Zenon
<1>8. ASSUME RestartTracker \/ UNCHANGED vars PROVE PoolStep
  <2>1. /\ values' = values /\ inbox' = inbox /\ value' = value /\ state' = state
        /\ matchkey' = matchkey /\ backlog' = backlog /\ serving' = serving
    BY <1>8, Zenon DEF RestartTracker, vars, trackerVars, serverVars, clientVars
  <2>. QED
    BY <2>1, NothingMoved, Zenon
<1>. QED
  BY <1>1, <1>2, <1>3, <1>4, <1>5, <1>6, <1>7, <1>8, Zenon DEF Next, ClientStep
-----------------------------------------------------------------------------
INSTANCE FiniteSetTheorems

(* The library facts taken as a hypothesis hold. *)
LEMMA LibraryHolds == Library
<1>1. IsWellFoundedOn(OpToRel(<, Nat), Nat)
  BY NatLessThanWellFounded, Zenon
<1>2. ASSUME NEW S \in SUBSET Nat, S # {}
      PROVE  \E x \in S : \A y \in S : x <= y
  <2>1. PICK x \in S : \A y \in S : <<y, x>> \notin OpToRel(<, Nat)
    BY <1>1, <1>2, WFMin, Zenon
  <2>2. ASSUME NEW y \in S PROVE x <= y
    <3>1. <<y, x>> \notin OpToRel(<, Nat)
      BY <2>1, Zenon
    <3>2. ~(y < x)
      BY <3>1, Zenon DEF OpToRel
    <3>3. x \in Nat /\ y \in Nat
      BY Zenon
    <3>. QED
      BY <3>2, <3>3, SMT, SMTT(20)
  <2>. QED
    BY <2>2, Zenon
<1>3. ASSUME NEW S \in SUBSET Nat, 0 \in S, \A n \in S : n + 1 \in S PROVE S = Nat
  <2>1. SUFFICES ASSUME Nat \ S # {} PROVE FALSE
    BY Zenon
  <2>2. Nat \ S \in SUBSET Nat
    BY Zenon
  <2>3. PICK x \in Nat \ S : \A y \in Nat \ S : x <= y
    BY <1>2, <2>1, <2>2, Zenon
  <2>4. x - 1 \in Nat /\ ~(x <= x - 1) /\ (x - 1) + 1 = x
    BY <1>3, SMT, SMTT(20)
  <2>5. x - 1 \in S
    BY <2>3, <2>4, Zenon
  <2>. QED
    BY <1>3, <2>4, <2>5, Zenon
<1>4. ASSUME NEW S \in SUBSET Nat, S # {} PROVE Min(S) \in S
  BY <1>2, <1>4, Zenon DEF Min
<1>5. ASSUME NEW n \in Nat, NEW S \in SUBSET (1 .. n) PROVE Cardinality(S) \in 0 .. n
  <2>1. IsFiniteSet(1 .. n) /\ Cardinality(1 .. n) = n
    <3>1. 1 \in Int /\ n \in Int
      BY SMT, SMTT(20)
    <3>2. IsFiniteSet(1 .. n) /\ Cardinality(1 .. n) = IF 1 > n THEN 0 ELSE n - 1 + 1
      BY <3>1, FS_Interval, Zenon
    <3>. QED
      BY <3>2, SMT, SMTT(20)
  <2>2. IsFiniteSet(S) /\ Cardinality(S) <= n
    BY <2>1, FS_Subset, Zenon
  <2>3. Cardinality(S) \in Nat
    BY <2>2, FS_CardinalityType, Zenon
  <2>. QED
    BY <2>2, <2>3, SMT, SMTT(20)
<1>6. Cardinality({}) = 0 /\ \A x : Cardinality({x}) = 1
  BY FS_EmptySet, FS_Singleton, Zenon
<1>. QED
  BY <1>3, <1>4, <1>5, <1>6, Zenon DEF Library

(* In every state of the farm its lists, its offers, its clients, its      *)
(* calls and its sessions agree, whatever died in between.                 *)
THEOREM FarmInvariant == Spec => []FarmInv
<1>1. Init => FarmInv
  BY RpcAssumption, FarmStarts, Zenon
<1>2. FarmInv /\ [Next]_vars => FarmInv'
  BY LibraryHolds, RpcAssumption, FarmGoesOn, Zenon
<1>. QED
  BY <1>1, <1>2, PTL DEF Spec

(* In every reachable state the variables have their types: no queue       *)
(* exceeds its bound, no counter of tries or of pings passes its limit.    *)
THEOREM FarmTypes == Spec => []TypeOK
<1>1. FarmInv => TypeOK
  BY RpcAssumption, TypesHold, Zenon
<1>. QED
  BY <1>1, FarmInvariant, PTL

(* Between two handlers of the tracker a free device and a waiting request *)
(* never stand beside each other: _schedule runs wherever one of the two   *)
(* lists can grow, and stops only when one of them is empty.               *)
THEOREM FarmWorkConserving == Spec => []WorkConserving
<1>1. FarmInv => WorkConserving
  BY Zenon DEF FarmInv, ListsInv, WorkConserving
<1>. QED
  BY <1>1, FarmInvariant, PTL

(* The match keys the tracker reports as pending for a connection are      *)
(* exactly those of its offers in the free list, and a connection never    *)
(* offers its server twice, so what a ping concludes from them is true.    *)
THEOREM FarmPendingIsFree == Spec => []PendingIsFree
<1>1. FarmInv => PendingIsFree
  BY LibraryHolds, RpcAssumption, PendingHolds, Zenon
<1>. QED
  BY <1>1, FarmInvariant, PTL

(* A match key is in one place, the free list, a reply on its way or a     *)
(* client's hands, and the client a server serves is the one that was      *)
(* given its match key: two clients never have the same device.            *)
THEOREM FarmOneHolder == Spec => []OneHolder
<1>1. FarmInv => OneHolder
  BY LibraryHolds, RpcAssumption, HolderHolds, Zenon
<1>. QED
  BY <1>1, FarmInvariant, PTL

(* The farm is a pool of devices: every step of a server, a client or the  *)
(* tracker, deaths and late calls included, is an offer, a grant to a      *)
(* client that uses nothing else, a use of what was granted, an abandoning *)
(* or a withdrawal of the pool, or is not seen by it.                      *)
THEOREM FarmIsPoolHolds == Spec => FarmIsPool
<1>1. Init => Pool!Init
  BY RpcAssumption, PoolStarts, Zenon
<1>2. FarmInv /\ FarmInv' /\ [Next]_vars =>
        [Pool!Next]_<<[s \in Servers |-> Device(s)], [s \in Servers |-> User(s)]>>
  BY LibraryHolds, RpcAssumption, PoolGoesOn, Zenon DEF PoolStep
<1>. QED
  BY <1>1, <1>2, FarmInvariant, PTL DEF Spec, FarmIsPool, Pool!Spec
=============================================================================
