------------------------------ MODULE DevicePool ------------------------------
(***************************************************************************)
(* What the device farm promises its users, whatever happens to the        *)
(* tracker, the servers and the clients: a device is granted to one client *)
(* at a time, and a new grant makes the last one void; only the client it  *)
(* is granted to may use it; and while it is in use it is not granted.     *)
(***************************************************************************)
CONSTANTS Servers, Clients, None

VARIABLES device,     \* "away", "free", "granted" or "busy"
          user        \* whom it is granted to; None if nobody, or if the user is gone

Init == device = [s \in Servers |-> "away"] /\ user = [s \in Servers |-> None]

(* A device whose last grant was not used is offered again. *)
Offer(s) ==
  /\ device[s] # "busy"
  /\ device' = [device EXCEPT ![s] = "free"] /\ user' = [user EXCEPT ![s] = None]

(* An offer can be granted as soon as it is made. *)
Grant(s, c) ==
  /\ device[s] # "busy" /\ \A t \in Servers : user[t] # c
  /\ device' = [device EXCEPT ![s] = "granted"] /\ user' = [user EXCEPT ![s] = c]

Use(s) ==
  /\ device[s] = "granted"
  /\ device' = [device EXCEPT ![s] = "busy"] /\ UNCHANGED user

(* The user dies; its device stays taken until that is noticed. *)
Abandon(s) == user' = [user EXCEPT ![s] = None] /\ UNCHANGED device

Withdraw(lost) ==
  /\ device' = [s \in Servers |-> IF s \in lost THEN "away" ELSE device[s]]
  /\ user' = [s \in Servers |-> IF s \in lost THEN None ELSE user[s]]

Next ==
  \/ \E s \in Servers : Offer(s) \/ Use(s) \/ Abandon(s)
  \/ \E s \in Servers, c \in Clients : Grant(s, c)
  \/ \E lost \in SUBSET Servers : Withdraw(lost)

Spec == Init /\ [][Next]_<<device, user>>
=============================================================================
