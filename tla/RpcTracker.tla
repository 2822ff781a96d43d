------------------------------ MODULE RpcTracker ------------------------------
(***************************************************************************)
(* The RPC tracker (python/tvm/rpc/tracker.py): the event loop that hands  *)
(* the devices its servers offer to the clients that request one.  One     *)
(* device key is modelled, the schedulers of different keys share nothing. *)
(* A value is an offer of a server, with the match key a client has to     *)
(* show there.  Every handler runs to its end in the event loop, so it is  *)
(* one action.  Of a connection matters whether its peer is still there    *)
(* ("open"), has hung up ("hung"), or hung up and was closed ("closed");   *)
(* one whose offers and requests are gone needs no name.                   *)
(***************************************************************************)
EXTENDS Naturals, Sequences, FiniteSets, Functions

CONSTANTS Servers, Clients, None

VARIABLES
  values,     \* _values, the free devices: server, match key, connection
  requests,   \* _requests, in the order of heappop: client, priority, connection
  pending,    \* pending_matchkeys of each server's connection
  inbox       \* the reply to a client's REQUEST, until it is read

trackerVars == <<values, requests, pending, inbox>>

TrackerInit ==
  /\ values = <<>> /\ requests = <<>>
  /\ pending = [s \in Servers |-> {}] /\ inbox = [c \in Clients |-> None]

(* heappush of (-priority, request_cnt, callback): the requests that are   *)
(* popped before r come first.                                             *)
Push_Lifo(queue, r) ==
  LET n == Cardinality({i \in DOMAIN queue : queue[i].priority > r.priority})
  IN SubSeq(queue, 1, n) \o <<r>> \o SubSeq(queue, n + 1, Len(queue))
Push(queue, r) ==
  LET n == Cardinality({i \in DOMAIN queue : queue[i].priority >= r.priority})
  IN SubSeq(queue, 1, n) \o <<r>> \o SubSeq(queue, n + 1, Len(queue))

(* One turn of the loop of _schedule, with the request r it pops: _cb      *)
(* takes the first value if it can write it to r's socket, otherwise the   *)
(* value goes to the end of the list.  With no value left the request      *)
(* stays in the queue.                                                     *)
Serve_NotRemoved(st, r, taken) ==
  IF st.values = <<>> THEN [st EXCEPT !.requests = Append(@, r)]
  ELSE [st EXCEPT !.values = Append(Tail(@), Head(@)),
                  !.granted = IF taken
                              THEN @ \cup {[client |-> r.client, value |-> Head(st.values)]}
                              ELSE @]
Serve(st, r, taken) ==
  IF st.values = <<>> THEN [st EXCEPT !.requests = Append(@, r)]
  ELSE [st EXCEPT !.values = IF taken THEN Tail(@) ELSE Append(Tail(@), Head(@)),
                  !.granted = IF taken
                              THEN @ \cup {[client |-> r.client, value |-> Head(st.values)]}
                              ELSE @]

(* The loop; accepting are the positions of the requests whose _cb returns *)
(* True.                                                                   *)
_schedule_Once(vals, reqs, accepting) ==
  LET st == [values |-> vals, requests |-> <<>>, granted |-> {}]
  IN IF vals = <<>> \/ reqs = <<>> THEN [st EXCEPT !.requests = reqs]
     ELSE [Serve(st, Head(reqs), 1 \in accepting) EXCEPT !.requests = Tail(reqs)]
_schedule(vals, reqs, accepting) ==
  LET after[i \in 0 .. Len(reqs)] ==
        IF i = 0 THEN [values |-> vals, requests |-> <<>>, granted |-> {}]
        ELSE Serve(after[i - 1], reqs[i], i \in accepting)
  IN after[Len(reqs)]

(* What _cb can return for the requests reqs: nobody reads what is written *)
(* to a peer that hung up, but the first write fails only if the network   *)
(* has noticed.                                                            *)
Accepting(reqs) ==
  LET positions(status) == {i \in DOMAIN reqs : reqs[i].conn = status}
  IN {positions("open") \cup unnoticed : unnoticed \in SUBSET positions("hung")}

(* What was granted: the match keys that _schedule removes from the        *)
(* pending ones of a server's connection, what _cb wrote to a client.      *)
Given(granted, s) ==
  {g.value.key : g \in {h \in granted : h.value.server = s /\ h.value.conn = "open"}}
Reply(granted, c) == {g.value : g \in {h \in granted : h.client = c}}

(* _schedule as the last call of a handler that leaves the values vals,    *)
(* the requests reqs and the match keys keys.                              *)
Scheduled(st, keys) ==
  /\ values' = st.values /\ requests' = st.requests
  /\ pending' = [s \in Servers |-> keys[s] \ Given(st.granted, s)]
  /\ inbox' = [c \in Clients |-> IF Reply(st.granted, c) = {} THEN inbox[c]
                                 ELSE CHOOSE v \in Reply(st.granted, c) : TRUE]

ScheduleStep(vals, reqs, keys) ==
  \E accepting \in Accepting(reqs) : Scheduled(_schedule(vals, reqs, accepting), keys)

(* on_message of a PUT. *)
Put(s, key) ==
  ScheduleStep(Append(values, [server |-> s, key |-> key, conn |-> "open"]),
               requests, [pending EXCEPT ![s] = @ \cup {key}])

(* on_message of a REQUEST. *)
Request(c, priority) ==
  ScheduleStep(values, Push(requests, [client |-> c, priority |-> priority, conn |-> "open"]),
               pending)

(* The end of the stream is read: close removes the connection's value     *)
(* from the free list, and calls _schedule if there was one; a request     *)
(* stays in the heap, with a callback that returns False.                  *)
CloseServer(i) ==
  /\ values[i].conn = "hung"
  /\ ScheduleStep(SubSeq(values, 1, i - 1) \o SubSeq(values, i + 1, Len(values)),
                  requests, pending)

CloseClient(i) ==
  /\ requests[i].conn = "hung"
  /\ requests' = [requests EXCEPT ![i].conn = "closed"]
  /\ UNCHANGED <<values, pending, inbox>>

(* A server and a client close their end of the connection. *)
ServerHangsUp(s) ==
  /\ values' = [i \in DOMAIN values |->
       IF values[i].server = s THEN [values[i] EXCEPT !.conn = "hung"] ELSE values[i]]
  /\ pending' = [pending EXCEPT ![s] = {}]

ClientHangsUp(c) ==
  /\ requests' = [i \in DOMAIN requests |->
       IF requests[i].client = c THEN [requests[i] EXCEPT !.client = None, !.conn = "hung"]
       ELSE requests[i]]
  /\ inbox' = [inbox EXCEPT ![c] = None]

(* The tracker's process dies.  What it has written can still be read.     *)
TrackerDies ==
  /\ values' = <<>> /\ requests' = <<>> /\ pending' = [s \in Servers |-> {}]
  /\ UNCHANGED inbox
-----------------------------------------------------------------------------
(* _schedule leaves no free device beside a request that waits: whatever   *)
(* mix of dead and living clients queued, one of the two lists is empty.   *)
WorkConserving == values = <<>> \/ requests = <<>>

(* The match keys a connection reports as pending (the answer to           *)
(* GET_PENDING_MATCHKEYS, from which the server concludes that its key was *)
(* given away) are exactly those of its values in the free list, and a     *)
(* connection never offers its server twice.                               *)
PendingIsFree ==
  \A s \in Servers :
    LET offers == {i \in DOMAIN values : values[i].server = s /\ values[i].conn = "open"}
    IN pending[s] = {values[i].key : i \in offers} /\ Cardinality(offers) <= 1
=============================================================================
