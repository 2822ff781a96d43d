------------------------------ MODULE RpcDevices ------------------------------
(***************************************************************************)
(* The device farm: the tracker with the servers (rpc/server.py) that      *)
(* offer a device each and the clients (rpc/client.py) that measure on     *)
(* them.  A server registers a fresh match key, waits for the client that  *)
(* shows it, serves it in a child process and registers again; while it    *)
(* waits it pings the tracker, and offers a new key when the last one was  *)
(* taken and not used.  A client is a measuring process of the RPC runner, *)
(* which kills it when it exceeds its time, whatever it is doing.  Servers *)
(* and the tracker may die; the tracker may come back with nothing.        *)
(***************************************************************************)
EXTENDS RpcTracker, FiniteSetsExt

CONSTANTS Keys,             \* match keys of a server, random numbers: one that
                            \* nothing refers to is as good as a new one
          Priority,         \* the priority of each client's requests
          UnmatchedPings,   \* pings without the key pending before a new key
          Backlog,          \* connections a listening socket holds, listen(1)
          MaxRetry,         \* max_retry of TrackerSession.request
          MaxRequests, MaxFaults    \* bounds

ASSUME RpcAssumption ==
  /\ Priority \in [Clients -> Nat] /\ UnmatchedPings \in Nat /\ Backlog \in Nat \ {0}
  /\ Keys \subseteq Nat /\ None \notin Servers \cup Clients \cup Keys
  /\ None \notin {"open", "broken"} /\ None \notin [server : Servers, key : Keys]
  /\ None \notin [server : Servers, key : Keys, conn : {"open", "hung"}]
  /\ None \notin [client : Clients \cup {None}, server : Servers, key : Keys]
  /\ MaxRetry \in Nat \ {0} /\ MaxRequests \in Nat \ {0} /\ MaxFaults \in Nat

VARIABLES
  tracker,        \* "up" or "down"
  faults,         \* deaths of the tracker and of servers, killed clients
  state,          \* where _listen_loop is: "register", "listen", "serving", or
                  \* the server is "dead"
  sconn,          \* tracker_conn of the server: None, "open" or "broken"
  matchkey,       \* matchkey of _accept_conn, until the session it is for ends
  unmatched,      \* unmatch_period_count
  backlog,        \* connections to the listening socket
  serving,        \* the client of the running session, None if it is gone
  step,           \* the client: "idle", "request", "wait", "handshake", "session"
  cconn,          \* _sock of the TrackerSession: None, "open" or "broken"
  tries,          \* turns of the loop of request
  value           \* the server and key the tracker gave

serverVars == <<state, sconn, matchkey, unmatched, backlog, serving>>
clientVars == <<step, cconn, tries, value>>
vars == <<trackerVars, tracker, faults, serverVars, clientVars>>

Init ==
  /\ TrackerInit /\ tracker = "up" /\ faults = 0
  /\ state = [s \in Servers |-> "register"] /\ sconn = [s \in Servers |-> None]
  /\ matchkey = [s \in Servers |-> None] /\ unmatched = [s \in Servers |-> 0]
  /\ backlog = [s \in Servers |-> <<>>] /\ serving = [s \in Servers |-> None]
  /\ step = [c \in Clients |-> "idle"] /\ cconn = [c \in Clients |-> None]
  /\ tries = [c \in Clients |-> 0] /\ value = [c \in Clients |-> None]

(* The match keys of s that something refers to. *)
Mentioned == Range(values) \cup {value[c] : c \in Clients} \cup {inbox[c] : c \in Clients}
               \cup UNION {Range(backlog[s]) : s \in Servers}

UsedKeys(s) == {matchkey[s]} \cup {v.key : v \in {w \in Mentioned \ {None} : w.server = s}}

Fault == faults < MaxFaults /\ faults' = faults + 1
-----------------------------------------------------------------------------
(* The server. *)

(* PUT of a new match key. *)
OfferKey(s) ==
  /\ Keys \ UsedKeys(s) # {}
  /\ LET k == Min(Keys \ UsedKeys(s))
     IN Put(s, k) /\ matchkey' = [matchkey EXCEPT ![s] = k]
  /\ unmatched' = [unmatched EXCEPT ![s] = 0]

(* Step 1 of _listen_loop, if there is no connection: connect_with_retry   *)
(* and UPDATE_INFO; then the PUT with which _accept_conn starts.           *)
Register(s) ==
  /\ state[s] = "register" /\ tracker = "up" /\ sconn[s] \in {None, "open"}
  /\ OfferKey(s)
  /\ sconn' = [sconn EXCEPT ![s] = "open"] /\ state' = [state EXCEPT ![s] = "listen"]
  /\ UNCHANGED <<tracker, faults, backlog, serving, clientVars>>

(* The exception handler of _listen_loop: drop the connection, start over. *)
DropTracker(s) ==
  /\ ServerHangsUp(s)
  /\ sconn' = [sconn EXCEPT ![s] = None] /\ state' = [state EXCEPT ![s] = "register"]
  /\ matchkey' = [matchkey EXCEPT ![s] = None] /\ unmatched' = [unmatched EXCEPT ![s] = 0]

(* Nobody connected for ping_period: GET_PENDING_MATCHKEYS, and a new key  *)
(* when the current one has been away for too many pings.                  *)
Unmatched_Ignored(s) == unmatched[s]
Unmatched_NotChecked(s) == unmatched[s] + 1
Unmatched(s) == IF matchkey[s] \in pending[s] THEN 0 ELSE unmatched[s] + 1

Ping(s) ==
  /\ state[s] = "listen" /\ backlog[s] = <<>> /\ sconn[s] = "open"
  /\ IF Unmatched(s) > UnmatchedPings THEN OfferKey(s)
     ELSE /\ unmatched' = [unmatched EXCEPT ![s] = Unmatched(s)]
          /\ UNCHANGED <<trackerVars, matchkey>>
  /\ UNCHANGED <<tracker, faults, state, sconn, backlog, serving, clientVars>>

(* A message to the tracker finds the connection broken. *)
TrackerLost(s) ==
  /\ state[s] = "register" \/ (state[s] = "listen" /\ backlog[s] = <<>>)
  /\ sconn[s] = "broken"
  /\ DropTracker(s)
  /\ UNCHANGED <<requests, inbox, tracker, faults, backlog, serving, clientVars>>

(* accept of the next connection and the check of its key.  A peer that    *)
(* has hung up may have sent its key or not; without it, or when the       *)
(* answer cannot be written, the exception is taken for a lost tracker.    *)
Expected_Any(s) == TRUE
Expected(s) == Head(backlog[s]).key = matchkey[s]

AcceptMatch(s) ==
  /\ state[s] = "listen" /\ backlog[s] # <<>> /\ Expected(s)
  /\ backlog' = [backlog EXCEPT ![s] = Tail(@)]
  /\ state' = [state EXCEPT ![s] = "serving"]
  /\ LET c == Head(backlog[s]).client
     IN /\ serving' = [serving EXCEPT ![s] = c]
        /\ step' = IF c = None THEN step ELSE [step EXCEPT ![c] = "session"]
        /\ cconn' = IF c = None THEN cconn     \* request_remote drops its TrackerSession
                    ELSE [cconn EXCEPT ![c] = None]
  /\ UNCHANGED <<trackerVars, tracker, faults, sconn, matchkey, unmatched, tries, value>>

(* The loop of request: an error of the tracker closes the connection, an  *)
(* error of the server (TVMError) keeps it; the last one is raised.        *)
LastTry_OneMore(c) == tries[c] + 1 > MaxRetry
LastTry(c) == tries[c] + 1 >= MaxRetry

NextTry(c, lost_tracker) ==
  /\ step' = [step EXCEPT ![c] = IF LastTry(c) THEN "idle" ELSE "request"]
  /\ tries' = [tries EXCEPT ![c] = IF LastTry(c) THEN 0 ELSE @ + 1]
  /\ cconn' = [cconn EXCEPT ![c] = IF LastTry(c) \/ lost_tracker THEN None ELSE @]
  /\ value' = [value EXCEPT ![c] = None]
  /\ inbox' = [inbox EXCEPT ![c] = None]

AcceptMismatch(s) ==
  /\ state[s] = "listen" /\ backlog[s] # <<>> /\ ~Expected(s)
  /\ backlog' = [backlog EXCEPT ![s] = Tail(@)]
  /\ IF Head(backlog[s]).client = None THEN UNCHANGED <<inbox, clientVars>>
     ELSE NextTry(Head(backlog[s]).client, FALSE)
  /\ UNCHANGED <<values, requests, pending, tracker, faults, state, sconn, matchkey,
                 unmatched, serving>>

AcceptFails(s) ==
  /\ state[s] = "listen" /\ backlog[s] # <<>> /\ Head(backlog[s]).client = None
  /\ backlog' = [backlog EXCEPT ![s] = Tail(@)]
  /\ DropTracker(s)
  /\ UNCHANGED <<requests, inbox, tracker, faults, serving, clientVars>>

(* The session's process ends: its client is done or gone, or the process  *)
(* crashed, or it is killed after the timeout the client asked for.        *)
SessionEnds(s) ==
  /\ state[s] = "serving"
  /\ state' = [state EXCEPT ![s] = "register"]
  /\ serving' = [serving EXCEPT ![s] = None]
  /\ matchkey' = [matchkey EXCEPT ![s] = None] /\ unmatched' = [unmatched EXCEPT ![s] = 0]
  /\ UNCHANGED <<trackerVars, tracker, faults, sconn, backlog, clientVars>>

(* The server ends, on its own or because connect_with_retry gave up after *)
(* its timeout; it may be started again.                                   *)
ServerEnds(s) ==
  /\ ServerHangsUp(s)
  /\ sconn' = [sconn EXCEPT ![s] = None] /\ state' = [state EXCEPT ![s] = "dead"]
  /\ matchkey' = [matchkey EXCEPT ![s] = None] /\ unmatched' = [unmatched EXCEPT ![s] = 0]
  /\ serving' = [serving EXCEPT ![s] = None] /\ backlog' = [backlog EXCEPT ![s] = <<>>]
  /\ UNCHANGED <<requests, inbox, tracker, clientVars>>

ServerDies(s) ==
  /\ state[s] # "dead" /\ Fault
  /\ ServerEnds(s)

ServerGivesUp(s) ==
  /\ state[s] = "register" /\ sconn[s] = None /\ tracker = "down"
  /\ ServerEnds(s) /\ UNCHANGED faults

ServerStarts(s) ==
  /\ state[s] = "dead"
  /\ state' = [state EXCEPT ![s] = "register"]
  /\ UNCHANGED <<trackerVars, tracker, faults, sconn, matchkey, unmatched, backlog, serving,
                 clientVars>>
-----------------------------------------------------------------------------
(* The client. *)

(* One turn of the loop of request: connect if there is no connection,     *)
(* send the REQUEST.                                                       *)
SendRequest(c) ==
  /\ tracker = "up" /\ cconn[c] \in {None, "open"} /\ Len(requests) < MaxRequests
  /\ Request(c, Priority[c])
  /\ cconn' = [cconn EXCEPT ![c] = "open"] /\ step' = [step EXCEPT ![c] = "wait"]
  /\ UNCHANGED <<tracker, faults, serverVars, tries, value>>

Start(c) == step[c] = "idle" /\ SendRequest(c)
Again(c) == step[c] = "request" /\ SendRequest(c)

(* The connection to the tracker is broken, with no reply in it. *)
TrackerReset(c) ==
  /\ step[c] \in {"request", "wait"} /\ cconn[c] = "broken" /\ inbox[c] = None
  /\ NextTry(c, TRUE)
  /\ UNCHANGED <<values, requests, pending, tracker, faults, serverVars>>

(* The reply is read and the server called: connect sends the header with  *)
(* the match key at once.                                                  *)
Dial(c) ==
  /\ step[c] = "wait" /\ inbox[c] # None
  /\ LET s == inbox[c].server  k == inbox[c].key
     IN /\ state[s] # "dead" /\ Len(backlog[s]) < Backlog
        /\ value' = [value EXCEPT ![c] = [server |-> s, key |-> k]]
        /\ backlog' = [backlog EXCEPT ![s] = Append(@, [client |-> c, server |-> s, key |-> k])]
  /\ inbox' = [inbox EXCEPT ![c] = None]
  /\ step' = [step EXCEPT ![c] = "handshake"]
  /\ UNCHANGED <<values, requests, pending, tracker, faults, state, sconn, matchkey,
                 unmatched, serving, cconn, tries>>

(* The server refuses the connection, or resets it in the handshake. *)
Refused(c) ==
  /\ \/ step[c] = "wait" /\ inbox[c] # None /\ state[inbox[c].server] = "dead"
     \/ /\ step[c] = "handshake"
        /\ \A e \in Range(backlog[value[c].server]) : e.client # c
  /\ NextTry(c, FALSE)
  /\ UNCHANGED <<values, requests, pending, tracker, faults, serverVars>>

(* The client's process is over: its sockets are closed. *)
Leave(c) ==
  /\ ClientHangsUp(c)
  /\ cconn' = [cconn EXCEPT ![c] = None] /\ step' = [step EXCEPT ![c] = "idle"]
  /\ tries' = [tries EXCEPT ![c] = 0] /\ value' = [value EXCEPT ![c] = None]
  /\ backlog' = [s \in Servers |-> [i \in DOMAIN backlog[s] |->
       IF backlog[s][i].client = c THEN [backlog[s][i] EXCEPT !.client = None]
       ELSE backlog[s][i]]]
  /\ serving' = [s \in Servers |-> IF serving[s] = c THEN None ELSE serving[s]]
  /\ UNCHANGED <<values, pending, tracker, state, sconn, matchkey, unmatched>>

(* connect_with_retry gives up; the runner kills a client whose time is    *)
(* up; the measurement is over or the session lost.                        *)
GiveUp(c) ==
  step[c] = "request" /\ cconn[c] = None /\ tracker = "down" /\ Leave(c) /\ UNCHANGED faults
Kill(c) == step[c] \notin {"idle", "session"} /\ Leave(c) /\ Fault
EndSession(c) == step[c] = "session" /\ Leave(c) /\ UNCHANGED faults
-----------------------------------------------------------------------------
(* The tracker. *)

HandleClose ==
  /\ tracker = "up"
  /\ \/ \E i \in DOMAIN values : CloseServer(i)
     \/ \E i \in DOMAIN requests : CloseClient(i)
  /\ UNCHANGED <<tracker, faults, serverVars, clientVars>>

Broken(conn) == IF conn = "open" THEN "broken" ELSE conn

KillTracker ==
  /\ tracker = "up" /\ Fault
  /\ tracker' = "down"
  /\ TrackerDies
  /\ sconn' = [s \in Servers |-> Broken(sconn[s])]
  /\ cconn' = [c \in Clients |-> Broken(cconn[c])]
  /\ UNCHANGED <<state, matchkey, unmatched, backlog, serving, step, tries, value>>

RestartTracker ==
  /\ tracker = "down"
  /\ tracker' = "up"
  /\ UNCHANGED <<trackerVars, faults, serverVars, clientVars>>

ServerStep(s) ==
  \/ Register(s) \/ Ping(s) \/ TrackerLost(s)
  \/ AcceptMatch(s) \/ AcceptMismatch(s) \/ AcceptFails(s)

ClientStep(c) == Again(c) \/ TrackerReset(c) \/ Dial(c) \/ Refused(c)

Next ==
  \/ \E s \in Servers : \/ ServerStep(s) \/ SessionEnds(s)
                        \/ ServerDies(s) \/ ServerGivesUp(s) \/ ServerStarts(s)
  \/ \E c \in Clients : ClientStep(c) \/ Start(c) \/ GiveUp(c) \/ Kill(c) \/ EndSession(c)
  \/ HandleClose \/ KillTracker \/ RestartTracker

Spec == Init /\ [][Next]_vars

(* Processes that are not killed make progress and sessions end; the       *)
(* kernel repeats a connect that found the backlog full.  Deaths, kills,   *)
(* new measurements and giving up owe nothing.                             *)
FairSpec ==
  /\ Spec /\ WF_vars(HandleClose) /\ WF_vars(RestartTracker)
  /\ \A s \in Servers : WF_vars(ServerStep(s)) /\ WF_vars(SessionEnds(s))
  /\ \A c \in Clients : WF_vars(ClientStep(c)) /\ SF_vars(Dial(c))
-----------------------------------------------------------------------------
(* The types of the variables. *)
TypeOK ==
  /\ \A v \in Range(values) : v.server \in Servers /\ v.key \in Keys /\ v.conn \in {"open", "hung"}
  /\ \A r \in Range(requests) : IF r.conn = "open" THEN r.client \in Clients ELSE r.client = None
  /\ Len(requests) <= MaxRequests /\ pending \in [Servers -> SUBSET Keys]
  /\ state \in [Servers -> {"register", "listen", "serving", "dead"}]
  /\ step \in [Clients -> {"idle", "request", "wait", "handshake", "session"}]
  /\ sconn \in [Servers -> {None, "open", "broken"}] /\ cconn \in [Clients -> {None, "open", "broken"}]
  /\ value \in [Clients -> [server : Servers, key : Keys] \cup {None}]
  /\ tries \in [Clients -> 0 .. MaxRetry - 1] /\ unmatched \in [Servers -> 0 .. UnmatchedPings]
  /\ serving \in [Servers -> Clients \cup {None}] /\ \A s \in Servers : Len(backlog[s]) <= Backlog

(* Where a match key of server s is: offered in the free list, on its way  *)
(* to a client, or with one. *)
Holders(s, k) == {c \in Clients : value[c] # None /\ value[c].server = s /\ value[c].key = k}
InFlight(s, k) == {c \in Clients : inbox[c] # None /\ inbox[c].server = s /\ inbox[c].key = k}
Offers(s, k) == {i \in DOMAIN values : values[i].server = s /\ values[i].key = k}

(* A match key is in one place: _schedule never gives a value to two       *)
(* clients, nor keeps in the free list what it has given away, whether the *)
(* callback failed, the client died or the tracker was restarted; and the  *)
(* client a server serves is the one that was given its match key.         *)
OneHolder ==
  \A s \in Servers :
    /\ \A k \in Keys :
         Cardinality(Holders(s, k)) + Cardinality(InFlight(s, k)) + Cardinality(Offers(s, k)) <= 1
    /\ serving[s] # None => Holders(s, matchkey[s]) = {serving[s]}

(* The farm keeps the promise of DevicePool.  A device is free while the   *)
(* tracker holds its current match key, granted while that key is on its   *)
(* way to the server, and busy in a session; keys of the past are worth    *)
(* nothing, so a client that comes late, with a key that was replaced,     *)
(* cannot get at a device that was granted to somebody else since.         *)
Users(s) == Holders(s, matchkey[s]) \cup InFlight(s, matchkey[s])
Dialled(s) == \E e \in Range(backlog[s]) : e.key = matchkey[s]
Device(s) ==
  CASE state[s] = "serving" -> "busy"
    [] state[s] = "listen" /\ Offers(s, matchkey[s]) # {} -> "free"
    [] state[s] = "listen" /\ (Users(s) # {} \/ Dialled(s)) -> "granted"
    [] OTHER -> "away"
User(s) ==
  CASE Device(s) = "busy" -> serving[s]
    [] Device(s) = "granted" /\ Users(s) # {} -> CHOOSE c \in Users(s) : TRUE
    [] OTHER -> None
Pool == INSTANCE DevicePool WITH device <- [s \in Servers |-> Device(s)],
                                 user <- [s \in Servers |-> User(s)]
FarmIsPool == Pool!Spec

(* A key that was taken from the tracker and will not be used (its client  *)
(* was killed on the way, or the reply was lost) does not keep the device  *)
(* from being used: the pings of _accept_conn notice, and the server ends  *)
(* up with its key in the free list, in a client's hands or in a session.  *)
Stranded(s) ==
  \/ state[s] = "register"
  \/ /\ state[s] = "listen" /\ Offers(s, matchkey[s]) = {}
     /\ Holders(s, matchkey[s]) \cup InFlight(s, matchkey[s]) = {}
DeviceComesBack == \A s \in Servers : Stranded(s) ~> ~Stranded(s)

(* A client that waits for a device gets one, or its request ends with an  *)
(* error or a kill, as long as some server is alive: the queue of          *)
(* PriorityScheduler is first come first served among equals, dead         *)
(* requests before it are popped, and no device is lost for good.          *)
NoStarvation ==
  \A c \in Clients :
    (\A d \in Clients : Priority[d] <= Priority[c]) =>
      (step[c] = "wait" ~> (step[c] # "wait" \/ \A s \in Servers : state[s] = "dead"))
=============================================================================
