------------------------------ MODULE PeerLink ------------------------------
(***************************************************************************)
(* A remote device as ava_peer::Client sees it: one request at a time over *)
(* a TCP connection that may break at any moment, a heartbeat thread that  *)
(* shares the connection with the calling threads, time limits after which *)
(* the caller is told "false" while the server may still carry the request *)
(* out, and reconnects, which open a new session at the server while the   *)
(* old one may still be at work.                                           *)
(*                                                                         *)
(* The server is Server::Impl with each dispatch taken as one step, as the *)
(* mutex "ownership" makes it; PeerServer opens that step up.              *)
(***************************************************************************)
EXTENDS Naturals, Sequences

CONSTANTS
  Clients,      \* processes that control the shared device
  None,
  Ops,          \* what callers ask: "read", "write", "claim", "release", "reset"
  MaxSessions,  \* bound: connections ever made
  MaxWrites,    \* bound: writes each client issues
  MaxEpoch      \* bound: device generations

ASSUME LinkAssumption ==
  /\ None \notin Clients
  /\ Ops \subseteq {"read", "write", "claim", "release", "reset"}
  /\ {MaxSessions, MaxWrites, MaxEpoch} \subseteq Nat \ {0}

VARIABLES
  alive, control,   \* Client: connected(), ownsControl()
  known,            \* Client: device.epoch, fixed while connected
  session,          \* Client: its socket, 0 when there is none
  mutex,            \* Client: the thread in rpc(), which holds the mutex
  request,          \* Client: what that thread has asked
  heartbeat,        \* Client: position of the heartbeat thread
  ui,               \* Client: position of connect() and close()
  peer, phase,      \* Server: per session, whose it is and what it does
  owner, epoch,     \* Server: the lease, the device generation
  reqs, resps,      \* per session: what is under way in either direction
  shut, down,       \* sessions whose socket the client shut, whose link broke
  issued, returned, \* history: writes issued, writes that returned true
  applied           \* history: writes in the order they reached the target

clientVars == <<alive, control, known, session, mutex, request, heartbeat, ui>>
serverVars == <<peer, phase, owner, epoch>>
wireVars   == <<reqs, resps, shut, down>>
histVars   == <<issued, returned, applied>>
vars == <<clientVars, serverVars, wireVars, histVars>>

Ids == 1 .. MaxSessions

Init ==
  /\ alive = [c \in Clients |-> FALSE] /\ control = [c \in Clients |-> FALSE]
  /\ known = [c \in Clients |-> 0] /\ session = [c \in Clients |-> 0]
  /\ mutex = [c \in Clients |-> None] /\ request = [c \in Clients |-> None]
  /\ heartbeat = [c \in Clients |-> "none"] /\ ui = [c \in Clients |-> "idle"]
  /\ peer = [s \in Ids |-> None] /\ phase = [s \in Ids |-> "free"]
  /\ owner = 0 /\ epoch = 1
  /\ reqs = [s \in Ids |-> << >>] /\ resps = [s \in Ids |-> << >>]
  /\ shut = {} /\ down = {}
  /\ issued = [c \in Clients |-> 0] /\ returned = [c \in Clients |-> {}]
  /\ applied = << >>

-----------------------------------------------------------------------------
(* Client: requests of the calling threads and of the heartbeat.           *)

Deaf(s) == s \in down \/ phase[s] = "over"

\* rpc() up to its receive(): the caller keeps the mutex until it is answered.
Ask(c, thread, r) ==
  /\ mutex[c] = None /\ alive[c]
  /\ mutex' = [mutex EXCEPT ![c] = thread]
  /\ request' = [request EXCEPT ![c] = r]
  /\ reqs' = IF Deaf(session[c]) THEN reqs
             ELSE [reqs EXCEPT ![session[c]] = Append(@, r)]
  /\ UNCHANGED <<alive, control, known, session, ui, serverVars, resps, shut, down>>

Call(c, op) ==
  /\ op = "write" => issued[c] < MaxWrites
  /\ issued' = IF op = "write" THEN [issued EXCEPT ![c] = @ + 1] ELSE issued
  /\ Ask(c, "caller", [op |-> op, no |-> issued'[c], epoch |-> known[c]])
  /\ UNCHANGED <<heartbeat, returned, applied>>

\* The heartbeat thread loops while the client is connected.
BeatChecks(c) ==
  /\ heartbeat[c] = "check" /\ mutex[c] # "beat"
  /\ heartbeat' = [heartbeat EXCEPT ![c] = IF alive[c] THEN "lock" ELSE "none"]
  /\ UNCHANGED <<alive, control, known, session, mutex, request, ui,
                 serverVars, wireVars, histVars>>

Beat(c) ==
  /\ heartbeat[c] = "lock"
  /\ Ask(c, "beat", [op |-> "info", no |-> issued[c], epoch |-> known[c]])
  /\ heartbeat' = [heartbeat EXCEPT ![c] = "check"]
  /\ UNCHANGED histVars

BeatRefused(c) ==
  /\ heartbeat[c] = "lock" /\ mutex[c] = None /\ ~alive[c]
  /\ control' = [control EXCEPT ![c] = FALSE]
  /\ heartbeat' = [heartbeat EXCEPT ![c] = "check"]
  /\ UNCHANGED <<alive, known, session, mutex, request, ui, serverVars, wireVars, histVars>>

Unlock(c) == /\ mutex' = [mutex EXCEPT ![c] = None]
             /\ request' = [request EXCEPT ![c] = None]

HangUp(c) ==
  /\ alive' = [alive EXCEPT ![c] = FALSE]
  /\ control' = [control EXCEPT ![c] = FALSE]
  /\ shut' = shut \cup {session[c]}

KeepLine(c) ==                   \* broken variant: the connection stays in use
  UNCHANGED <<alive, control, shut>>

\* WireError: a time limit passed, the socket failed, or the server hung up.
Abandon(c) == HangUp(c)

RpcFailsAndResends(c) ==         \* broken variant: a write is sent again
  /\ request[c] # None
  /\ IF request[c].op = "write" /\ ~Deaf(session[c]) /\ session[c] \notin shut
     THEN /\ reqs' = [reqs EXCEPT ![session[c]] = <<request[c]>>]
          /\ UNCHANGED <<alive, control, shut, mutex, request>>
     ELSE HangUp(c) /\ Unlock(c) /\ UNCHANGED reqs
  /\ UNCHANGED <<known, session, heartbeat, ui, serverVars, resps, down, histVars>>

RpcFails(c) ==
  /\ request[c] # None
  /\ Abandon(c) /\ Unlock(c)
  /\ UNCHANGED <<known, session, heartbeat, ui, serverVars, reqs, resps, down, histVars>>

AcceptAnyGeneration(c, r) ==     \* broken variant: info is not compared
  CASE r.op = "reset" /\ r.ok -> HangUp(c)
    [] r.op \in {"info", "claim", "release"} /\ r.ok ->
         /\ alive' = alive /\ shut' = shut
         /\ control' = [control EXCEPT ![c] = r.control]
    [] OTHER -> UNCHANGED <<alive, control, shut>>

AcceptOptimistic(c, r) ==        \* broken variant: a refused claim counts too
  /\ alive' = alive /\ shut' = shut
  /\ control' = [control EXCEPT ![c] = @ \/ r.op = "claim"]

\* What each operation makes of its answer.
Accept(c, r) ==
  CASE r.op = "info" /\ r.epoch # known[c] -> HangUp(c)
    [] r.op = "reset" /\ r.ok -> HangUp(c)
    [] r.op \in {"info", "claim", "release"} /\ r.ok /\ (r.op = "info" => r.epoch = known[c]) ->
         /\ alive' = alive /\ shut' = shut
         /\ control' = [control EXCEPT ![c] = r.control]
    [] OTHER -> UNCHANGED <<alive, control, shut>>

Receive(c) ==
  LET s == session[c] IN
  /\ request[c] # None /\ resps[s] # << >>
  /\ LET r == Head(resps[s]) IN
       /\ Accept(c, r)
       /\ returned' = IF request[c].op = "write" /\ r.ok
                      THEN [returned EXCEPT ![c] = @ \cup {request[c].no}] ELSE returned
  /\ resps' = [resps EXCEPT ![s] = Tail(@)]
  /\ Unlock(c)
  /\ UNCHANGED <<known, session, heartbeat, ui, serverVars, reqs, down, issued, applied>>

-----------------------------------------------------------------------------
(* Client: close() and connect(), which begins with close().               *)

CloseBegins(c) ==
  /\ ui[c] = "idle"
  /\ alive' = [alive EXCEPT ![c] = FALSE]
  /\ ui' = [ui EXCEPT ![c] = "shut"]
  /\ UNCHANGED <<control, known, session, mutex, request, heartbeat,
                 serverVars, wireVars, histVars>>

CloseShutsLocked(c) ==           \* broken variant: keeps the mutex
  /\ ui[c] = "shut" /\ mutex[c] = None
  /\ mutex' = [mutex EXCEPT ![c] = "ui"]
  /\ shut' = shut \cup ({session[c]} \ {0})
  /\ ui' = [ui EXCEPT ![c] = "join"]
  /\ UNCHANGED <<alive, control, known, session, request, heartbeat,
                 serverVars, reqs, resps, down, histVars>>

CloseShuts(c) ==
  /\ ui[c] = "shut" /\ mutex[c] = None
  /\ shut' = shut \cup ({session[c]} \ {0})
  /\ ui' = [ui EXCEPT ![c] = "join"]
  /\ UNCHANGED <<alive, control, known, session, mutex, request, heartbeat,
                 serverVars, reqs, resps, down, histVars>>

CloseJoins(c) ==
  /\ ui[c] = "join" /\ heartbeat[c] = "none" /\ mutex[c] = None
  /\ session' = [session EXCEPT ![c] = 0]
  /\ control' = [control EXCEPT ![c] = FALSE]
  /\ ui' \in {[ui EXCEPT ![c] = p] : p \in {"idle", "dial"}}
  /\ UNCHANGED <<alive, known, mutex, request, heartbeat, serverVars, wireVars, histVars>>

Dial(c, s) ==
  /\ ui[c] = "dial"
  /\ phase[s] = "free" /\ \A t \in 1 .. s - 1 : phase[t] # "free"
  /\ phase' = [phase EXCEPT ![s] = "hello"]
  /\ peer' = [peer EXCEPT ![s] = c]
  /\ session' = [session EXCEPT ![c] = s]
  /\ ui' = [ui EXCEPT ![c] = "greet"]
  /\ UNCHANGED <<alive, control, known, mutex, request, heartbeat, owner, epoch,
                 wireVars, histVars>>

ConnectFails(c) ==
  /\ ui[c] \in {"dial", "greet"}
  /\ shut' = shut \cup ({session[c]} \ {0})
  /\ session' = [session EXCEPT ![c] = 0]
  /\ ui' = [ui EXCEPT ![c] = "idle"]
  /\ UNCHANGED <<alive, control, known, mutex, request, heartbeat, serverVars,
                 reqs, resps, down, histVars>>

Connected(c) ==
  LET s == session[c] IN
  /\ ui[c] = "greet" /\ resps[s] # << >> /\ mutex[c] = None
  /\ known' = [known EXCEPT ![c] = Head(resps[s]).epoch]
  /\ resps' = [resps EXCEPT ![s] = Tail(@)]
  /\ alive' = [alive EXCEPT ![c] = TRUE]
  /\ control' = [control EXCEPT ![c] = FALSE]
  /\ heartbeat' = [heartbeat EXCEPT ![c] = "check"]
  /\ ui' = [ui EXCEPT ![c] = "idle"]
  /\ UNCHANGED <<session, mutex, request, serverVars, reqs, shut, down, histVars>>

-----------------------------------------------------------------------------
(* Server: one session per connection.                                     *)

Send(s, r) == resps' = IF s \in down \cup shut THEN resps
                       ELSE [resps EXCEPT ![s] = Append(@, r)]

Answer(r, ok, s, own) ==
  [op |-> r.op, no |-> r.no, ok |-> ok, control |-> own = s, epoch |-> epoch]

Welcome(s) ==
  /\ phase[s] = "hello"
  /\ phase' = [phase EXCEPT ![s] = "recv"]
  /\ Send(s, [op |-> "welcome", no |-> 0, ok |-> TRUE, control |-> FALSE, epoch |-> epoch])
  /\ UNCHANGED <<clientVars, peer, owner, epoch, reqs, shut, down, histVars>>

\* The request has been received; dispatch may wait long for its turn.
Take(s) ==
  /\ phase[s] = "recv" /\ reqs[s] # << >>
  /\ phase' = [phase EXCEPT ![s] = "exec"]
  /\ UNCHANGED <<clientVars, peer, owner, epoch, wireVars, histVars>>

MayClaim(s) == owner \in {0, s}

MayAlter(s, r) == owner = s /\ r.epoch = epoch

\* "works" is whether the probe carries out what it is asked.
Dispatch(s, r, works) ==
  LET ok == CASE r.op \in {"info", "release"} -> TRUE
              [] r.op = "read"  -> r.epoch = epoch /\ works
              [] r.op = "claim" -> MayClaim(s)
              [] OTHER -> MayAlter(s, r) /\ works
  IN
  /\ owner' = CASE r.op = "claim" /\ ok -> s
                [] r.op = "release" /\ owner = s -> 0
                [] OTHER -> owner
  /\ epoch' = IF r.op = "reset" /\ ok THEN epoch + 1 ELSE epoch
  /\ applied' = IF r.op = "write" /\ ok
                THEN Append(applied, [client |-> peer[s], no |-> r.no, epoch |-> epoch])
                ELSE applied
  /\ Send(s, Answer(r, ok, s, owner'))

Execute(s, works) ==
  /\ phase[s] = "exec"
  /\ LET r == Head(reqs[s]) IN
       /\ r.op = "reset" /\ works => epoch < MaxEpoch
       /\ Dispatch(s, r, works)
  /\ reqs' = [reqs EXCEPT ![s] = Tail(@)]
  /\ phase' = [phase EXCEPT ![s] = "recv"]
  /\ UNCHANGED <<clientVars, peer, shut, down, issued, returned>>

EndSession(s) ==
  /\ phase' = [phase EXCEPT ![s] = "over"]
  /\ owner' = IF owner = s THEN 0 ELSE owner

\* End of file, a failed send, or 5 s without a request.
SessionEnds(s) ==
  /\ phase[s] \in {"hello", "recv"} /\ reqs[s] = << >>
  /\ EndSession(s)
  /\ UNCHANGED <<clientVars, peer, epoch, wireVars, histVars>>

\* The network between the two goes away; a request that has been received
\* stays with the server, everything else under way is lost.
LinkBreaks(s) ==
  /\ phase[s] \notin {"free", "over"} /\ s \notin down
  /\ down' = down \cup {s}
  /\ reqs' = [reqs EXCEPT ![s] = IF phase[s] = "exec" THEN <<Head(@)>> ELSE << >>]
  /\ resps' = [resps EXCEPT ![s] = << >>]
  /\ UNCHANGED <<clientVars, serverVars, shut, histVars>>

\* Reset, reconnect, or loss of the target on the sharing side.
TargetChanges ==
  /\ epoch < MaxEpoch
  /\ epoch' = epoch + 1
  /\ UNCHANGED <<clientVars, peer, phase, owner, wireVars, histVars>>

-----------------------------------------------------------------------------
Next ==
  \/ \E c \in Clients :
       \/ \E op \in Ops : Call(c, op)
       \/ BeatChecks(c) \/ Beat(c) \/ BeatRefused(c) \/ Receive(c) \/ RpcFails(c)
       \/ CloseBegins(c) \/ CloseShuts(c) \/ CloseJoins(c)
       \/ (\E s \in Ids : Dial(c, s)) \/ ConnectFails(c) \/ Connected(c)
  \/ \E s \in Ids :
       \/ Welcome(s) \/ Take(s) \/ SessionEnds(s) \/ LinkBreaks(s)
       \/ \E works \in BOOLEAN : Execute(s, works)
  \/ TargetChanges

Spec == Init /\ [][Next]_vars

(* Time limits end every wait; the heartbeat gets the client's mutex if it *)
(* is free again and again; the server's threads are scheduled.            *)
Fairness ==
  /\ \A c \in Clients :
       /\ WF_vars(Receive(c) \/ RpcFails(c))
       /\ WF_vars(BeatChecks(c)) /\ SF_vars(Beat(c)) /\ SF_vars(BeatRefused(c))
       /\ WF_vars(CloseShuts(c)) /\ WF_vars(CloseJoins(c))
       /\ WF_vars(ConnectFails(c) \/ Connected(c))
  /\ \A s \in Ids :
       /\ WF_vars(Take(s)) /\ WF_vars(\E works \in BOOLEAN : Execute(s, works))
       /\ WF_vars(s \in down \cup shut /\ SessionEnds(s))

FairSpec == Spec /\ Fairness

-----------------------------------------------------------------------------
Requests  == [op : Ops \cup {"info"}, no : 0 .. MaxWrites, epoch : 0 .. MaxEpoch]
Responses == [op : Ops \cup {"info", "welcome"}, no : 0 .. MaxWrites, ok : BOOLEAN,
              control : BOOLEAN, epoch : 1 .. MaxEpoch]

ASSUME NoneAssumption == None \notin {"caller", "beat"} \cup Requests

\* Includes that a connection never carries two requests, or two answers.
TypeOK ==
  /\ alive \in [Clients -> BOOLEAN] /\ control \in [Clients -> BOOLEAN]
  /\ known \in [Clients -> 0 .. MaxEpoch] /\ session \in [Clients -> {0} \cup Ids]
  /\ mutex \in [Clients -> {None, "caller", "beat"}]
  /\ request \in [Clients -> {None} \cup Requests]
  /\ \A c \in Clients : (mutex[c] = None) = (request[c] = None)
  /\ heartbeat \in [Clients -> {"none", "check", "lock"}]
  /\ ui \in [Clients -> {"idle", "shut", "join", "dial", "greet"}]
  /\ peer \in [Ids -> Clients \cup {None}]
  /\ phase \in [Ids -> {"free", "hello", "recv", "exec", "over"}]
  /\ owner \in {0} \cup Ids /\ epoch \in 1 .. MaxEpoch
  /\ reqs \in [Ids -> Seq(Requests)] /\ resps \in [Ids -> Seq(Responses)]
  /\ \A s \in Ids : Len(reqs[s]) + Len(resps[s]) <= 1
  /\ shut \subseteq Ids /\ down \subseteq Ids
  /\ issued \in [Clients -> 0 .. MaxWrites]
  /\ returned \in [Clients -> SUBSET (1 .. MaxWrites)]
  /\ applied \in Seq([client : Clients, no : 1 .. MaxWrites, epoch : 1 .. MaxEpoch])

\* The answer a thread is about to take is the answer to what it asked, also
\* when an earlier request ran into its time limit and was answered late.
OwnAnswer ==
  \A c \in Clients : LET s == session[c] IN
    request[c] # None /\ resps[s] # << >> =>
      Head(resps[s]).op = request[c].op /\ Head(resps[s]).no = request[c].no

\* Writes of one client reach the target at most once and in the order they
\* were issued: one that was reported lost never lands after a later one,
\* whatever session it was sent on, and one that returned true has landed.
WritesInOrder ==
  /\ \A i, j \in 1 .. Len(applied) :
       i < j /\ applied[i].client = applied[j].client => applied[i].no < applied[j].no
  /\ \A c \in Clients : \A n \in returned[c] :
       \E i \in 1 .. Len(applied) : applied[i].client = c /\ applied[i].no = n

\* A client that shows that it has control is the owner, or the server has ended
\* its session without its having noticed, or it is giving control back.
ControlHonest ==
  \A c \in Clients : control[c] =>
    \/ owner = session[c]
    \/ phase[session[c]] = "over"
    \/ request[c] # None /\ request[c].op = "release"

\* A client whose connection is gone, or whose target is another generation
\* than the one it connected to, finds out, unless it hangs up by itself.
StaleNoticed ==
  \A c \in Clients :
    (alive[c] /\ (Deaf(session[c]) \/ known[c] # epoch)) ~> ~alive[c]

\* A connection that ends, however it ends, ends at both ends: the lease of
\* a session whose client is unreachable or gone is given back, and connect()
\* and close() return, whatever requests and the heartbeat are doing.
HangUpCompletes ==
  /\ \A s \in Ids : (owner = s /\ s \in down \cup shut) ~> owner # s
  /\ \A c \in Clients : ui[c] # "idle" ~> ui[c] = "idle"
=============================================================================
