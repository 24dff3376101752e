---------------------------- MODULE PeerLinkProofs ---------------------------
(***************************************************************************)
(* Theorems about PeerLink, for any clients and any bounds: every answer   *)
(* goes to the request it answers, the writes of a client land once and in *)
(* order across reconnects, and a client that shows control has it.        *)
(* LinkInv is inductive.  The order of writes rests on Pending: a write    *)
(* left behind on an old session can only land while that session owns the *)
(* lease, and as long as it does no newer session's write has landed.      *)
(*                                                                         *)
(* Step is Next with what each action does to the messages spelled out;    *)
(* each conjunct of LinkInv is shown to survive each disjunct of Step.     *)
(***************************************************************************)
EXTENDS PeerLink, SequenceTheorems, TLAPS

\* A session in use is that of one client; one not yet in use is untouched.
SessionOf(c) ==
  session[c] # 0 => phase[session[c]] # "free" /\ peer[session[c]] = c

PeerOf(s) ==
  /\ phase[s] # "free" => peer[s] \in Clients
  /\ phase[s] = "free" => s \notin shut /\ owner # s

Sessions == (\A c \in Clients : SessionOf(c)) /\ (\A s \in Ids : PeerOf(s))

\* What the client's flags say of its socket.
SocketOk(c) ==
  /\ alive[c] => ui[c] = "idle"
  /\ mutex[c] # None => ui[c] \in {"idle", "shut"}
  /\ alive[c] \/ mutex[c] # None => session[c] # 0 /\ session[c] \notin shut
  /\ control[c] => session[c] # 0 /\ ui[c] \in {"idle", "shut", "join"}
  /\ ui[c] = "dial" => session[c] = 0
  /\ ui[c] = "greet" => session[c] # 0 /\ session[c] \notin shut
  /\ session[c] # 0 /\ phase[session[c]] = "hello" => ui[c] = "greet"

Sockets == \A c \in Clients : SocketOk(c)

-----------------------------------------------------------------------------
(* A direction of a connection holds one message at most, so the invariants *)
(* speak of the sessions that have one and of the message they have.        *)

Asking    == {s \in Ids : reqs[s] # << >>}
Question  == [s \in Ids |-> Head(reqs[s])]
Answering == {s \in Ids : resps[s] # << >>}
Reply     == [s \in Ids |-> Head(resps[s])]

\* The writes that have landed, without their order.
Landings == {[client |-> applied[i].client, no |-> applied[i].no] : i \in 1 .. Len(applied)}

Landed(c, n) == [client |-> c, no |-> n] \in Landings

\* One message at most is under way, and none before the welcome.
WireOk(s) ==
  /\ s \notin Asking \cap Answering
  /\ phase[s] \in {"free", "hello"} => s \notin Asking \cup Answering
  /\ phase[s] = "exec" => s \in Asking

Wires == \A s \in Ids : WireOk(s)

\* Between two requests nothing is under way, unless the client has hung up.
QuietAt(c) ==
  session[c] # 0 /\ mutex[c] = None /\ ui[c] # "greet"
    /\ (session[c] \notin shut \/ control[c]) =>
      session[c] \notin Asking \cup Answering

Quiet == \A c \in Clients : QuietAt(c)

\* What is under way is what the thread in rpc() asked, or the answer to it.
AskedAt(c) ==
  request[c] # None /\ session[c] \in Asking => Question[session[c]] = request[c]

Asked == \A c \in Clients : AskedAt(c)

AnsweredAt(c) ==
  request[c] # None /\ session[c] \in Answering =>
    Reply[session[c]].op = request[c].op /\ Reply[session[c]].no = request[c].no

Answered == \A c \in Clients : AnsweredAt(c)

\* Writes are numbered as they are issued.
NumberOk(s) == s \in Asking =>
  /\ Question[s].no <= issued[peer[s]]
  /\ Question[s].op = "write" => Question[s].no >= 1

Numbered ==
  /\ \A c \in Clients : request[c] # None /\ request[c].op = "write" => request[c].no >= 1
  /\ \A s \in Ids : NumberOk(s)
  /\ \A w \in Landings : w.no <= issued[w.client]

\* A write under way on the owner's session is newer than all that have landed.
PendingAt(s) ==
  owner = s /\ s \in Asking /\ Question[s].op = "write" =>
    \A w \in Landings : w.client = peer[s] => w.no < Question[s].no

Pending == \A s \in Ids : PendingAt(s)

\* An answer under way is still true when it arrives.
AnswerOk(s) == s \in Answering =>
  /\ Reply[s].op \in {"info", "release"} => Reply[s].ok
  /\ Reply[s].control => owner = s \/ phase[s] = "over"
  /\ Reply[s].op = "write" /\ Reply[s].ok => Landed(peer[s], Reply[s].no)

AnswersTrue == \A s \in Ids : AnswerOk(s)

ReturnedAt(c) == \A n \in returned[c] : Landed(c, n)

Returned == \A c \in Clients : ReturnedAt(c)

ControlAt(c) == control[c] =>
  \/ owner = session[c] \/ phase[session[c]] = "over"
  \/ request[c] # None /\ request[c].op = "release"

InOrder == \A i, j \in 1 .. Len(applied) :
  i < j /\ applied[i].client = applied[j].client => applied[i].no < applied[j].no

LinkInv ==
  /\ TypeOK /\ Sessions /\ Sockets /\ Wires /\ Quiet /\ Asked /\ Answered /\ Numbered
  /\ Pending /\ AnswersTrue /\ Returned /\ InOrder /\ ControlHonest


ClientType ==
  /\ alive \in [Clients -> BOOLEAN] /\ control \in [Clients -> BOOLEAN]
  /\ known \in [Clients -> 0 .. MaxEpoch] /\ session \in [Clients -> {0} \cup Ids]
  /\ mutex \in [Clients -> {None, "caller", "beat"}]
  /\ request \in [Clients -> {None} \cup Requests]
  /\ \A c \in Clients : (mutex[c] = None) = (request[c] = None)
  /\ heartbeat \in [Clients -> {"none", "check", "lock"}]
  /\ ui \in [Clients -> {"idle", "shut", "join", "dial", "greet"}]

ServerType ==
  /\ peer \in [Ids -> Clients \cup {None}]
  /\ phase \in [Ids -> {"free", "hello", "recv", "exec", "over"}]
  /\ owner \in {0} \cup Ids /\ epoch \in 1 .. MaxEpoch

WireType ==
  /\ reqs \in [Ids -> Seq(Requests)] /\ resps \in [Ids -> Seq(Responses)]
  /\ \A s \in Ids : Len(reqs[s]) + Len(resps[s]) <= 1
  /\ shut \subseteq Ids /\ down \subseteq Ids

HistType ==
  /\ issued \in [Clients -> 0 .. MaxWrites]
  /\ returned \in [Clients -> SUBSET (1 .. MaxWrites)]
  /\ applied \in Seq([client : Clients, no : 1 .. MaxWrites, epoch : 1 .. MaxEpoch])

LEMMA TypeParts == TypeOK <=> ClientType /\ ServerType /\ WireType /\ HistType
BY DEF TypeOK, ClientType, ServerType, WireType, HistType

LEMMA OneMessage ==
  ASSUME NEW S, NEW q \in Seq(S), q # << >>, Len(q) <= 1
  PROVE  Len(q) = 1 /\ Head(q) \in S /\ Tail(q) = << >> /\ <<Head(q)>> = q
<1>0. Len(q) \in Nat \ {0} BY EmptySeq, Zenon
<1>1. Len(q) = 1 BY <1>0
<1>2. Tail(q) \in Seq(S) /\ Len(Tail(q)) = 0 BY <1>1, HeadTailProperties
<1>3. Tail(q) = << >> BY <1>2, EmptySeq
<1>4. Head(q) \in S BY HeadTailProperties
<1>5. Head(q) = q[1] /\ <<Head(q)>> \in Seq(S) BY <1>4
<1>6. <<Head(q)>> = q BY <1>1, <1>5, SeqEqual
<1>. QED BY <1>1, <1>3, <1>4, <1>6

LEMMA SumAtMostOne ==
  ASSUME NEW m \in Nat, NEW n \in Nat, m + n <= 1
  PROVE  m <= 1 /\ n <= 1 /\ ~(m \in Nat \ {0} /\ n \in Nat \ {0})
OBVIOUS

\* A connection holds one message: what is left after its head is nothing.
LEMMA TakenOff ==
  ASSUME WireType, NEW s \in Ids
  PROVE  /\ resps[s] # << >> =>
              Tail(resps[s]) = << >> /\ reqs[s] = << >> /\ Head(resps[s]) \in Responses
         /\ reqs[s] # << >> =>
              /\ Tail(reqs[s]) = << >> /\ <<Head(reqs[s])>> = reqs[s] /\ resps[s] = << >>
              /\ Head(reqs[s]) \in Requests
<1>1. /\ reqs[s] \in Seq(Requests) /\ resps[s] \in Seq(Responses)
      /\ Len(reqs[s]) \in Nat /\ Len(resps[s]) \in Nat
      /\ Len(reqs[s]) + Len(resps[s]) <= 1
      BY DEF WireType
<1>5. /\ reqs[s] # << >> => Len(reqs[s]) \in Nat \ {0}
      /\ resps[s] # << >> => Len(resps[s]) \in Nat \ {0}
      BY <1>1, EmptySeq, Zenon
<1>7. Len(reqs[s]) \in Nat /\ Len(resps[s]) \in Nat /\ Len(reqs[s]) + Len(resps[s]) <= 1
      BY <1>1, Zenon
<1>6. /\ Len(reqs[s]) <= 1 /\ Len(resps[s]) <= 1
      /\ ~(Len(reqs[s]) \in Nat \ {0} /\ Len(resps[s]) \in Nat \ {0})
      BY <1>7, SumAtMostOne, Zenon
<1>2. reqs[s] = << >> \/ resps[s] = << >> BY <1>5, <1>6, Zenon
<1>3. resps[s] # << >> => Tail(resps[s]) = << >> /\ Head(resps[s]) \in Responses
      BY <1>1, <1>6, OneMessage, Zenon
<1>4. reqs[s] # << >> =>
        Tail(reqs[s]) = << >> /\ <<Head(reqs[s])>> = reqs[s] /\ Head(reqs[s]) \in Requests
      BY <1>1, <1>6, OneMessage, Zenon
<1>. QED BY <1>2, <1>3, <1>4

\* What the invariants need of the wires and of what has landed.
TransitType ==
  /\ Asking \subseteq Ids /\ Answering \subseteq Ids /\ shut \subseteq Ids
  /\ \A s \in Asking : Question[s] \in Requests
  /\ \A s \in Answering : Reply[s] \in Responses
  /\ Landings \subseteq [client : Clients, no : 1 .. MaxWrites]
  /\ issued \in [Clients -> 0 .. MaxWrites]

LEMMA TransitTypes ==
  ASSUME WireType, HistType
  PROVE  TransitType
<1>1. /\ Asking \subseteq Ids /\ Answering \subseteq Ids /\ shut \subseteq Ids
      BY DEF WireType, Asking, Answering
<1>2. \A s \in Asking : Question[s] \in Requests
      BY TakenOff, Zenon DEF Asking, Question
<1>3. \A s \in Answering : Reply[s] \in Responses
      BY TakenOff, Zenon DEF Answering, Reply
<1>4. ASSUME NEW i \in 1 .. Len(applied)
      PROVE  applied[i].client \in Clients /\ applied[i].no \in 1 .. MaxWrites
  <2>. DEFINE W == [client : Clients, no : 1 .. MaxWrites, epoch : 1 .. MaxEpoch]
  <2>1. applied \in Seq(W)
        BY DEF HistType
  <2>. HIDE DEF W
  <2>2. applied[i] \in W
        BY <2>1, ElementOfSeq
  <2>. QED BY <2>2 DEF W
<1>5. Landings \subseteq [client : Clients, no : 1 .. MaxWrites]
      BY <1>4 DEF Landings
<1>6. issued \in [Clients -> 0 .. MaxWrites]
      BY DEF HistType
<1>. QED BY <1>1, <1>2, <1>3, <1>5, <1>6, Zenon DEF TransitType

-----------------------------------------------------------------------------
(* What the actions do to the wires, on which there is one message at most. *)

\* What a message put on one line of f does to the lines that hold one.
LEMMA PutOn ==
  ASSUME NEW f, DOMAIN f = Ids, NEW s \in Ids, NEW m, m # << >>,
         NEW g, g = [f EXCEPT ![s] = m]
  PROVE  /\ {t \in Ids : g[t] # << >>} = {t \in Ids : f[t] # << >>} \cup {s}
         /\ [t \in Ids |-> Head(g[t])][s] = Head(m)
         /\ \A u \in Ids \ {s} :
              [t \in Ids |-> Head(g[t])][u] = [t \in Ids |-> Head(f[t])][u]
<1>1. g[s] = m /\ \A t \in Ids \ {s} : g[t] = f[t]
      OBVIOUS
<1>2. {t \in Ids : g[t] # << >>} = {t \in Ids : f[t] # << >>} \cup {s}
      BY <1>1, Zenon
<1>3. Head(g[s]) = Head(m) /\ \A t \in Ids \ {s} : Head(g[t]) = Head(f[t])
      BY <1>1, Zenon
<1>. QED BY <1>2, <1>3

\* The same for one taken off.
LEMMA TakeOff ==
  ASSUME NEW f, DOMAIN f = Ids, NEW s \in Ids, NEW g, g = [f EXCEPT ![s] = << >>]
  PROVE  /\ {t \in Ids : g[t] # << >>} = {t \in Ids : f[t] # << >>} \ {s}
         /\ \A u \in Ids \ {s} :
              [t \in Ids |-> Head(g[t])][u] = [t \in Ids |-> Head(f[t])][u]
<1>1. g[s] = << >> /\ \A t \in Ids \ {s} : g[t] = f[t]
      OBVIOUS
<1>2. {t \in Ids : g[t] # << >>} = {t \in Ids : f[t] # << >>} \ {s}
      BY <1>1, Zenon
<1>3. \A t \in Ids \ {s} : Head(g[t]) = Head(f[t])
      BY <1>1, Zenon
<1>. QED BY <1>2, <1>3

\* The effect of putting a message on the wire, and of taking it off.
QuestionPut(s, r) ==
  /\ Asking' = Asking \cup {s} /\ Question'[s] = r
  /\ \A u \in Ids \ {s} : Question'[u] = Question[u]

QuestionGone(s) ==
  Asking' = Asking \ {s} /\ \A u \in Ids \ {s} : Question'[u] = Question[u]

ReplyPut(s, r) ==
  /\ Answering' = Answering \cup {s} /\ Reply'[s] = r
  /\ \A u \in Ids \ {s} : Reply'[u] = Reply[u]

ReplyGone(s) ==
  Answering' = Answering \ {s} /\ \A u \in Ids \ {s} : Reply'[u] = Reply[u]

LEMMA QuestionMoves ==
  ASSUME WireType, NEW s \in Ids
  PROVE  /\ \A r : reqs' = [reqs EXCEPT ![s] = <<r>>] => QuestionPut(s, r)
         /\ reqs' = [reqs EXCEPT ![s] = << >>] => QuestionGone(s)
         /\ reqs' = reqs => UNCHANGED <<Asking, Question>>
<1>1. DOMAIN reqs = Ids
      BY DEF WireType
<1>2. ASSUME NEW r, reqs' = [reqs EXCEPT ![s] = <<r>>] PROVE QuestionPut(s, r)
  <2>1. PICK m : m = <<r>>
        OBVIOUS
  <2>2. m # << >> /\ Head(m) = r
        BY <2>1
  <2>3. reqs' = [reqs EXCEPT ![s] = m]
        BY <1>2, <2>1, Zenon
  <2>. QED BY <1>1, <2>2, <2>3, PutOn, Zenon DEF QuestionPut, Asking, Question
<1>3. reqs' = [reqs EXCEPT ![s] = << >>] => QuestionGone(s)
      BY <1>1, TakeOff, Zenon DEF QuestionGone, Asking, Question
<1>4. reqs' = reqs => UNCHANGED <<Asking, Question>>
      BY Zenon DEF Asking, Question
<1>. QED BY <1>2, <1>3, <1>4, Zenon

LEMMA ReplyMoves ==
  ASSUME WireType, NEW s \in Ids
  PROVE  /\ \A r : resps' = [resps EXCEPT ![s] = <<r>>] => ReplyPut(s, r)
         /\ resps' = [resps EXCEPT ![s] = << >>] => ReplyGone(s)
         /\ resps' = resps => UNCHANGED <<Answering, Reply>>
<1>1. DOMAIN resps = Ids
      BY DEF WireType
<1>2. ASSUME NEW r, resps' = [resps EXCEPT ![s] = <<r>>] PROVE ReplyPut(s, r)
  <2>1. PICK m : m = <<r>>
        OBVIOUS
  <2>2. m # << >> /\ Head(m) = r
        BY <2>1
  <2>3. resps' = [resps EXCEPT ![s] = m]
        BY <1>2, <2>1, Zenon
  <2>. QED BY <1>1, <2>2, <2>3, PutOn, Zenon DEF ReplyPut, Answering, Reply
<1>3. resps' = [resps EXCEPT ![s] = << >>] => ReplyGone(s)
      BY <1>1, TakeOff, Zenon DEF ReplyGone, Answering, Reply
<1>4. resps' = resps => UNCHANGED <<Answering, Reply>>
      BY Zenon DEF Answering, Reply
<1>. QED BY <1>2, <1>3, <1>4, Zenon

LEMMA LandingsMove ==
  ASSUME HistType
  PROVE  /\ applied' = applied => UNCHANGED Landings
         /\ \A c, n, e : applied' = Append(applied, [client |-> c, no |-> n, epoch |-> e]) =>
              Landings' = Landings \cup {[client |-> c, no |-> n]}
<1>1. applied' = applied => UNCHANGED Landings
      BY Zenon DEF Landings
<1>2. ASSUME NEW c, NEW n, NEW e, applied' = Append(applied, [client |-> c, no |-> n, epoch |-> e])
      PROVE  Landings' = Landings \cup {[client |-> c, no |-> n]}
  <2>. DEFINE w == [client |-> c, no |-> n, epoch |-> e]
              L == Len(applied)
  <2>1. L \in Nat /\ w.client = c /\ w.no = n
        BY DEF HistType
  <2>2. Len(applied') = L + 1 /\ applied'[L + 1] = w
        /\ \A i \in 1 .. L : applied'[i] = applied[i]
        BY <1>2 DEF HistType
  <2>3. 1 .. L + 1 = (1 .. L) \cup {L + 1} /\ L + 1 \notin 1 .. L
        BY <2>1
  <2>. HIDE DEF w, L
  <2>. DEFINE P(f, i) == [client |-> f[i].client, no |-> f[i].no]
  <2>4. P(applied', L + 1) = [client |-> c, no |-> n]
        /\ \A i \in 1 .. L : P(applied', i) = P(applied, i)
        BY <2>1, <2>2
  <2>5. Landings = {P(applied, i) : i \in 1 .. L}
        BY Zenon DEF Landings, P, L
  <2>6. Landings' = {P(applied', i) : i \in 1 .. Len(applied')}
        BY Zenon DEF Landings, P
  <2>. HIDE DEF w, L, P
  <2>. QED BY <2>2, <2>3, <2>4, <2>5, <2>6
<1>. QED BY <1>1, <1>2

\* A request r that a thread has put on the wire, if there is anyone to hear it.
AsksClient(c, th) ==
  /\ session[c] \in Ids /\ mutex[c] = None /\ alive[c] /\ th \in {"caller", "beat"}
  /\ mutex' = [mutex EXCEPT ![c] = th]
  /\ UNCHANGED <<alive, control, known, session, ui, peer, phase, owner, epoch, shut, down>>

AsksRequest(c, r) ==
  /\ r \in Requests /\ r.no = issued'[c] /\ (r.op = "write" => r.no > issued[c])
  /\ request' = [request EXCEPT ![c] = r]
  /\ heartbeat' \in [Clients -> {"none", "check", "lock"}]
  /\ issued' \in [Clients -> 0 .. MaxWrites]
  /\ \A d \in Clients : issued[d] <= issued'[d]
  /\ UNCHANGED <<returned, applied>>

AsksWires(c, r) ==
  /\ reqs[session[c]] = << >> /\ resps[session[c]] = << >>
  /\ reqs' = reqs \/ reqs' = [reqs EXCEPT ![session[c]] = <<r>>]
  /\ resps' = resps

AsksTransit(c, r) ==
  /\ session[c] \notin Asking \cup Answering
  /\ QuestionPut(session[c], r) \/ UNCHANGED <<Asking, Question>>
  /\ UNCHANGED <<Answering, Reply, Landings>>

Asks(c, th, r) ==
  AsksClient(c, th) /\ AsksRequest(c, r) /\ AsksWires(c, r) /\ AsksTransit(c, r)

LEMMA AskWires ==
  ASSUME WireType, ClientType, HistType, Sockets, Quiet,
         NEW c \in Clients, NEW th, NEW r, Ask(c, th, r)
  PROVE  /\ session[c] \in Ids /\ reqs[session[c]] = << >> /\ resps[session[c]] = << >>
         /\ \/ reqs' = reqs
            \/ reqs' = [reqs EXCEPT ![session[c]] = <<r>>]
         /\ applied' = applied => AsksTransit(c, r)
<1>1. /\ session[c] # 0 /\ session[c] \notin shut /\ ui[c] = "idle" /\ mutex[c] = None
      BY DEF Ask, Sockets, SocketOk
<1>2. reqs[session[c]] = << >> /\ resps[session[c]] = << >> /\ session[c] \in Ids
      BY <1>1 DEF Quiet, QuietAt, ClientType, Asking, Answering
<1>3. Append(<< >>, r) = <<r>> OBVIOUS
<1>4. reqs' = reqs \/ reqs' = [reqs EXCEPT ![session[c]] = <<r>>]
      BY <1>2, <1>3 DEF Ask, WireType
<1>5. QuestionPut(session[c], r) \/ UNCHANGED <<Asking, Question>>
      BY <1>2, <1>4, QuestionMoves, Zenon
<1>6. UNCHANGED <<Answering, Reply>>
      BY <1>2, ReplyMoves, Zenon DEF Ask
<1>7. applied' = applied => UNCHANGED Landings
      BY LandingsMove, Zenon
<1>8. session[c] \notin Asking \cup Answering
      BY <1>2, Zenon DEF Asking, Answering
<1>. QED BY <1>2, <1>4, <1>5, <1>6, <1>7, <1>8, Zenon DEF AsksTransit

LEMMA CallAsks ==
  ASSUME WireType, ClientType, HistType, Sockets, Quiet,
         NEW c \in Clients, NEW op \in Ops, Call(c, op)
  PROVE  \E r : Asks(c, "caller", r)
<1>. DEFINE r == [op |-> op, no |-> issued'[c], epoch |-> known[c]]
<1>1. Ask(c, "caller", r) /\ UNCHANGED <<heartbeat, returned, applied>>
      BY DEF Call
<1>2. /\ issued' \in [Clients -> 0 .. MaxWrites]
      /\ \A d \in Clients : issued[d] <= issued'[d]
      /\ op = "write" => issued'[c] > issued[c]
      BY LinkAssumption DEF Call, HistType
<1>3. r \in Requests
      BY <1>2 DEF Requests, ClientType
<1>4. heartbeat' \in [Clients -> {"none", "check", "lock"}]
      BY <1>1 DEF ClientType
<1>5. r.no = issued'[c] /\ (r.op = "write" => r.no > issued[c])
      BY <1>2
<1>. HIDE DEF r
<1>6. Asks(c, "caller", r)
      BY <1>1, <1>2, <1>3, <1>4, <1>5, AskWires
         DEF Asks, AsksClient, AsksRequest, AsksWires, Ask, serverVars
<1>. QED BY <1>6

LEMMA BeatAsks ==
  ASSUME WireType, ClientType, HistType, Sockets, Quiet, NEW c \in Clients, Beat(c)
  PROVE  \E r : Asks(c, "beat", r)
<1>. DEFINE r == [op |-> "info", no |-> issued[c], epoch |-> known[c]]
<1>1. Ask(c, "beat", r) /\ UNCHANGED <<issued, returned, applied>>
      BY DEF Beat, histVars
<1>2. r \in Requests
      BY DEF Requests, ClientType, HistType
<1>3. heartbeat' \in [Clients -> {"none", "check", "lock"}]
      BY DEF Beat, ClientType
<1>4. issued' \in [Clients -> 0 .. MaxWrites] /\ \A d \in Clients : issued[d] <= issued'[d]
      BY <1>1 DEF HistType
<1>5. r.no = issued'[c] /\ (r.op = "write" => r.no > issued[c])
      BY <1>1
<1>. HIDE DEF r
<1>6. Asks(c, "beat", r)
      BY <1>1, <1>2, <1>3, <1>4, <1>5, AskWires
         DEF Asks, AsksClient, AsksRequest, AsksWires, Ask, serverVars
<1>. QED BY <1>6

\* An answer r that the thread in rpc() has taken off the wire.
HearsClient(c, r) ==
  /\ session[c] \in Ids /\ request[c] # None
  /\ mutex' = [mutex EXCEPT ![c] = None]
  /\ \/ HangUp(c)
     \/ UNCHANGED <<alive, shut>> /\ control' \in {control, [control EXCEPT ![c] = r.control]}
  /\ UNCHANGED <<known, session, heartbeat, ui, peer, phase, owner, epoch, down>>

HearsAnswer(c, r) ==
  /\ r = Reply[session[c]] /\ r \in Responses
  /\ request' = [request EXCEPT ![c] = None]
  /\ \/ returned' = returned
     \/ /\ request[c].op = "write" /\ r.ok
        /\ returned' = [returned EXCEPT ![c] = @ \cup {request[c].no}]
  /\ r.op = "release" /\ r.ok => control' = [control EXCEPT ![c] = r.control]
  /\ UNCHANGED <<issued, applied>>

HearsWires(c) ==
  /\ resps[session[c]] # << >> /\ reqs[session[c]] = << >>
  /\ resps' = [resps EXCEPT ![session[c]] = << >>]
  /\ reqs' = reqs

HearsTransit(c) ==
  /\ session[c] \in Answering \ Asking
  /\ ReplyGone(session[c])
  /\ UNCHANGED <<Asking, Question, Landings>>

LEMMA Heard ==
  ASSUME WireType, HistType, NEW c \in Clients, session[c] \in Ids,
         HearsWires(c), applied' = applied
  PROVE  HearsTransit(c)
<1>1. session[c] \in Answering \ Asking
      BY Zenon DEF HearsWires, Asking, Answering
<1>2. ReplyGone(session[c]) /\ UNCHANGED <<Asking, Question>>
      BY QuestionMoves, ReplyMoves, Zenon DEF HearsWires
<1>3. UNCHANGED Landings
      BY LandingsMove, Zenon
<1>. QED BY <1>1, <1>2, <1>3, Zenon DEF HearsTransit

Hears(c, r) ==
  HearsClient(c, r) /\ HearsAnswer(c, r) /\ HearsWires(c) /\ HearsTransit(c)

LEMMA ReceiveHears ==
  ASSUME WireType, ClientType, HistType, Sockets, NEW c \in Clients, Receive(c)
  PROVE  Hears(c, Reply[session[c]])
<1>. DEFINE s == session[c]
            r == Head(resps[s])
<1>1. request[c] # None /\ resps[s] # << >>
      BY DEF Receive
<1>2. mutex[c] # None
      BY <1>1 DEF ClientType
<1>3. s \in Ids
      BY <1>2 DEF Sockets, SocketOk, ClientType
<1>4. Tail(resps[s]) = << >> /\ reqs[s] = << >> /\ r \in Responses
      BY <1>1, <1>3, TakenOff
<1>5. /\ resps' = [resps EXCEPT ![s] = << >>]
      /\ Accept(c, r)
      /\ returned' = IF request[c].op = "write" /\ r.ok
                     THEN [returned EXCEPT ![c] = @ \cup {request[c].no}] ELSE returned
      /\ Unlock(c)
      /\ UNCHANGED <<known, session, heartbeat, ui, serverVars, reqs, down, issued, applied>>
      BY <1>4, Zenon DEF Receive
<1>. HIDE DEF r, s
<1>6. \/ HangUp(c)
      \/ UNCHANGED <<alive, shut>> /\ control' \in {control, [control EXCEPT ![c] = r.control]}
      BY <1>5 DEF Accept
<1>7. r.op = "release" /\ r.ok => control' = [control EXCEPT ![c] = r.control]
      BY <1>5 DEF Accept
<1>8. \/ returned' = returned
      \/ /\ request[c].op = "write" /\ r.ok
         /\ returned' = [returned EXCEPT ![c] = @ \cup {request[c].no}]
      BY <1>5, Zenon
<1>9. HearsClient(c, r) /\ HearsWires(c)
      BY <1>1, <1>3, <1>4, <1>5, <1>6, Zenon
      DEF HearsClient, HearsWires, Unlock, serverVars, s
<1>11. r = Reply[s]
      BY <1>3, Zenon DEF Reply, r
<1>10. HearsAnswer(c, r)
      BY <1>4, <1>5, <1>7, <1>8, <1>11, Zenon DEF HearsAnswer, Unlock, s
<1>12. HearsTransit(c)
      BY <1>3, <1>5, <1>9, Heard, Zenon DEF s
<1>. QED BY <1>9, <1>10, <1>11, <1>12, Zenon DEF Hears, s

\* connect() that has its answer.
GreetedClient(c) ==
  /\ ui[c] = "greet" /\ mutex[c] = None /\ session[c] \in Ids
  /\ alive' = [alive EXCEPT ![c] = TRUE]
  /\ control' = [control EXCEPT ![c] = FALSE]
  /\ ui' = [ui EXCEPT ![c] = "idle"]
  /\ UNCHANGED <<session, mutex, request, peer, phase, owner, epoch, shut, down,
                 issued, returned, applied>>

GreetedTypes(c) ==
  /\ known' \in [Clients -> 0 .. MaxEpoch]
  /\ heartbeat' = [heartbeat EXCEPT ![c] = "check"]

Greeted(c) == GreetedClient(c) /\ HearsWires(c) /\ HearsTransit(c) /\ GreetedTypes(c)

LEMMA ConnectedGreeted ==
  ASSUME WireType, ClientType, HistType, Sockets, NEW c \in Clients, Connected(c)
  PROVE  Greeted(c)
<1>1. session[c] \in Ids
      BY DEF Sockets, SocketOk, ClientType, Connected
<1>2. resps[session[c]] # << >>
      BY DEF Connected
<1>3. /\ Tail(resps[session[c]]) = << >> /\ reqs[session[c]] = << >>
      /\ Head(resps[session[c]]) \in Responses
      BY <1>1, <1>2, TakenOff
<1>4. resps' = [resps EXCEPT ![session[c]] = << >>]
      BY <1>3, Zenon DEF Connected
<1>5. known' \in [Clients -> 0 .. MaxEpoch]
      BY <1>3 DEF Connected, ClientType, Responses
<1>6. HearsWires(c)
      BY <1>2, <1>3, <1>4, Zenon DEF Connected, HearsWires
<1>7. HearsTransit(c)
      BY <1>1, <1>6, Heard, Zenon DEF Connected, histVars
<1>. QED BY <1>1, <1>5, <1>6, <1>7, Zenon
      DEF Connected, Greeted, GreetedClient, GreetedTypes, serverVars, histVars

\* close() that has joined the heartbeat, alone (p is "idle") or for connect().
Joined(c, p) ==
  /\ ui[c] = "join" /\ mutex[c] = None /\ p \in {"idle", "dial"}
  /\ session' = [session EXCEPT ![c] = 0]
  /\ control' = [control EXCEPT ![c] = FALSE]
  /\ ui' = [ui EXCEPT ![c] = p]
  /\ UNCHANGED <<alive, known, mutex, request, heartbeat, serverVars, wireVars, histVars>>

LEMMA CloseJoined ==
  ASSUME NEW c \in Clients, CloseJoins(c)
  PROVE  \E p \in {"idle", "dial"} : Joined(c, p)
BY DEF CloseJoins, Joined

\* An operation that dispatch carries out, with ok the success it reports.
ExecutesPhase(s) ==
  /\ phase[s] = "exec" /\ phase' = [phase EXCEPT ![s] = "recv"]
  /\ epoch' \in 1 .. MaxEpoch
  /\ UNCHANGED <<clientVars, peer, shut, down, issued, returned>>

ExecutesLease(s, r, ok) ==
  /\ r.op = "write" /\ ok => owner = s
  /\ r.op = "claim" /\ ok => owner \in {0, s}
  /\ owner' = IF r.op = "claim" /\ ok THEN s
              ELSE IF r.op = "release" /\ owner = s THEN 0 ELSE owner

ExecutesWrite(s, r, ok) ==
  applied' = IF r.op = "write" /\ ok
             THEN Append(applied, [client |-> peer[s], no |-> r.no, epoch |-> epoch])
             ELSE applied

ExecutesWires(s, r, ok) ==
  /\ reqs[s] # << >> /\ resps[s] = << >> /\ r \in Requests
  /\ r.op \in {"info", "release"} => ok
  /\ reqs' = [reqs EXCEPT ![s] = << >>]
  /\ \/ resps' = resps /\ s \in down \cup shut
     \/ resps' = [resps EXCEPT ![s] = <<Answer(r, ok, s, owner')>>] /\ s \notin down \cup shut

ExecutesTransit(s, r, ok) ==
  /\ s \in Asking \ Answering /\ r = Question[s] /\ QuestionGone(s)
  /\ ReplyPut(s, Answer(r, ok, s, owner')) \/ UNCHANGED <<Answering, Reply>>
  /\ Landings' = Landings \cup
                   (IF r.op = "write" /\ ok THEN {[client |-> peer[s], no |-> r.no]} ELSE {})

Executes(s, r, ok) ==
  /\ ExecutesPhase(s) /\ ExecutesLease(s, r, ok) /\ ExecutesWrite(s, r, ok)
  /\ ExecutesWires(s, r, ok) /\ ExecutesTransit(s, r, ok)

LEMMA ExecuteWires ==
  ASSUME WireType, ServerType, HistType, Wires,
         NEW s \in Ids, NEW works \in BOOLEAN, Execute(s, works)
  PROVE  \E ok \in BOOLEAN : Executes(s, Question[s], ok)
<1>. DEFINE r == Head(reqs[s])
            ok == CASE r.op \in {"info", "release"} -> TRUE
                    [] r.op = "read"  -> r.epoch = epoch /\ works
                    [] r.op = "claim" -> MayClaim(s)
                    [] OTHER -> MayAlter(s, r) /\ works
<1>1. /\ owner' = CASE r.op = "claim" /\ ok -> s
                    [] r.op = "release" /\ owner = s -> 0
                    [] OTHER -> owner
      /\ applied' = IF r.op = "write" /\ ok
                    THEN Append(applied, [client |-> peer[s], no |-> r.no, epoch |-> epoch])
                    ELSE applied
      /\ Send(s, Answer(r, ok, s, owner'))
      /\ reqs' = [reqs EXCEPT ![s] = Tail(@)]
      /\ reqs[s] # << >>
      BY Zenon DEF Execute, Dispatch, Wires, WireOk, Asking
<1>2. /\ r.op \in {"info", "release"} => ok
      /\ r.op = "write" /\ ok => owner = s
      /\ r.op = "claim" /\ ok => owner \in {0, s}
      BY DEF MayClaim, MayAlter
<1>3. ok \in BOOLEAN
  <2>1. CASE r.op \in {"info", "release"} BY <2>1
  <2>2. CASE r.op = "read" BY <2>2
  <2>3. CASE r.op = "claim" BY <2>3 DEF MayClaim
  <2>4. CASE r.op \notin {"info", "release", "read", "claim"} BY <2>4 DEF MayAlter
  <2>. QED BY <2>1, <2>2, <2>3, <2>4
<1>4. /\ resps[s] = << >> /\ r \in Requests
      /\ reqs' = [reqs EXCEPT ![s] = << >>]
      BY <1>1, TakenOff
<1>5. Append(<< >>, Answer(r, ok, s, owner')) = <<Answer(r, ok, s, owner')>>
      OBVIOUS
<1>6. \/ resps' = resps /\ s \in down \cup shut
      \/ resps' = [resps EXCEPT ![s] = <<Answer(r, ok, s, owner')>>] /\ s \notin down \cup shut
      BY <1>1, <1>4, <1>5 DEF Send, WireType
<1>7. owner' = IF r.op = "claim" /\ ok THEN s
              ELSE IF r.op = "release" /\ owner = s THEN 0 ELSE owner
      BY <1>1
<1>8. /\ phase[s] = "exec" /\ phase' = [phase EXCEPT ![s] = "recv"]
      /\ UNCHANGED <<clientVars, peer, shut, down, issued, returned>>
      BY DEF Execute
<1>9. epoch' = (IF r.op = "reset" /\ ok THEN epoch + 1 ELSE epoch)
      /\ (r.op = "reset" /\ works => epoch < MaxEpoch) /\ (r.op = "reset" /\ ok => works)
      BY Zenon DEF Execute, Dispatch, MayAlter
<1>10. epoch' \in 1 .. MaxEpoch
      BY <1>9, LinkAssumption DEF ServerType
<1>11. r = Question[s] /\ s \in Asking \ Answering
      BY <1>1, <1>4, Zenon DEF Question, Asking, Answering
<1>. HIDE DEF ok, r
<1>12. QuestionGone(s) /\ (ReplyPut(s, Answer(r, ok, s, owner')) \/ UNCHANGED <<Answering, Reply>>)
      BY <1>4, <1>6, QuestionMoves, ReplyMoves, Zenon
<1>13. Landings' = Landings \cup
                   (IF r.op = "write" /\ ok THEN {[client |-> peer[s], no |-> r.no]} ELSE {})
  <2>1. CASE r.op = "write" /\ ok
        BY <2>1, <1>1, LandingsMove, Zenon
  <2>2. CASE ~(r.op = "write" /\ ok)
        BY <2>2, <1>1, LandingsMove
  <2>. QED BY <2>1, <2>2
<1>14. Executes(s, r, ok)
      BY <1>1, <1>2, <1>4, <1>6, <1>7, <1>8, <1>10, <1>11, <1>12, <1>13, Zenon
       DEF Executes, ExecutesPhase, ExecutesLease, ExecutesWrite, ExecutesWires, ExecutesTransit
<1>. QED BY <1>3, <1>11, <1>14

\* The link that goes away with what was under way on it.
BreaksWires(s) ==
  /\ reqs' = reqs \/ (reqs' = [reqs EXCEPT ![s] = << >>] /\ phase[s] # "exec")
  /\ resps' = [resps EXCEPT ![s] = << >>]

BreaksTransit(s) ==
  /\ (QuestionGone(s) /\ phase[s] # "exec") \/ UNCHANGED <<Asking, Question>>
  /\ ReplyGone(s)
  /\ UNCHANGED Landings

Breaks(s) ==
  /\ phase[s] \notin {"free", "over"} /\ down' = down \cup {s}
  /\ BreaksWires(s) /\ BreaksTransit(s)
  /\ UNCHANGED <<clientVars, serverVars, shut, histVars>>

LEMMA LinkBreaksBreaks ==
  ASSUME WireType, HistType, Wires, NEW s \in Ids, LinkBreaks(s)
  PROVE  Breaks(s)
<1>1. BreaksWires(s)
  <2>1. CASE phase[s] = "exec"
    <3>1. <<Head(reqs[s])>> = reqs[s]
          BY <2>1, TakenOff DEF Wires, WireOk, Asking
    <3>2. reqs' = [reqs EXCEPT ![s] = reqs[s]]
          BY <2>1, <3>1, Zenon DEF LinkBreaks
    <3>3. reqs' = reqs
          BY <3>2 DEF WireType
    <3>. QED BY <3>3, Zenon DEF LinkBreaks, BreaksWires
  <2>2. CASE phase[s] # "exec"
        BY <2>2, Zenon DEF LinkBreaks, BreaksWires
  <2>. QED BY <2>1, <2>2
<1>2. BreaksTransit(s)
      BY <1>1, QuestionMoves, ReplyMoves, LandingsMove, Zenon
      DEF LinkBreaks, BreaksWires, BreaksTransit, histVars
<1>. QED BY <1>1, <1>2, Zenon DEF LinkBreaks, Breaks

\* The session that has welcomed its client.
WelcomesWires(s) ==
  /\ resps[s] = << >> /\ reqs[s] = << >>
  /\ \/ resps' = resps
     \/ \E r \in Responses : resps' = [resps EXCEPT ![s] = <<r>>]

WelcomesTransit(s) ==
  /\ \/ UNCHANGED <<Answering, Reply>>
     \/ \E r \in Responses : ReplyPut(s, r) /\ r.op = "welcome" /\ r.control = FALSE
  /\ UNCHANGED <<Asking, Question, Landings>>

Welcomes(s) ==
  /\ phase[s] = "hello" /\ phase' = [phase EXCEPT ![s] = "recv"]
  /\ WelcomesWires(s) /\ WelcomesTransit(s)
  /\ UNCHANGED <<clientVars, peer, owner, epoch, reqs, shut, down, histVars>>

LEMMA WelcomeWelcomes ==
  ASSUME WireType, ServerType, HistType, Wires, NEW s \in Ids, Welcome(s)
  PROVE  Welcomes(s)
<1>. DEFINE r == [op |-> "welcome", no |-> 0, ok |-> TRUE, control |-> FALSE, epoch |-> epoch]
<1>1. resps[s] = << >> /\ reqs[s] = << >>
      BY DEF Welcome, Wires, WireOk, Asking, Answering
<1>2. Append(<< >>, r) = <<r>>
      OBVIOUS
<1>3. r \in Responses /\ r.op = "welcome" /\ r.control = FALSE
      BY LinkAssumption DEF Responses, ServerType
<1>4. Send(s, r) /\ phase[s] = "hello" /\ phase' = [phase EXCEPT ![s] = "recv"]
      /\ UNCHANGED <<clientVars, peer, owner, epoch, reqs, shut, down, histVars>>
      BY DEF Welcome
<1>. HIDE DEF r
<1>5. resps' = resps \/ resps' = [resps EXCEPT ![s] = <<r>>]
      BY <1>1, <1>2, <1>4 DEF Send, WireType
<1>6. UNCHANGED <<Answering, Reply>> \/ ReplyPut(s, r)
      BY <1>5, ReplyMoves, Zenon
<1>7. UNCHANGED <<Asking, Question, Landings>>
      BY <1>4, QuestionMoves, LandingsMove, Zenon DEF histVars
<1>8. WelcomesWires(s)
      BY <1>1, <1>3, <1>5, Zenon DEF WelcomesWires
<1>9. WelcomesTransit(s)
      BY <1>3, <1>6, <1>7, Zenon DEF WelcomesTransit
<1>. QED BY <1>4, <1>8, <1>9, Zenon DEF Welcomes

Still == UNCHANGED <<Asking, Question, Answering, Reply, Landings>>

LEMMA StandsStill ==
  ASSUME reqs' = reqs, resps' = resps, applied' = applied
  PROVE  Still
BY Zenon DEF Still, Asking, Question, Answering, Reply, Landings

\* The steps, with what the calls, the beats and the dispatch do to the wires.
Step ==
  \/ \E c \in Clients :
       \/ \E th, r : Asks(c, th, r)
       \/ Hears(c, Reply[session[c]]) \/ Greeted(c)
  \/ \E s \in Ids :
       \/ Welcomes(s) \/ Breaks(s) \/ \E ok \in BOOLEAN : Executes(s, Question[s], ok)
  \/ Still /\ \E c \in Clients :
       \/ BeatChecks(c) \/ BeatRefused(c) \/ RpcFails(c) \/ CloseBegins(c) \/ CloseShuts(c)
       \/ (\E p \in {"idle", "dial"} : Joined(c, p))
       \/ (\E s \in Ids : Dial(c, s)) \/ ConnectFails(c)
  \/ Still /\ \E s \in Ids : Take(s) \/ SessionEnds(s)
  \/ Still /\ TargetChanges

LEMMA Steps ==
  ASSUME ClientType, ServerType, WireType, HistType, Sockets, Wires, Quiet, Next
  PROVE  Step
<1>1. ASSUME NEW c \in Clients, NEW op \in Ops, Call(c, op) PROVE Step
      BY <1>1, CallAsks, Zenon DEF Step
<1>2. ASSUME NEW c \in Clients, Beat(c) \/ Receive(c) \/ Connected(c) PROVE Step
      BY <1>2, BeatAsks, ReceiveHears, ConnectedGreeted, Zenon DEF Step
<1>3. ASSUME NEW c \in Clients, CloseJoins(c) PROVE Step
  <2>1. Still
        BY <1>3, StandsStill, Zenon DEF CloseJoins, wireVars, histVars
  <2>. QED BY <1>3, <2>1, CloseJoined, Zenon DEF Step
<1>4. ASSUME NEW c \in Clients,
             \/ BeatChecks(c) \/ BeatRefused(c) \/ RpcFails(c) \/ CloseBegins(c)
             \/ CloseShuts(c) \/ (\E s \in Ids : Dial(c, s)) \/ ConnectFails(c)
      PROVE  Step
  <2>1. reqs' = reqs /\ resps' = resps /\ applied' = applied
        BY <1>4 DEF BeatChecks, BeatRefused, RpcFails, CloseBegins, CloseShuts, Dial,
                    ConnectFails, wireVars, histVars
  <2>. QED BY <1>4, <2>1, StandsStill, Zenon DEF Step
<1>5. ASSUME NEW s \in Ids, Take(s) \/ SessionEnds(s) PROVE Step
  <2>1. reqs' = reqs /\ resps' = resps /\ applied' = applied
        BY <1>5 DEF Take, SessionEnds, wireVars, histVars
  <2>. QED BY <1>5, <2>1, StandsStill, Zenon DEF Step
<1>6. ASSUME NEW s \in Ids, Welcome(s) \/ LinkBreaks(s) PROVE Step
      BY <1>6, WelcomeWelcomes, LinkBreaksBreaks, Zenon DEF Step
<1>7. ASSUME NEW s \in Ids, NEW works \in BOOLEAN, Execute(s, works) PROVE Step
      BY <1>7, ExecuteWires, Zenon DEF Step
<1>8. CASE TargetChanges
  <2>1. Still
        BY <1>8, StandsStill, Zenon DEF TargetChanges, wireVars, histVars
  <2>. QED BY <1>8, <2>1, Zenon DEF Step
<1>. QED BY <1>1, <1>2, <1>3, <1>4, <1>5, <1>6, <1>7, <1>8, Zenon DEF Next

\* A thread in rpc() has a session that is welcome and nobody else's.
LEMMA InUse ==
  ASSUME ClientType, Sessions, Sockets, NEW c \in Clients, request[c] # None
  PROVE  /\ mutex[c] # None /\ session[c] \in Ids /\ ui[c] \in {"idle", "shut"}
         /\ phase[session[c]] \notin {"free", "hello"} /\ peer[session[c]] = c
         /\ \A d \in Clients \ {c} : session[d] # session[c]
<1>1. mutex[c] # None
      BY DEF ClientType
<1>2. session[c] # 0 /\ ui[c] \in {"idle", "shut"}
      BY <1>1 DEF Sockets, SocketOk
<1>3. session[c] \in Ids
      BY <1>2 DEF ClientType
<1>4. phase[session[c]] \notin {"free", "hello"} /\ peer[session[c]] = c
      BY <1>2 DEF Sessions, SessionOf, Sockets, SocketOk
<1>5. \A d \in Clients \ {c} : session[d] # session[c]
      BY <1>2, <1>4 DEF Sessions, SessionOf
<1>. QED BY <1>1, <1>2, <1>3, <1>4, <1>5, Zenon
\* A session is dialled by one client, from the free ones, and left for good.
LEMMA SessionStep ==
  ASSUME ClientType, ServerType, TransitType, Sockets, Sessions, Step
  PROVE  \A d \in Clients : SessionOf(d)'
<1>. USE LinkAssumption, NoneAssumption DEF ClientType, ServerType, TransitType,
           Sockets, SocketOk, Sessions, SessionOf, PeerOf, Ids, Still, clientVars,
           serverVars, wireVars, histVars
<1>. SUFFICES ASSUME NEW d \in Clients PROVE SessionOf(d)'
     OBVIOUS
<1>1. ASSUME NEW c \in Clients, NEW th, NEW r, Asks(c, th, r) PROVE SessionOf(d)'
      BY <1>1 DEF Asks, AsksClient
<1>2. ASSUME NEW c \in Clients, Hears(c, Reply[session[c]]) PROVE SessionOf(d)'
      BY <1>2 DEF Hears, HearsClient, HangUp
<1>3. ASSUME Still, NEW c \in Clients, NEW p \in {"idle", "dial"}, Joined(c, p) PROVE
             SessionOf(d)'
      BY <1>3 DEF Joined
<1>4. ASSUME Still, NEW c \in Clients, BeatChecks(c) PROVE SessionOf(d)'
      BY <1>4 DEF BeatChecks
<1>5. ASSUME Still, NEW c \in Clients, BeatRefused(c) PROVE SessionOf(d)'
      BY <1>5 DEF BeatRefused
<1>6. ASSUME Still, NEW c \in Clients, RpcFails(c) PROVE SessionOf(d)'
      BY <1>6 DEF RpcFails, Abandon, HangUp, Unlock
<1>7. ASSUME Still, NEW c \in Clients, CloseBegins(c) PROVE SessionOf(d)'
      BY <1>7 DEF CloseBegins
<1>8. ASSUME Still, NEW c \in Clients, CloseShuts(c) PROVE SessionOf(d)'
      BY <1>8 DEF CloseShuts
<1>9. ASSUME Still, NEW c \in Clients, ConnectFails(c) PROVE SessionOf(d)'
      BY <1>9 DEF ConnectFails
<1>10. ASSUME NEW c \in Clients, Greeted(c) PROVE SessionOf(d)'
      BY <1>10 DEF Greeted, GreetedClient
<1>11. ASSUME Still, NEW c \in Clients, NEW s \in Ids, Dial(c, s) PROVE SessionOf(d)'
      BY <1>11 DEF Dial
<1>12. ASSUME NEW s \in Ids, Welcomes(s) PROVE SessionOf(d)'
      BY <1>12 DEF Welcomes
<1>13. ASSUME Still, NEW s \in Ids, Take(s) PROVE SessionOf(d)'
      BY <1>13 DEF Take
<1>14. ASSUME Still, NEW s \in Ids, SessionEnds(s) PROVE SessionOf(d)'
      BY <1>14 DEF SessionEnds, EndSession
<1>15. ASSUME NEW s \in Ids, Breaks(s) PROVE SessionOf(d)'
      BY <1>15 DEF Breaks
<1>16. ASSUME NEW s \in Ids, NEW ok \in BOOLEAN, Executes(s, Question[s], ok) PROVE
             SessionOf(d)'
      BY <1>16 DEF Executes, ExecutesPhase, ExecutesLease
<1>17. ASSUME Still, TargetChanges PROVE SessionOf(d)'
      BY <1>17 DEF TargetChanges
<1>. HIDE DEF ClientType, ServerType, TransitType, Sockets, SocketOk, Sessions,
            SessionOf, PeerOf
<1>. QED BY <1>1, <1>2, <1>3, <1>4, <1>5, <1>6, <1>7, <1>8, <1>9, <1>10, <1>11, <1>12,
          <1>13, <1>14, <1>15, <1>16, <1>17 DEF Step

\* No free session is shut or owns the lease.
LEMMA PeerStep ==
  ASSUME ClientType, ServerType, TransitType, Sockets, Sessions, Step
  PROVE  \A t \in Ids : PeerOf(t)'
<1>. USE LinkAssumption, NoneAssumption DEF ClientType, ServerType, TransitType,
           Sockets, SocketOk, Sessions, SessionOf, PeerOf, Ids, Still, clientVars,
           serverVars, wireVars, histVars
<1>. SUFFICES ASSUME NEW t \in Ids PROVE PeerOf(t)'
     OBVIOUS
<1>1. ASSUME NEW c \in Clients, NEW th, NEW r, Asks(c, th, r) PROVE PeerOf(t)'
      BY <1>1 DEF Asks, AsksClient
<1>2. ASSUME NEW c \in Clients, Hears(c, Reply[session[c]]) PROVE PeerOf(t)'
      BY <1>2 DEF Hears, HearsClient, HangUp
<1>3. ASSUME Still, NEW c \in Clients, NEW p \in {"idle", "dial"}, Joined(c, p) PROVE
             PeerOf(t)'
      BY <1>3 DEF Joined
<1>4. ASSUME Still, NEW c \in Clients, BeatChecks(c) PROVE PeerOf(t)'
      BY <1>4 DEF BeatChecks
<1>5. ASSUME Still, NEW c \in Clients, BeatRefused(c) PROVE PeerOf(t)'
      BY <1>5 DEF BeatRefused
<1>6. ASSUME Still, NEW c \in Clients, RpcFails(c) PROVE PeerOf(t)'
      BY <1>6 DEF RpcFails, Abandon, HangUp, Unlock
<1>7. ASSUME Still, NEW c \in Clients, CloseBegins(c) PROVE PeerOf(t)'
      BY <1>7 DEF CloseBegins
<1>8. ASSUME Still, NEW c \in Clients, CloseShuts(c) PROVE PeerOf(t)'
        <2>1. phase' = phase /\ peer' = peer /\ owner' = owner
        BY <1>8 DEF CloseShuts
  <2>2. shut' = shut \cup ({session[c]} \ {0})
        BY <1>8, Zenon DEF CloseShuts
  <2>3. t \in shut' => t \in shut \/ session[c] = t
        BY <2>2, Zenon
  <2>4. t # 0
        OBVIOUS
  <2>5. session[c] = t => phase[t] # "free"
        BY <2>4
  <2>. QED BY <2>1, <2>3, <2>5
<1>9. ASSUME Still, NEW c \in Clients, ConnectFails(c) PROVE PeerOf(t)'
      BY <1>9 DEF ConnectFails
<1>10. ASSUME NEW c \in Clients, Greeted(c) PROVE PeerOf(t)'
      BY <1>10 DEF Greeted, GreetedClient
<1>11. ASSUME Still, NEW c \in Clients, NEW s \in Ids, Dial(c, s) PROVE PeerOf(t)'
      BY <1>11 DEF Dial
<1>12. ASSUME NEW s \in Ids, Welcomes(s) PROVE PeerOf(t)'
      BY <1>12 DEF Welcomes
<1>13. ASSUME Still, NEW s \in Ids, Take(s) PROVE PeerOf(t)'
      BY <1>13 DEF Take
<1>14. ASSUME Still, NEW s \in Ids, SessionEnds(s) PROVE PeerOf(t)'
      BY <1>14 DEF SessionEnds, EndSession
<1>15. ASSUME NEW s \in Ids, Breaks(s) PROVE PeerOf(t)'
      BY <1>15 DEF Breaks
<1>16. ASSUME NEW s \in Ids, NEW ok \in BOOLEAN, Executes(s, Question[s], ok) PROVE
             PeerOf(t)'
      BY <1>16 DEF Executes, ExecutesPhase, ExecutesLease
<1>17. ASSUME Still, TargetChanges PROVE PeerOf(t)'
      BY <1>17 DEF TargetChanges
<1>. HIDE DEF ClientType, ServerType, TransitType, Sockets, SocketOk, Sessions,
            SessionOf, PeerOf
<1>. QED BY <1>1, <1>2, <1>3, <1>4, <1>5, <1>6, <1>7, <1>8, <1>9, <1>10, <1>11, <1>12,
          <1>13, <1>14, <1>15, <1>16, <1>17 DEF Step

\* The client's flags follow its socket through close() and connect().
LEMMA SocketStep ==
  ASSUME ClientType, ServerType, TransitType, Wires, Sockets, Sessions, Step
  PROVE  \A d \in Clients : SocketOk(d)'
<1>. USE LinkAssumption, NoneAssumption DEF ClientType, ServerType, TransitType, Wires,
           WireOk, Sockets, SocketOk, Sessions, SessionOf, PeerOf, Ids, Still,
           clientVars, serverVars, wireVars, histVars
<1>. SUFFICES ASSUME NEW d \in Clients PROVE SocketOk(d)'
     OBVIOUS
<1>1. ASSUME NEW c \in Clients, NEW th, NEW r, Asks(c, th, r) PROVE SocketOk(d)'
      BY <1>1 DEF Asks, AsksClient
<1>2. ASSUME NEW c \in Clients, Hears(c, Reply[session[c]]) PROVE SocketOk(d)'
      BY <1>2 DEF Hears, HearsClient, HangUp
<1>3. ASSUME Still, NEW c \in Clients, NEW p \in {"idle", "dial"}, Joined(c, p) PROVE
             SocketOk(d)'
      BY <1>3 DEF Joined
<1>4. ASSUME Still, NEW c \in Clients, BeatChecks(c) PROVE SocketOk(d)'
      BY <1>4 DEF BeatChecks
<1>5. ASSUME Still, NEW c \in Clients, BeatRefused(c) PROVE SocketOk(d)'
      BY <1>5 DEF BeatRefused
<1>6. ASSUME Still, NEW c \in Clients, RpcFails(c) PROVE SocketOk(d)'
      BY <1>6 DEF RpcFails, Abandon, HangUp, Unlock
<1>7. ASSUME Still, NEW c \in Clients, CloseBegins(c) PROVE SocketOk(d)'
      BY <1>7 DEF CloseBegins
<1>8. ASSUME Still, NEW c \in Clients, CloseShuts(c) PROVE SocketOk(d)'
      BY <1>8 DEF CloseShuts
<1>9. ASSUME Still, NEW c \in Clients, ConnectFails(c) PROVE SocketOk(d)'
      BY <1>9 DEF ConnectFails
<1>10. ASSUME NEW c \in Clients, Greeted(c) PROVE SocketOk(d)'
      BY <1>10 DEF Greeted, GreetedClient, HearsTransit
<1>11. ASSUME Still, NEW c \in Clients, NEW s \in Ids, Dial(c, s) PROVE SocketOk(d)'
      BY <1>11 DEF Dial
<1>12. ASSUME NEW s \in Ids, Welcomes(s) PROVE SocketOk(d)'
      BY <1>12 DEF Welcomes
<1>13. ASSUME Still, NEW s \in Ids, Take(s) PROVE SocketOk(d)'
      BY <1>13 DEF Take
<1>14. ASSUME Still, NEW s \in Ids, SessionEnds(s) PROVE SocketOk(d)'
      BY <1>14 DEF SessionEnds, EndSession
<1>15. ASSUME NEW s \in Ids, Breaks(s) PROVE SocketOk(d)'
      BY <1>15 DEF Breaks
<1>16. ASSUME NEW s \in Ids, NEW ok \in BOOLEAN, Executes(s, Question[s], ok) PROVE
             SocketOk(d)'
      BY <1>16 DEF Executes, ExecutesPhase, ExecutesLease
<1>17. ASSUME Still, TargetChanges PROVE SocketOk(d)'
      BY <1>17 DEF TargetChanges
<1>. HIDE DEF ClientType, ServerType, TransitType, Wires, WireOk, Sockets, SocketOk,
            Sessions, SessionOf, PeerOf
<1>. QED BY <1>1, <1>2, <1>3, <1>4, <1>5, <1>6, <1>7, <1>8, <1>9, <1>10, <1>11, <1>12,
          <1>13, <1>14, <1>15, <1>16, <1>17 DEF Step

\* One message per connection: who sends has seen both directions empty.
LEMMA WireStep ==
  ASSUME ClientType, ServerType, TransitType, Wires, Sockets, Sessions, Step
  PROVE  \A t \in Ids : WireOk(t)'
<1>. USE LinkAssumption, NoneAssumption DEF ClientType, ServerType, TransitType, Wires,
           WireOk, Sockets, SocketOk, Sessions, SessionOf, PeerOf, Ids, Still,
           clientVars, serverVars, wireVars, histVars
<1>. SUFFICES ASSUME NEW t \in Ids PROVE WireOk(t)'
     OBVIOUS
<1>1. ASSUME NEW c \in Clients, NEW th, NEW r, Asks(c, th, r) PROVE WireOk(t)'
      BY <1>1 DEF Asks, AsksClient, AsksTransit, QuestionPut
<1>2. ASSUME NEW c \in Clients, Hears(c, Reply[session[c]]) PROVE WireOk(t)'
      BY <1>2 DEF Hears, HearsClient, HearsTransit, ReplyGone, HangUp
<1>3. ASSUME Still, NEW c \in Clients, NEW p \in {"idle", "dial"}, Joined(c, p) PROVE
             WireOk(t)'
      BY <1>3 DEF Joined
<1>4. ASSUME Still, NEW c \in Clients, BeatChecks(c) PROVE WireOk(t)'
      BY <1>4 DEF BeatChecks
<1>5. ASSUME Still, NEW c \in Clients, BeatRefused(c) PROVE WireOk(t)'
      BY <1>5 DEF BeatRefused
<1>6. ASSUME Still, NEW c \in Clients, RpcFails(c) PROVE WireOk(t)'
      BY <1>6 DEF RpcFails, Abandon, HangUp, Unlock
<1>7. ASSUME Still, NEW c \in Clients, CloseBegins(c) PROVE WireOk(t)'
      BY <1>7 DEF CloseBegins
<1>8. ASSUME Still, NEW c \in Clients, CloseShuts(c) PROVE WireOk(t)'
      BY <1>8 DEF CloseShuts
<1>9. ASSUME Still, NEW c \in Clients, ConnectFails(c) PROVE WireOk(t)'
      BY <1>9 DEF ConnectFails
<1>10. ASSUME NEW c \in Clients, Greeted(c) PROVE WireOk(t)'
      BY <1>10 DEF Greeted, GreetedClient, HearsTransit, ReplyGone
<1>11. ASSUME Still, NEW c \in Clients, NEW s \in Ids, Dial(c, s) PROVE WireOk(t)'
      BY <1>11 DEF Dial
<1>12. ASSUME NEW s \in Ids, Welcomes(s) PROVE WireOk(t)'
      BY <1>12 DEF Welcomes, WelcomesTransit, ReplyPut
<1>13. ASSUME Still, NEW s \in Ids, Take(s) PROVE WireOk(t)'
        <2>1. s \in Asking
        BY <1>13, Zenon DEF Take, Asking
  <2>. QED BY <1>13, <2>1 DEF Take
<1>14. ASSUME Still, NEW s \in Ids, SessionEnds(s) PROVE WireOk(t)'
      BY <1>14 DEF SessionEnds, EndSession
<1>15. ASSUME NEW s \in Ids, Breaks(s) PROVE WireOk(t)'
      BY <1>15 DEF Breaks, BreaksTransit, QuestionGone, ReplyGone
<1>16. ASSUME NEW s \in Ids, NEW ok \in BOOLEAN, Executes(s, Question[s], ok) PROVE
             WireOk(t)'
      BY <1>16 DEF Executes, ExecutesPhase, ExecutesTransit, QuestionGone, ReplyPut
<1>17. ASSUME Still, TargetChanges PROVE WireOk(t)'
      BY <1>17 DEF TargetChanges
<1>. HIDE DEF ClientType, ServerType, TransitType, Wires, WireOk, Sockets, SocketOk,
            Sessions, SessionOf, PeerOf
<1>. QED BY <1>1, <1>2, <1>3, <1>4, <1>5, <1>6, <1>7, <1>8, <1>9, <1>10, <1>11, <1>12,
          <1>13, <1>14, <1>15, <1>16, <1>17 DEF Step

\* A thread that gives the mutex back has taken its answer or hung up.
LEMMA QuietStep ==
  ASSUME ClientType, ServerType, TransitType, Wires, Sockets, Sessions, Quiet, Step
  PROVE  \A d \in Clients : QuietAt(d)'
<1>. USE LinkAssumption, NoneAssumption DEF ClientType, ServerType, TransitType, Wires,
           WireOk, Sockets, SocketOk, Sessions, SessionOf, PeerOf, Quiet, QuietAt, Ids,
           Still, clientVars, serverVars, wireVars, histVars
<1>. SUFFICES ASSUME NEW d \in Clients PROVE QuietAt(d)'
     OBVIOUS
<1>1. ASSUME NEW c \in Clients, NEW th, NEW r, Asks(c, th, r) PROVE QuietAt(d)'
      BY <1>1 DEF Asks, AsksClient, AsksTransit, QuestionPut
<1>2. ASSUME NEW c \in Clients, Hears(c, Reply[session[c]]) PROVE QuietAt(d)'
      BY <1>2 DEF Hears, HearsClient, HearsTransit, ReplyGone, HangUp
<1>3. ASSUME Still, NEW c \in Clients, NEW p \in {"idle", "dial"}, Joined(c, p) PROVE
             QuietAt(d)'
      BY <1>3 DEF Joined
<1>4. ASSUME Still, NEW c \in Clients, BeatChecks(c) PROVE QuietAt(d)'
      BY <1>4 DEF BeatChecks
<1>5. ASSUME Still, NEW c \in Clients, BeatRefused(c) PROVE QuietAt(d)'
      BY <1>5 DEF BeatRefused
<1>6. ASSUME Still, NEW c \in Clients, RpcFails(c) PROVE QuietAt(d)'
      BY <1>6 DEF RpcFails, Abandon, HangUp, Unlock
<1>7. ASSUME Still, NEW c \in Clients, CloseBegins(c) PROVE QuietAt(d)'
      BY <1>7 DEF CloseBegins
<1>8. ASSUME Still, NEW c \in Clients, CloseShuts(c) PROVE QuietAt(d)'
      BY <1>8 DEF CloseShuts
<1>9. ASSUME Still, NEW c \in Clients, ConnectFails(c) PROVE QuietAt(d)'
      BY <1>9 DEF ConnectFails
<1>10. ASSUME NEW c \in Clients, Greeted(c) PROVE QuietAt(d)'
      BY <1>10 DEF Greeted, GreetedClient, HearsTransit, ReplyGone
<1>11. ASSUME Still, NEW c \in Clients, NEW s \in Ids, Dial(c, s) PROVE QuietAt(d)'
      BY <1>11 DEF Dial
<1>12. ASSUME NEW s \in Ids, Welcomes(s) PROVE QuietAt(d)'
      BY <1>12 DEF Welcomes, WelcomesTransit, ReplyPut
<1>13. ASSUME Still, NEW s \in Ids, Take(s) PROVE QuietAt(d)'
      BY <1>13 DEF Take
<1>14. ASSUME Still, NEW s \in Ids, SessionEnds(s) PROVE QuietAt(d)'
      BY <1>14 DEF SessionEnds, EndSession
<1>15. ASSUME NEW s \in Ids, Breaks(s) PROVE QuietAt(d)'
      BY <1>15 DEF Breaks, BreaksTransit, QuestionGone, ReplyGone
<1>16. ASSUME NEW s \in Ids, NEW ok \in BOOLEAN, Executes(s, Question[s], ok) PROVE
             QuietAt(d)'
      BY <1>16 DEF Executes, ExecutesPhase, ExecutesTransit, QuestionGone, ReplyPut
<1>17. ASSUME Still, TargetChanges PROVE QuietAt(d)'
      BY <1>17 DEF TargetChanges
<1>. HIDE DEF ClientType, ServerType, TransitType, Wires, WireOk, Sockets, SocketOk,
            Sessions, SessionOf, PeerOf, Quiet, QuietAt
<1>. QED BY <1>1, <1>2, <1>3, <1>4, <1>5, <1>6, <1>7, <1>8, <1>9, <1>10, <1>11, <1>12,
          <1>13, <1>14, <1>15, <1>16, <1>17 DEF Step

\* Nothing but the thread in rpc() writes to the session of its client.
LEMMA AskedStep ==
  ASSUME ClientType, ServerType, TransitType, Wires, Sockets, Sessions, Quiet, Asked,
         Step
  PROVE  \A d \in Clients : AskedAt(d)'
<1>. USE LinkAssumption, NoneAssumption DEF ClientType, ServerType, TransitType, Wires,
           WireOk, Sockets, SocketOk, Sessions, SessionOf, PeerOf, Quiet, QuietAt,
           Asked, AskedAt, Ids, Still, clientVars, serverVars, wireVars, histVars
<1>. SUFFICES ASSUME NEW d \in Clients PROVE AskedAt(d)'
     OBVIOUS
<1>1. ASSUME NEW c \in Clients, NEW th, NEW r, Asks(c, th, r) PROVE AskedAt(d)'
      BY <1>1 DEF Asks, AsksClient, AsksRequest, AsksTransit, QuestionPut
<1>2. ASSUME NEW c \in Clients, Hears(c, Reply[session[c]]) PROVE AskedAt(d)'
      BY <1>2 DEF Hears, HearsClient, HearsAnswer, HearsTransit, ReplyGone, HangUp
<1>3. ASSUME Still, NEW c \in Clients, NEW p \in {"idle", "dial"}, Joined(c, p) PROVE
             AskedAt(d)'
      BY <1>3 DEF Joined
<1>4. ASSUME Still, NEW c \in Clients, BeatChecks(c) PROVE AskedAt(d)'
      BY <1>4 DEF BeatChecks
<1>5. ASSUME Still, NEW c \in Clients, BeatRefused(c) PROVE AskedAt(d)'
      BY <1>5 DEF BeatRefused
<1>6. ASSUME Still, NEW c \in Clients, RpcFails(c) PROVE AskedAt(d)'
      BY <1>6 DEF RpcFails, Abandon, HangUp, Unlock
<1>7. ASSUME Still, NEW c \in Clients, CloseBegins(c) PROVE AskedAt(d)'
      BY <1>7 DEF CloseBegins
<1>8. ASSUME Still, NEW c \in Clients, CloseShuts(c) PROVE AskedAt(d)'
      BY <1>8 DEF CloseShuts
<1>9. ASSUME Still, NEW c \in Clients, ConnectFails(c) PROVE AskedAt(d)'
      BY <1>9 DEF ConnectFails
<1>10. ASSUME NEW c \in Clients, Greeted(c) PROVE AskedAt(d)'
      BY <1>10 DEF Greeted, GreetedClient, HearsTransit, ReplyGone
<1>11. ASSUME Still, NEW c \in Clients, NEW s \in Ids, Dial(c, s) PROVE AskedAt(d)'
      BY <1>11 DEF Dial
<1>12. ASSUME NEW s \in Ids, Welcomes(s) PROVE AskedAt(d)'
      BY <1>12 DEF Welcomes, WelcomesTransit, ReplyPut
<1>13. ASSUME Still, NEW s \in Ids, Take(s) PROVE AskedAt(d)'
      BY <1>13 DEF Take
<1>14. ASSUME Still, NEW s \in Ids, SessionEnds(s) PROVE AskedAt(d)'
      BY <1>14 DEF SessionEnds, EndSession
<1>15. ASSUME NEW s \in Ids, Breaks(s) PROVE AskedAt(d)'
      BY <1>15 DEF Breaks, BreaksTransit, QuestionGone, ReplyGone
<1>16. ASSUME NEW s \in Ids, NEW ok \in BOOLEAN, Executes(s, Question[s], ok) PROVE
             AskedAt(d)'
      BY <1>16 DEF Executes, ExecutesPhase, ExecutesLease, ExecutesTransit, QuestionGone,
         ReplyPut
<1>17. ASSUME Still, TargetChanges PROVE AskedAt(d)'
      BY <1>17 DEF TargetChanges
<1>. HIDE DEF ClientType, ServerType, TransitType, Wires, WireOk, Sockets, SocketOk,
            Sessions, SessionOf, PeerOf, Quiet, QuietAt, Asked, AskedAt
<1>. QED BY <1>1, <1>2, <1>3, <1>4, <1>5, <1>6, <1>7, <1>8, <1>9, <1>10, <1>11, <1>12,
          <1>13, <1>14, <1>15, <1>16, <1>17 DEF Step

\* A late answer stays on the session that was hung up.
LEMMA AnsweredStep ==
  ASSUME ClientType, ServerType, TransitType, Wires, Sockets, Sessions, Quiet, Asked,
         Answered, Step
  PROVE  \A d \in Clients : AnsweredAt(d)'
<1>. USE LinkAssumption, NoneAssumption DEF ClientType, Answered, AnsweredAt, Ids,
           Still, clientVars, serverVars, wireVars, histVars
<1>. SUFFICES ASSUME NEW d \in Clients PROVE AnsweredAt(d)'
     OBVIOUS
<1>0. request[d] # None =>
        /\ session[d] \in Ids /\ ui[d] \in {"idle", "shut"} /\ mutex[d] # None
        /\ phase[session[d]] \notin {"free", "hello"} /\ peer[session[d]] = d
        /\ \A e \in Clients \ {d} : session[e] # session[d]
      BY InUse, Zenon
<1>. USE <1>0
<1>1. ASSUME NEW c \in Clients, NEW th, NEW r, Asks(c, th, r) PROVE AnsweredAt(d)'
      BY <1>1 DEF Asks, AsksClient, AsksRequest, AsksTransit, QuestionPut
<1>2. ASSUME NEW c \in Clients, Hears(c, Reply[session[c]]) PROVE AnsweredAt(d)'
      BY <1>2 DEF Hears, HearsClient, HearsAnswer, HearsTransit, ReplyGone, HangUp
<1>3. ASSUME Still, NEW c \in Clients, NEW p \in {"idle", "dial"}, Joined(c, p) PROVE
             AnsweredAt(d)'
      BY <1>3 DEF Joined
<1>4. ASSUME Still, NEW c \in Clients, BeatChecks(c) PROVE AnsweredAt(d)'
      BY <1>4 DEF BeatChecks
<1>5. ASSUME Still, NEW c \in Clients, BeatRefused(c) PROVE AnsweredAt(d)'
      BY <1>5 DEF BeatRefused
<1>6. ASSUME Still, NEW c \in Clients, RpcFails(c) PROVE AnsweredAt(d)'
      BY <1>6 DEF RpcFails, Abandon, HangUp, Unlock
<1>7. ASSUME Still, NEW c \in Clients, CloseBegins(c) PROVE AnsweredAt(d)'
      BY <1>7 DEF CloseBegins
<1>8. ASSUME Still, NEW c \in Clients, CloseShuts(c) PROVE AnsweredAt(d)'
      BY <1>8 DEF CloseShuts
<1>9. ASSUME Still, NEW c \in Clients, ConnectFails(c) PROVE AnsweredAt(d)'
      BY <1>9 DEF ConnectFails
<1>10. ASSUME NEW c \in Clients, Greeted(c) PROVE AnsweredAt(d)'
      BY <1>10 DEF Greeted, GreetedClient, HearsTransit, ReplyGone
<1>11. ASSUME Still, NEW c \in Clients, NEW s \in Ids, Dial(c, s) PROVE AnsweredAt(d)'
      BY <1>11 DEF Dial
<1>12. ASSUME NEW s \in Ids, Welcomes(s) PROVE AnsweredAt(d)'
      BY <1>12 DEF Welcomes, WelcomesTransit, ReplyPut
<1>13. ASSUME Still, NEW s \in Ids, Take(s) PROVE AnsweredAt(d)'
      BY <1>13 DEF Take
<1>14. ASSUME Still, NEW s \in Ids, SessionEnds(s) PROVE AnsweredAt(d)'
      BY <1>14 DEF SessionEnds, EndSession
<1>15. ASSUME NEW s \in Ids, Breaks(s) PROVE AnsweredAt(d)'
      BY <1>15 DEF Breaks, BreaksTransit, QuestionGone, ReplyGone
<1>16. ASSUME NEW s \in Ids, NEW ok \in BOOLEAN, Executes(s, Question[s], ok) PROVE
             AnsweredAt(d)'
      BY <1>16
      DEF Executes, ExecutesPhase, ExecutesLease, ExecutesTransit, QuestionGone, ReplyPut,
          Asked, AskedAt, Answer, Wires, WireOk, TransitType, ServerType
<1>17. ASSUME Still, TargetChanges PROVE AnsweredAt(d)'
      BY <1>17 DEF TargetChanges
<1>. HIDE DEF ClientType, Answered, AnsweredAt
<1>. QED BY <1>1, <1>2, <1>3, <1>4, <1>5, <1>6, <1>7, <1>8, <1>9, <1>10, <1>11, <1>12,
          <1>13, <1>14, <1>15, <1>16, <1>17 DEF Step

\* A write is counted before it is sent, so its number is not zero.
LEMMA RequestNumbers ==
  ASSUME ClientType, ServerType, TransitType, Numbered, Step
  PROVE  \A d \in Clients : (request'[d] # None /\ request'[d].op = "write" => request'[d].no >= 1)
<1>. USE LinkAssumption, NoneAssumption DEF ClientType, TransitType, Numbered, Ids,
           Still, clientVars, serverVars, wireVars, histVars
<1>. SUFFICES ASSUME NEW d \in Clients
     PROVE request'[d] # None /\ request'[d].op = "write" => request'[d].no >= 1
     OBVIOUS
<1>1. ASSUME NEW c \in Clients, NEW th, NEW r, Asks(c, th, r) PROVE request'[d] # None
             /\ request'[d].op = "write" => request'[d].no >= 1
      BY <1>1 DEF Asks, AsksClient, AsksRequest, AsksTransit, QuestionPut
<1>2. ASSUME NEW c \in Clients, Hears(c, Reply[session[c]]) PROVE request'[d] # None /\
             request'[d].op = "write" => request'[d].no >= 1
      BY <1>2 DEF Hears, HearsClient, HearsAnswer, HearsTransit, ReplyGone, HangUp
<1>3. ASSUME Still, NEW c \in Clients, NEW p \in {"idle", "dial"}, Joined(c, p) PROVE
             request'[d] # None /\ request'[d].op = "write" => request'[d].no >= 1
      BY <1>3 DEF Joined
<1>4. ASSUME Still, NEW c \in Clients, BeatChecks(c) PROVE request'[d] # None /\
             request'[d].op = "write" => request'[d].no >= 1
      BY <1>4 DEF BeatChecks
<1>5. ASSUME Still, NEW c \in Clients, BeatRefused(c) PROVE request'[d] # None /\
             request'[d].op = "write" => request'[d].no >= 1
      BY <1>5 DEF BeatRefused
<1>6. ASSUME Still, NEW c \in Clients, RpcFails(c) PROVE request'[d] # None /\
             request'[d].op = "write" => request'[d].no >= 1
      BY <1>6 DEF RpcFails, Abandon, HangUp, Unlock
<1>7. ASSUME Still, NEW c \in Clients, CloseBegins(c) PROVE request'[d] # None /\
             request'[d].op = "write" => request'[d].no >= 1
      BY <1>7 DEF CloseBegins
<1>8. ASSUME Still, NEW c \in Clients, CloseShuts(c) PROVE request'[d] # None /\
             request'[d].op = "write" => request'[d].no >= 1
      BY <1>8 DEF CloseShuts
<1>9. ASSUME Still, NEW c \in Clients, ConnectFails(c) PROVE request'[d] # None /\
             request'[d].op = "write" => request'[d].no >= 1
      BY <1>9 DEF ConnectFails
<1>10. ASSUME NEW c \in Clients, Greeted(c) PROVE request'[d] # None /\ request'[d].op =
             "write" => request'[d].no >= 1
      BY <1>10 DEF Greeted, GreetedClient, HearsTransit, ReplyGone
<1>11. ASSUME Still, NEW c \in Clients, NEW s \in Ids, Dial(c, s) PROVE request'[d] #
             None /\ request'[d].op = "write" => request'[d].no >= 1
      BY <1>11 DEF Dial
<1>12. ASSUME NEW s \in Ids, Welcomes(s) PROVE request'[d] # None /\ request'[d].op =
             "write" => request'[d].no >= 1
      BY <1>12 DEF Welcomes, WelcomesTransit, ReplyPut
<1>13. ASSUME Still, NEW s \in Ids, Take(s) PROVE request'[d] # None /\ request'[d].op =
             "write" => request'[d].no >= 1
      BY <1>13 DEF Take
<1>14. ASSUME Still, NEW s \in Ids, SessionEnds(s) PROVE request'[d] # None /\
             request'[d].op = "write" => request'[d].no >= 1
      BY <1>14 DEF SessionEnds, EndSession
<1>15. ASSUME NEW s \in Ids, Breaks(s) PROVE request'[d] # None /\ request'[d].op =
             "write" => request'[d].no >= 1
      BY <1>15 DEF Breaks, BreaksTransit, QuestionGone, ReplyGone
<1>16. ASSUME NEW s \in Ids, NEW ok \in BOOLEAN, Executes(s, Question[s], ok) PROVE
             request'[d] # None /\ request'[d].op = "write" => request'[d].no >= 1
      BY <1>16 DEF Executes, ExecutesPhase, ExecutesLease, ExecutesTransit, QuestionGone,
         ReplyPut
<1>17. ASSUME Still, TargetChanges PROVE request'[d] # None /\ request'[d].op = "write"
             => request'[d].no >= 1
      BY <1>17 DEF TargetChanges
<1>. HIDE DEF ClientType, TransitType, Numbered
<1>. QED BY <1>1, <1>2, <1>3, <1>4, <1>5, <1>6, <1>7, <1>8, <1>9, <1>10, <1>11, <1>12,
          <1>13, <1>14, <1>15, <1>16, <1>17 DEF Step

\* A number on the wire has been issued by the client of the session.
LEMMA NumberStep ==
  ASSUME ClientType, ServerType, TransitType, Wires, Sockets, Sessions, Numbered, Step
  PROVE  \A t \in Ids : NumberOk(t)'
<1>. USE LinkAssumption, NoneAssumption DEF ServerType, TransitType, Wires, WireOk,
           Sessions, SessionOf, PeerOf, Numbered, NumberOk, Ids, Still, clientVars,
           serverVars, wireVars, histVars
<1>. SUFFICES ASSUME NEW t \in Ids PROVE NumberOk(t)'
     OBVIOUS
<1>1. ASSUME NEW c \in Clients, NEW th, NEW r, Asks(c, th, r) PROVE NumberOk(t)'
        <2>1. /\ session[c] \in Ids /\ peer' = peer /\ r.no = issued'[c]
        /\ r \in Requests /\ (r.op = "write" => r.no > issued[c])
        /\ \A d \in Clients : issued[d] <= issued'[d] /\ issued[d] \in Nat /\ issued'[d] \in Nat
        BY <1>1 DEF Asks, AsksClient, AsksRequest
  <2>2. QuestionPut(session[c], r) \/ UNCHANGED <<Asking, Question>>
        BY <1>1, Zenon DEF Asks, AsksTransit
  <2>3. CASE t \in Asking' /\ Question'[t] = Question[t] /\ t \in Asking
    <3>1. peer[t] \in Clients /\ Question[t].no \in Nat
          BY <2>3 DEF Requests
    <3>2. issued[peer[t]] <= issued'[peer[t]] /\ issued[peer[t]] \in Nat /\ issued'[peer[t]] \in Nat
          BY <3>1, <2>1
    <3>. QED BY <2>1, <2>3, <3>1, <3>2
  <2>4. CASE t = session[c] /\ Question'[t] = r
    <3>1. peer'[t] = c
          BY <2>1, <2>4
    <3>2. r.no \in Nat /\ (r.op = "write" => r.no >= 1)
          BY <2>1 DEF Requests
    <3>. QED BY <2>1, <2>4, <3>1, <3>2
  <2>. QED BY <2>2, <2>3, <2>4 DEF QuestionPut
<1>2. ASSUME NEW c \in Clients, Hears(c, Reply[session[c]]) PROVE NumberOk(t)'
      BY <1>2 DEF Hears, HearsClient, HearsAnswer, HearsTransit, ReplyGone, HangUp
<1>3. ASSUME Still, NEW c \in Clients, NEW p \in {"idle", "dial"}, Joined(c, p) PROVE
             NumberOk(t)'
      BY <1>3 DEF Joined
<1>4. ASSUME Still, NEW c \in Clients, BeatChecks(c) PROVE NumberOk(t)'
      BY <1>4 DEF BeatChecks
<1>5. ASSUME Still, NEW c \in Clients, BeatRefused(c) PROVE NumberOk(t)'
      BY <1>5 DEF BeatRefused
<1>6. ASSUME Still, NEW c \in Clients, RpcFails(c) PROVE NumberOk(t)'
      BY <1>6 DEF RpcFails, Abandon, HangUp, Unlock
<1>7. ASSUME Still, NEW c \in Clients, CloseBegins(c) PROVE NumberOk(t)'
      BY <1>7 DEF CloseBegins
<1>8. ASSUME Still, NEW c \in Clients, CloseShuts(c) PROVE NumberOk(t)'
      BY <1>8 DEF CloseShuts
<1>9. ASSUME Still, NEW c \in Clients, ConnectFails(c) PROVE NumberOk(t)'
      BY <1>9 DEF ConnectFails
<1>10. ASSUME NEW c \in Clients, Greeted(c) PROVE NumberOk(t)'
      BY <1>10 DEF Greeted, GreetedClient, HearsTransit, ReplyGone
<1>11. ASSUME Still, NEW c \in Clients, NEW s \in Ids, Dial(c, s) PROVE NumberOk(t)'
      BY <1>11 DEF Dial
<1>12. ASSUME NEW s \in Ids, Welcomes(s) PROVE NumberOk(t)'
      BY <1>12 DEF Welcomes, WelcomesTransit, ReplyPut
<1>13. ASSUME Still, NEW s \in Ids, Take(s) PROVE NumberOk(t)'
      BY <1>13 DEF Take
<1>14. ASSUME Still, NEW s \in Ids, SessionEnds(s) PROVE NumberOk(t)'
      BY <1>14 DEF SessionEnds, EndSession
<1>15. ASSUME NEW s \in Ids, Breaks(s) PROVE NumberOk(t)'
      BY <1>15 DEF Breaks, BreaksTransit, QuestionGone, ReplyGone
<1>16. ASSUME NEW s \in Ids, NEW ok \in BOOLEAN, Executes(s, Question[s], ok) PROVE
             NumberOk(t)'
      BY <1>16 DEF Executes, ExecutesPhase, ExecutesLease, ExecutesTransit, QuestionGone,
         ReplyPut
<1>17. ASSUME Still, TargetChanges PROVE NumberOk(t)'
      BY <1>17 DEF TargetChanges
<1>. HIDE DEF ServerType, TransitType, Wires, WireOk, Sessions, SessionOf, PeerOf,
            Numbered, NumberOk
<1>. QED BY <1>1, <1>2, <1>3, <1>4, <1>5, <1>6, <1>7, <1>8, <1>9, <1>10, <1>11, <1>12,
          <1>13, <1>14, <1>15, <1>16, <1>17 DEF Step

\* What lands was on the wire.
LEMMA LandingNumbers ==
  ASSUME ClientType, ServerType, TransitType, Sessions, Numbered, Step
  PROVE  \A w \in Landings' : w.no <= issued'[w.client]
<1>. USE LinkAssumption, NoneAssumption DEF TransitType, Numbered, NumberOk, Ids, Still,
           clientVars, serverVars, wireVars, histVars
<1>. SUFFICES ASSUME NEW w \in Landings' PROVE w.no <= issued'[w.client]
     OBVIOUS
<1>1. ASSUME NEW c \in Clients, NEW th, NEW r, Asks(c, th, r) PROVE w.no <=
             issued'[w.client]
      BY <1>1 DEF Asks, AsksClient, AsksRequest, AsksTransit, QuestionPut
<1>2. ASSUME NEW c \in Clients, Hears(c, Reply[session[c]]) PROVE w.no <=
             issued'[w.client]
      BY <1>2 DEF Hears, HearsClient, HearsAnswer, HearsTransit, ReplyGone, HangUp
<1>3. ASSUME Still, NEW c \in Clients, NEW p \in {"idle", "dial"}, Joined(c, p) PROVE
             w.no <= issued'[w.client]
      BY <1>3 DEF Joined
<1>4. ASSUME Still, NEW c \in Clients, BeatChecks(c) PROVE w.no <= issued'[w.client]
      BY <1>4 DEF BeatChecks
<1>5. ASSUME Still, NEW c \in Clients, BeatRefused(c) PROVE w.no <= issued'[w.client]
      BY <1>5 DEF BeatRefused
<1>6. ASSUME Still, NEW c \in Clients, RpcFails(c) PROVE w.no <= issued'[w.client]
      BY <1>6 DEF RpcFails, Abandon, HangUp, Unlock
<1>7. ASSUME Still, NEW c \in Clients, CloseBegins(c) PROVE w.no <= issued'[w.client]
      BY <1>7 DEF CloseBegins
<1>8. ASSUME Still, NEW c \in Clients, CloseShuts(c) PROVE w.no <= issued'[w.client]
      BY <1>8 DEF CloseShuts
<1>9. ASSUME Still, NEW c \in Clients, ConnectFails(c) PROVE w.no <= issued'[w.client]
      BY <1>9 DEF ConnectFails
<1>10. ASSUME NEW c \in Clients, Greeted(c) PROVE w.no <= issued'[w.client]
      BY <1>10 DEF Greeted, GreetedClient, HearsTransit, ReplyGone
<1>11. ASSUME Still, NEW c \in Clients, NEW s \in Ids, Dial(c, s) PROVE w.no <=
             issued'[w.client]
      BY <1>11 DEF Dial
<1>12. ASSUME NEW s \in Ids, Welcomes(s) PROVE w.no <= issued'[w.client]
      BY <1>12 DEF Welcomes, WelcomesTransit, ReplyPut
<1>13. ASSUME Still, NEW s \in Ids, Take(s) PROVE w.no <= issued'[w.client]
      BY <1>13 DEF Take
<1>14. ASSUME Still, NEW s \in Ids, SessionEnds(s) PROVE w.no <= issued'[w.client]
      BY <1>14 DEF SessionEnds, EndSession
<1>15. ASSUME NEW s \in Ids, Breaks(s) PROVE w.no <= issued'[w.client]
      BY <1>15 DEF Breaks, BreaksTransit, QuestionGone, ReplyGone
<1>16. ASSUME NEW s \in Ids, NEW ok \in BOOLEAN, Executes(s, Question[s], ok) PROVE w.no
             <= issued'[w.client]
      BY <1>16 DEF Executes, ExecutesPhase, ExecutesLease, ExecutesTransit, QuestionGone,
         ReplyPut
<1>17. ASSUME Still, TargetChanges PROVE w.no <= issued'[w.client]
      BY <1>17 DEF TargetChanges
<1>. HIDE DEF TransitType, Numbered, NumberOk
<1>. QED BY <1>1, <1>2, <1>3, <1>4, <1>5, <1>6, <1>7, <1>8, <1>9, <1>10, <1>11, <1>12,
          <1>13, <1>14, <1>15, <1>16, <1>17 DEF Step

\* While a session keeps the lease nobody else's write lands, and a claim leaves
\* no write behind itself: it is the one request of its session.
LEMMA PendingStep ==
  ASSUME ClientType, ServerType, TransitType, Wires, Sockets, Sessions, Numbered,
         Pending, Step
  PROVE  \A t \in Ids : PendingAt(t)'
<1>. USE LinkAssumption, NoneAssumption DEF TransitType, Wires, WireOk, Sessions,
           SessionOf, PeerOf, Numbered, Pending, PendingAt, Ids, Still, clientVars,
           serverVars, wireVars, histVars
<1>. SUFFICES ASSUME NEW t \in Ids PROVE PendingAt(t)'
     OBVIOUS
<1>1. ASSUME NEW c \in Clients, NEW th, NEW r, Asks(c, th, r) PROVE PendingAt(t)'
      BY <1>1 DEF Asks, AsksClient, AsksRequest, AsksTransit, QuestionPut
<1>2. ASSUME NEW c \in Clients, Hears(c, Reply[session[c]]) PROVE PendingAt(t)'
      BY <1>2 DEF Hears, HearsClient, HearsAnswer, HearsTransit, ReplyGone, HangUp
<1>3. ASSUME Still, NEW c \in Clients, NEW p \in {"idle", "dial"}, Joined(c, p) PROVE
             PendingAt(t)'
      BY <1>3 DEF Joined
<1>4. ASSUME Still, NEW c \in Clients, BeatChecks(c) PROVE PendingAt(t)'
      BY <1>4 DEF BeatChecks
<1>5. ASSUME Still, NEW c \in Clients, BeatRefused(c) PROVE PendingAt(t)'
      BY <1>5 DEF BeatRefused
<1>6. ASSUME Still, NEW c \in Clients, RpcFails(c) PROVE PendingAt(t)'
      BY <1>6 DEF RpcFails, Abandon, HangUp, Unlock
<1>7. ASSUME Still, NEW c \in Clients, CloseBegins(c) PROVE PendingAt(t)'
      BY <1>7 DEF CloseBegins
<1>8. ASSUME Still, NEW c \in Clients, CloseShuts(c) PROVE PendingAt(t)'
      BY <1>8 DEF CloseShuts
<1>9. ASSUME Still, NEW c \in Clients, ConnectFails(c) PROVE PendingAt(t)'
      BY <1>9 DEF ConnectFails
<1>10. ASSUME NEW c \in Clients, Greeted(c) PROVE PendingAt(t)'
      BY <1>10 DEF Greeted, GreetedClient, HearsTransit, ReplyGone
<1>11. ASSUME Still, NEW c \in Clients, NEW s \in Ids, Dial(c, s) PROVE PendingAt(t)'
      BY <1>11 DEF Dial
<1>12. ASSUME NEW s \in Ids, Welcomes(s) PROVE PendingAt(t)'
      BY <1>12 DEF Welcomes, WelcomesTransit, ReplyPut
<1>13. ASSUME Still, NEW s \in Ids, Take(s) PROVE PendingAt(t)'
      BY <1>13 DEF Take
<1>14. ASSUME Still, NEW s \in Ids, SessionEnds(s) PROVE PendingAt(t)'
      BY <1>14 DEF SessionEnds, EndSession
<1>15. ASSUME NEW s \in Ids, Breaks(s) PROVE PendingAt(t)'
      BY <1>15 DEF Breaks, BreaksTransit, QuestionGone, ReplyGone
<1>16. ASSUME NEW s \in Ids, NEW ok \in BOOLEAN, Executes(s, Question[s], ok) PROVE
             PendingAt(t)'
      BY <1>16 DEF Executes, ExecutesPhase, ExecutesLease, ExecutesTransit, QuestionGone,
         ReplyPut
<1>17. ASSUME Still, TargetChanges PROVE PendingAt(t)'
      BY <1>17 DEF TargetChanges
<1>. HIDE DEF TransitType, Wires, WireOk, Sessions, SessionOf, PeerOf, Numbered,
            Pending, PendingAt
<1>. QED BY <1>1, <1>2, <1>3, <1>4, <1>5, <1>6, <1>7, <1>8, <1>9, <1>10, <1>11, <1>12,
          <1>13, <1>14, <1>15, <1>16, <1>17 DEF Step

\* Who could take the lease from a session is the session itself, or its end.
LEMMA AnswerStep ==
  ASSUME ClientType, ServerType, TransitType, Wires, Sockets, Sessions, AnswersTrue,
         Step
  PROVE  \A t \in Ids : AnswerOk(t)'
<1>. USE LinkAssumption, NoneAssumption DEF ServerType, Wires, WireOk, Sessions, PeerOf,
           AnswersTrue, AnswerOk, Landed, Answer, Ids, Still, clientVars, serverVars,
           wireVars, histVars
<1>. SUFFICES ASSUME NEW t \in Ids PROVE AnswerOk(t)'
     OBVIOUS
<1>1. ASSUME NEW c \in Clients, NEW th, NEW r, Asks(c, th, r) PROVE AnswerOk(t)'
      BY <1>1 DEF Asks, AsksClient, AsksRequest, AsksTransit, QuestionPut
<1>2. ASSUME NEW c \in Clients, Hears(c, Reply[session[c]]) PROVE AnswerOk(t)'
      BY <1>2 DEF Hears, HearsClient, HearsAnswer, HearsTransit, ReplyGone, HangUp
<1>3. ASSUME Still, NEW c \in Clients, NEW p \in {"idle", "dial"}, Joined(c, p) PROVE
             AnswerOk(t)'
      BY <1>3 DEF Joined
<1>4. ASSUME Still, NEW c \in Clients, BeatChecks(c) PROVE AnswerOk(t)'
      BY <1>4 DEF BeatChecks
<1>5. ASSUME Still, NEW c \in Clients, BeatRefused(c) PROVE AnswerOk(t)'
      BY <1>5 DEF BeatRefused
<1>6. ASSUME Still, NEW c \in Clients, RpcFails(c) PROVE AnswerOk(t)'
      BY <1>6 DEF RpcFails, Abandon, HangUp, Unlock
<1>7. ASSUME Still, NEW c \in Clients, CloseBegins(c) PROVE AnswerOk(t)'
      BY <1>7 DEF CloseBegins
<1>8. ASSUME Still, NEW c \in Clients, CloseShuts(c) PROVE AnswerOk(t)'
      BY <1>8 DEF CloseShuts
<1>9. ASSUME Still, NEW c \in Clients, ConnectFails(c) PROVE AnswerOk(t)'
      BY <1>9 DEF ConnectFails
<1>10. ASSUME NEW c \in Clients, Greeted(c) PROVE AnswerOk(t)'
      BY <1>10 DEF Greeted, GreetedClient, HearsTransit, ReplyGone
<1>11. ASSUME Still, NEW c \in Clients, NEW s \in Ids, Dial(c, s) PROVE AnswerOk(t)'
      BY <1>11 DEF Dial
<1>12. ASSUME NEW s \in Ids, Welcomes(s) PROVE AnswerOk(t)'
      BY <1>12 DEF Welcomes, WelcomesTransit, ReplyPut
<1>13. ASSUME Still, NEW s \in Ids, Take(s) PROVE AnswerOk(t)'
      BY <1>13 DEF Take
<1>14. ASSUME Still, NEW s \in Ids, SessionEnds(s) PROVE AnswerOk(t)'
      BY <1>14 DEF SessionEnds, EndSession
<1>15. ASSUME NEW s \in Ids, Breaks(s) PROVE AnswerOk(t)'
      BY <1>15 DEF Breaks, BreaksTransit, QuestionGone, ReplyGone
<1>16. ASSUME NEW s \in Ids, NEW ok \in BOOLEAN, Executes(s, Question[s], ok) PROVE
             AnswerOk(t)'
        <2>1. /\ peer' = peer /\ phase' = [phase EXCEPT ![s] = "recv"] /\ phase[s] = "exec"
        /\ ExecutesLease(s, Question[s], ok)
        BY <1>16, Zenon DEF Executes, ExecutesPhase
  <2>2. /\ s \notin Answering
        /\ ReplyPut(s, Answer(Question[s], ok, s, owner')) \/ UNCHANGED <<Answering, Reply>>
        /\ Landings' = Landings \cup (IF Question[s].op = "write" /\ ok
                              THEN {[client |-> peer[s], no |-> Question[s].no]} ELSE {})
        BY <1>16, Zenon DEF Executes, ExecutesTransit
  <2>6. Question[s].op \in {"info", "release"} => ok
        BY <1>16 DEF Executes, ExecutesWires
  <2>3. CASE t = s /\ ReplyPut(s, Answer(Question[s], ok, s, owner'))
    <3>1. Reply'[t] = Answer(Question[s], ok, s, owner')
          BY <2>3, Zenon DEF ReplyPut
    <3>2. /\ Reply'[t].op = Question[s].op /\ Reply'[t].no = Question[s].no
          /\ Reply'[t].ok = ok /\ Reply'[t].control = (owner' = s)
          BY <3>1
    <3>3. Question[s].op = "write" /\ ok =>
            [client |-> peer'[s], no |-> Question[s].no] \in Landings'
          BY <2>1, <2>2, Zenon
    <3>4. Reply'[t].control => owner' = t
          BY <2>3, <3>2, Zenon
    <3>5. Reply'[t].op = "write" /\ Reply'[t].ok =>
            [client |-> peer'[t], no |-> Reply'[t].no] \in Landings'
          BY <2>3, <3>2, <3>3, Zenon
    <3>6. Reply'[t].op \in {"info", "release"} => Reply'[t].ok
          BY <2>6, <3>2, Zenon
    <3>. QED BY <3>4, <3>5, <3>6
  <2>4. CASE t = s /\ UNCHANGED <<Answering, Reply>>
        BY <2>2, <2>4
  <2>5. CASE t # s
    <3>1. t \in Answering' => t \in Answering /\ Reply'[t] = Reply[t]
          BY <2>2, <2>5 DEF ReplyPut
    <3>2. owner = t => owner' = t
          BY <2>1, <2>5 DEF ExecutesLease
    <3>3. phase'[t] = phase[t] /\ Landings \subseteq Landings'
          BY <2>1, <2>2, <2>5
    <3>. QED BY <2>1, <3>1, <3>2, <3>3
  <2>. QED BY <2>2, <2>3, <2>4, <2>5
<1>17. ASSUME Still, TargetChanges PROVE AnswerOk(t)'
      BY <1>17 DEF TargetChanges
<1>. HIDE DEF ServerType, Wires, WireOk, Sessions, PeerOf, AnswersTrue, AnswerOk,
            Landed, Answer
<1>. QED BY <1>1, <1>2, <1>3, <1>4, <1>5, <1>6, <1>7, <1>8, <1>9, <1>10, <1>11, <1>12,
          <1>13, <1>14, <1>15, <1>16, <1>17 DEF Step

\* Only the answer to a write makes rpc() return true for it.
LEMMA ReturnedStep ==
  ASSUME ClientType, ServerType, TransitType, Wires, Sockets, Sessions, Quiet, Asked,
         Answered, AnswersTrue, Returned, Step
  PROVE  \A d \in Clients : ReturnedAt(d)'
<1>. USE LinkAssumption, NoneAssumption DEF ClientType, Answered, AnsweredAt,
           AnswersTrue, AnswerOk, Returned, ReturnedAt, Landed, Ids, Still, clientVars,
           serverVars, wireVars, histVars
<1>. SUFFICES ASSUME NEW d \in Clients PROVE ReturnedAt(d)'
     OBVIOUS
<1>0. request[d] # None =>
        /\ session[d] \in Ids /\ ui[d] \in {"idle", "shut"} /\ mutex[d] # None
        /\ phase[session[d]] \notin {"free", "hello"} /\ peer[session[d]] = d
        /\ \A e \in Clients \ {d} : session[e] # session[d]
      BY InUse, Zenon
<1>. USE <1>0
<1>1. ASSUME NEW c \in Clients, NEW th, NEW r, Asks(c, th, r) PROVE ReturnedAt(d)'
      BY <1>1 DEF Asks, AsksClient, AsksRequest, AsksTransit, QuestionPut
<1>2. ASSUME NEW c \in Clients, Hears(c, Reply[session[c]]) PROVE ReturnedAt(d)'
        <2>1. Landings' = Landings /\ request[c] # None /\ session[c] \in Answering
        BY <1>2, Zenon DEF Hears, HearsClient, HearsTransit
  <2>2. CASE returned' = returned
        BY <2>1, <2>2
  <2>3. CASE /\ request[c].op = "write" /\ Reply[session[c]].ok
             /\ returned' = [returned EXCEPT ![c] = @ \cup {request[c].no}]
    <3>1. CASE d # c
          BY <2>1, <2>3, <3>1
    <3>2. CASE d = c
      <4>1. Landed(peer[session[d]], request[d].no) /\ peer[session[d]] = d
            BY <2>1, <2>3, <3>2
      <4>2. \A n \in returned'[d] : n \in returned[d] \/ n = request[d].no
            BY <2>3, <3>2
      <4>. QED BY <2>1, <4>1, <4>2
    <3>. QED BY <3>1, <3>2
  <2>. QED BY <1>2, <2>2, <2>3, Zenon DEF Hears, HearsAnswer
<1>3. ASSUME Still, NEW c \in Clients, NEW p \in {"idle", "dial"}, Joined(c, p) PROVE
             ReturnedAt(d)'
      BY <1>3 DEF Joined
<1>4. ASSUME Still, NEW c \in Clients, BeatChecks(c) PROVE ReturnedAt(d)'
      BY <1>4 DEF BeatChecks
<1>5. ASSUME Still, NEW c \in Clients, BeatRefused(c) PROVE ReturnedAt(d)'
      BY <1>5 DEF BeatRefused
<1>6. ASSUME Still, NEW c \in Clients, RpcFails(c) PROVE ReturnedAt(d)'
      BY <1>6 DEF RpcFails, Abandon, HangUp, Unlock
<1>7. ASSUME Still, NEW c \in Clients, CloseBegins(c) PROVE ReturnedAt(d)'
      BY <1>7 DEF CloseBegins
<1>8. ASSUME Still, NEW c \in Clients, CloseShuts(c) PROVE ReturnedAt(d)'
      BY <1>8 DEF CloseShuts
<1>9. ASSUME Still, NEW c \in Clients, ConnectFails(c) PROVE ReturnedAt(d)'
      BY <1>9 DEF ConnectFails
<1>10. ASSUME NEW c \in Clients, Greeted(c) PROVE ReturnedAt(d)'
      BY <1>10 DEF Greeted, GreetedClient, HearsTransit, ReplyGone
<1>11. ASSUME Still, NEW c \in Clients, NEW s \in Ids, Dial(c, s) PROVE ReturnedAt(d)'
      BY <1>11 DEF Dial
<1>12. ASSUME NEW s \in Ids, Welcomes(s) PROVE ReturnedAt(d)'
      BY <1>12 DEF Welcomes, WelcomesTransit, ReplyPut
<1>13. ASSUME Still, NEW s \in Ids, Take(s) PROVE ReturnedAt(d)'
      BY <1>13 DEF Take
<1>14. ASSUME Still, NEW s \in Ids, SessionEnds(s) PROVE ReturnedAt(d)'
      BY <1>14 DEF SessionEnds, EndSession
<1>15. ASSUME NEW s \in Ids, Breaks(s) PROVE ReturnedAt(d)'
      BY <1>15 DEF Breaks, BreaksTransit, QuestionGone, ReplyGone
<1>16. ASSUME NEW s \in Ids, NEW ok \in BOOLEAN, Executes(s, Question[s], ok) PROVE
             ReturnedAt(d)'
      BY <1>16 DEF Executes, ExecutesPhase, ExecutesLease, ExecutesTransit, QuestionGone,
         ReplyPut
<1>17. ASSUME Still, TargetChanges PROVE ReturnedAt(d)'
      BY <1>17 DEF TargetChanges
<1>. HIDE DEF ClientType, Answered, AnsweredAt, AnswersTrue, AnswerOk, Returned,
            ReturnedAt, Landed
<1>. QED BY <1>1, <1>2, <1>3, <1>4, <1>5, <1>6, <1>7, <1>8, <1>9, <1>10, <1>11, <1>12,
          <1>13, <1>14, <1>15, <1>16, <1>17 DEF Step

\* control is set from a true answer, and taken back before, or with, the lease.
LEMMA ControlStep ==
  ASSUME ClientType, ServerType, TransitType, Wires, Sockets, Sessions, Quiet, Asked,
         Answered, AnswersTrue, ControlHonest, Step
  PROVE  \A d \in Clients : ControlAt(d)'
<1>. USE LinkAssumption, NoneAssumption DEF ClientType, ServerType, Sessions, SessionOf,
           Sockets, SocketOk, Quiet, QuietAt, Asked, AskedAt, Answered, AnsweredAt,
           AnswersTrue, AnswerOk, ControlHonest, ControlAt, Ids, Still, clientVars,
           serverVars, wireVars, histVars
<1>. SUFFICES ASSUME NEW d \in Clients PROVE ControlAt(d)'
     OBVIOUS
<1>0. request[d] # None =>
        /\ session[d] \in Ids /\ ui[d] \in {"idle", "shut"} /\ mutex[d] # None
        /\ phase[session[d]] \notin {"free", "hello"} /\ peer[session[d]] = d
        /\ \A e \in Clients \ {d} : session[e] # session[d]
      BY InUse, Zenon
<1>. USE <1>0
<1>1. ASSUME NEW c \in Clients, NEW th, NEW r, Asks(c, th, r) PROVE ControlAt(d)'
      BY <1>1 DEF Asks, AsksClient, AsksRequest, AsksTransit, QuestionPut
<1>2. ASSUME NEW c \in Clients, Hears(c, Reply[session[c]]) PROVE ControlAt(d)'
      BY <1>2 DEF Hears, HearsClient, HearsAnswer, HearsTransit, ReplyGone, HangUp
<1>3. ASSUME Still, NEW c \in Clients, NEW p \in {"idle", "dial"}, Joined(c, p) PROVE
             ControlAt(d)'
      BY <1>3 DEF Joined
<1>4. ASSUME Still, NEW c \in Clients, BeatChecks(c) PROVE ControlAt(d)'
      BY <1>4 DEF BeatChecks
<1>5. ASSUME Still, NEW c \in Clients, BeatRefused(c) PROVE ControlAt(d)'
      BY <1>5 DEF BeatRefused
<1>6. ASSUME Still, NEW c \in Clients, RpcFails(c) PROVE ControlAt(d)'
      BY <1>6 DEF RpcFails, Abandon, HangUp, Unlock
<1>7. ASSUME Still, NEW c \in Clients, CloseBegins(c) PROVE ControlAt(d)'
      BY <1>7 DEF CloseBegins
<1>8. ASSUME Still, NEW c \in Clients, CloseShuts(c) PROVE ControlAt(d)'
      BY <1>8 DEF CloseShuts
<1>9. ASSUME Still, NEW c \in Clients, ConnectFails(c) PROVE ControlAt(d)'
      BY <1>9 DEF ConnectFails
<1>10. ASSUME NEW c \in Clients, Greeted(c) PROVE ControlAt(d)'
      BY <1>10 DEF Greeted, GreetedClient, HearsTransit, ReplyGone
<1>11. ASSUME Still, NEW c \in Clients, NEW s \in Ids, Dial(c, s) PROVE ControlAt(d)'
      BY <1>11 DEF Dial
<1>12. ASSUME NEW s \in Ids, Welcomes(s) PROVE ControlAt(d)'
      BY <1>12 DEF Welcomes, WelcomesTransit, ReplyPut
<1>13. ASSUME Still, NEW s \in Ids, Take(s) PROVE ControlAt(d)'
      BY <1>13 DEF Take
<1>14. ASSUME Still, NEW s \in Ids, SessionEnds(s) PROVE ControlAt(d)'
      BY <1>14 DEF SessionEnds, EndSession
<1>15. ASSUME NEW s \in Ids, Breaks(s) PROVE ControlAt(d)'
      BY <1>15 DEF Breaks, BreaksTransit, QuestionGone, ReplyGone
<1>16. ASSUME NEW s \in Ids, NEW ok \in BOOLEAN, Executes(s, Question[s], ok) PROVE
             ControlAt(d)'
      BY <1>16 DEF Executes, ExecutesPhase, ExecutesLease, ExecutesTransit, QuestionGone,
         ReplyPut
<1>17. ASSUME Still, TargetChanges PROVE ControlAt(d)'
      BY <1>17 DEF TargetChanges
<1>. HIDE DEF ClientType, ServerType, Sessions, SessionOf, Sockets, SocketOk, Quiet,
            QuietAt, Asked, AskedAt, Answered, AnsweredAt, AnswersTrue, AnswerOk,
            ControlHonest, ControlAt
<1>. QED BY <1>1, <1>2, <1>3, <1>4, <1>5, <1>6, <1>7, <1>8, <1>9, <1>10, <1>11, <1>12,
          <1>13, <1>14, <1>15, <1>16, <1>17 DEF Step

\* The write of session s that reaches the target.
Writes(s) ==
  /\ s \in Asking /\ owner = s /\ Question[s].op = "write"
  /\ applied' = Append(applied,
                       [client |-> peer[s], no |-> Question[s].no, epoch |-> epoch])

\* A step lets one write land, that of the owner, or none.
LEMMA AppliedStep ==
  ASSUME ClientType, ServerType, TransitType, Step
  PROVE  applied' = applied \/ \E t \in Ids : Writes(t)
<1>. USE LinkAssumption, NoneAssumption DEF Ids, Still, clientVars, serverVars,
           wireVars, histVars
<1>1. ASSUME NEW c \in Clients, NEW th, NEW r, Asks(c, th, r) PROVE applied' = applied
             \/ \E t \in Ids : Writes(t)
      BY <1>1 DEF Asks, AsksRequest
<1>2. ASSUME NEW c \in Clients, Hears(c, Reply[session[c]]) PROVE applied' = applied \/
             \E t \in Ids : Writes(t)
      BY <1>2 DEF Hears, HearsAnswer
<1>3. ASSUME Still, NEW c \in Clients, NEW p \in {"idle", "dial"}, Joined(c, p) PROVE
             applied' = applied \/ \E t \in Ids : Writes(t)
      BY <1>3 DEF Joined
<1>4. ASSUME Still, NEW c \in Clients, BeatChecks(c) PROVE applied' = applied \/ \E t
             \in Ids : Writes(t)
      BY <1>4 DEF BeatChecks
<1>5. ASSUME Still, NEW c \in Clients, BeatRefused(c) PROVE applied' = applied \/ \E t
             \in Ids : Writes(t)
      BY <1>5 DEF BeatRefused
<1>6. ASSUME Still, NEW c \in Clients, RpcFails(c) PROVE applied' = applied \/ \E t \in
             Ids : Writes(t)
      BY <1>6 DEF RpcFails, Abandon, HangUp, Unlock
<1>7. ASSUME Still, NEW c \in Clients, CloseBegins(c) PROVE applied' = applied \/ \E t
             \in Ids : Writes(t)
      BY <1>7 DEF CloseBegins
<1>8. ASSUME Still, NEW c \in Clients, CloseShuts(c) PROVE applied' = applied \/ \E t
             \in Ids : Writes(t)
      BY <1>8 DEF CloseShuts
<1>9. ASSUME Still, NEW c \in Clients, ConnectFails(c) PROVE applied' = applied \/ \E t
             \in Ids : Writes(t)
      BY <1>9 DEF ConnectFails
<1>10. ASSUME NEW c \in Clients, Greeted(c) PROVE applied' = applied \/ \E t \in Ids :
             Writes(t)
      BY <1>10 DEF Greeted, GreetedClient
<1>11. ASSUME Still, NEW c \in Clients, NEW s \in Ids, Dial(c, s) PROVE applied' =
             applied \/ \E t \in Ids : Writes(t)
      BY <1>11 DEF Dial
<1>12. ASSUME NEW s \in Ids, Welcomes(s) PROVE applied' = applied \/ \E t \in Ids :
             Writes(t)
      BY <1>12 DEF Welcomes
<1>13. ASSUME Still, NEW s \in Ids, Take(s) PROVE applied' = applied \/ \E t \in Ids :
             Writes(t)
      BY <1>13 DEF Take
<1>14. ASSUME Still, NEW s \in Ids, SessionEnds(s) PROVE applied' = applied \/ \E t \in
             Ids : Writes(t)
      BY <1>14 DEF SessionEnds, EndSession
<1>15. ASSUME NEW s \in Ids, Breaks(s) PROVE applied' = applied \/ \E t \in Ids :
             Writes(t)
      BY <1>15 DEF Breaks
<1>16. ASSUME NEW s \in Ids, NEW ok \in BOOLEAN, Executes(s, Question[s], ok) PROVE
             applied' = applied \/ \E t \in Ids : Writes(t)
      BY <1>16 DEF Executes, ExecutesLease, ExecutesWrite, ExecutesTransit, Writes
<1>17. ASSUME Still, TargetChanges PROVE applied' = applied \/ \E t \in Ids : Writes(t)
      BY <1>17 DEF TargetChanges
<1>. QED BY <1>1, <1>2, <1>3, <1>4, <1>5, <1>6, <1>7, <1>8, <1>9, <1>10, <1>11, <1>12,
          <1>13, <1>14, <1>15, <1>16, <1>17 DEF Step

\* The write that lands is newer than those of its client that have landed.
LEMMA OrderStep ==
  ASSUME ClientType, ServerType, TransitType, HistType, Pending, InOrder, Step
  PROVE  InOrder'
<1>1. CASE applied' = applied
      BY <1>1 DEF InOrder
<1>2. ASSUME NEW s \in Ids, Writes(s) PROVE InOrder'
  <2>. DEFINE w == [client |-> peer[s], no |-> Question[s].no, epoch |-> epoch]
              L == Len(applied)
  <2>1. L \in Nat /\ w.client = peer[s] /\ w.no = Question[s].no
        BY DEF HistType
  <2>2. Len(applied') = L + 1 /\ applied'[L + 1] = w
        /\ \A i \in 1 .. L : applied'[i] = applied[i]
        BY <1>2 DEF HistType, Writes
  <2>3. ASSUME NEW i \in 1 .. L, applied[i].client = peer[s]
        PROVE  applied[i].no < Question[s].no
    <3>. DEFINE x == [client |-> applied[i].client, no |-> applied[i].no]
    <3>1. x \in Landings /\ x.client = peer[s] /\ x.no = applied[i].no
          BY <2>3 DEF Landings
    <3>2. \A y \in Landings : y.client = peer[s] => y.no < Question[s].no
          BY <1>2 DEF Pending, PendingAt, Writes
    <3>. HIDE DEF x
    <3>. QED BY <3>1, <3>2
  <2>. HIDE DEF w, L
  <2>4. ASSUME NEW i \in 1 .. L + 1, NEW j \in 1 .. L + 1, i < j,
               applied'[i].client = applied'[j].client
        PROVE  applied'[i].no < applied'[j].no
    <3>1. i \in 1 .. L
          BY <2>1, <2>4
    <3>2. CASE j \in 1 .. L
          BY <2>2, <2>4, <3>1, <3>2 DEF InOrder, L
    <3>3. CASE j = L + 1
          BY <2>1, <2>2, <2>3, <2>4, <3>1, <3>3
    <3>. QED BY <2>1, <3>2, <3>3
  <2>. QED BY <2>2, <2>4 DEF InOrder
<1>. QED BY <1>1, <1>2, AppliedStep

-----------------------------------------------------------------------------
(* Types.                                                                    *)

\* The types of the client's, then of the server's variables.
LEMMA ClientTypes ==
  ASSUME ClientType, ServerType, TransitType, Step
  PROVE  ClientType'
<1>. USE LinkAssumption, NoneAssumption DEF ClientType, Ids, Still, clientVars,
           serverVars, wireVars, histVars
<1>1. ASSUME NEW c \in Clients, NEW th, NEW r, Asks(c, th, r) PROVE ClientType'
      BY <1>1 DEF Asks, AsksClient, AsksRequest, AsksTransit, QuestionPut
<1>2. ASSUME NEW c \in Clients, Hears(c, Reply[session[c]]) PROVE ClientType'
        <2>1. Reply[session[c]].control \in BOOLEAN
        BY <1>2, Zenon DEF Hears, HearsAnswer, Responses
  <2>2. control' \in [Clients -> BOOLEAN] /\ alive' \in [Clients -> BOOLEAN]
    <3>1. \/ /\ alive' = [alive EXCEPT ![c] = FALSE] /\ control' = [control EXCEPT ![c] = FALSE]
          \/ /\ alive' = alive
             /\ \/ control' = control
                \/ control' = [control EXCEPT ![c] = Reply[session[c]].control]
          BY <1>2 DEF Hears, HearsClient, HangUp
    <3>. QED BY <2>1, <3>1
  <2>3. /\ mutex' = [mutex EXCEPT ![c] = None] /\ request' = [request EXCEPT ![c] = None]
        /\ UNCHANGED <<known, session, heartbeat, ui>>
        BY <1>2, Zenon DEF Hears, HearsClient, HearsAnswer
  <2>. QED BY <2>2, <2>3
<1>3. ASSUME Still, NEW c \in Clients, NEW p \in {"idle", "dial"}, Joined(c, p) PROVE
             ClientType'
      BY <1>3 DEF Joined
<1>4. ASSUME Still, NEW c \in Clients, BeatChecks(c) PROVE ClientType'
      BY <1>4 DEF BeatChecks
<1>5. ASSUME Still, NEW c \in Clients, BeatRefused(c) PROVE ClientType'
      BY <1>5 DEF BeatRefused
<1>6. ASSUME Still, NEW c \in Clients, RpcFails(c) PROVE ClientType'
      BY <1>6 DEF RpcFails, Abandon, HangUp, Unlock
<1>7. ASSUME Still, NEW c \in Clients, CloseBegins(c) PROVE ClientType'
      BY <1>7 DEF CloseBegins
<1>8. ASSUME Still, NEW c \in Clients, CloseShuts(c) PROVE ClientType'
      BY <1>8 DEF CloseShuts
<1>9. ASSUME Still, NEW c \in Clients, ConnectFails(c) PROVE ClientType'
      BY <1>9 DEF ConnectFails
<1>10. ASSUME NEW c \in Clients, Greeted(c) PROVE ClientType'
      BY <1>10 DEF Greeted, GreetedClient, GreetedTypes
<1>11. ASSUME Still, NEW c \in Clients, NEW s \in Ids, Dial(c, s) PROVE ClientType'
      BY <1>11 DEF Dial
<1>12. ASSUME NEW s \in Ids, Welcomes(s) PROVE ClientType'
      BY <1>12 DEF Welcomes, WelcomesTransit, ReplyPut
<1>13. ASSUME Still, NEW s \in Ids, Take(s) PROVE ClientType'
      BY <1>13 DEF Take
<1>14. ASSUME Still, NEW s \in Ids, SessionEnds(s) PROVE ClientType'
      BY <1>14 DEF SessionEnds, EndSession
<1>15. ASSUME NEW s \in Ids, Breaks(s) PROVE ClientType'
      BY <1>15 DEF Breaks, BreaksTransit, QuestionGone, ReplyGone
<1>16. ASSUME NEW s \in Ids, NEW ok \in BOOLEAN, Executes(s, Question[s], ok) PROVE
             ClientType'
      BY <1>16 DEF Executes, ExecutesPhase, ExecutesLease, ExecutesTransit, QuestionGone,
         ReplyPut
<1>17. ASSUME Still, TargetChanges PROVE ClientType'
      BY <1>17 DEF TargetChanges
<1>. HIDE DEF ClientType
<1>. QED BY <1>1, <1>2, <1>3, <1>4, <1>5, <1>6, <1>7, <1>8, <1>9, <1>10, <1>11, <1>12,
          <1>13, <1>14, <1>15, <1>16, <1>17 DEF Step

LEMMA ServerTypes ==
  ASSUME ClientType, ServerType, TransitType, Step
  PROVE  ServerType'
<1>. USE LinkAssumption, NoneAssumption DEF ServerType, Ids, Still, clientVars,
           serverVars, wireVars, histVars
<1>1. ASSUME NEW c \in Clients, NEW th, NEW r, Asks(c, th, r) PROVE ServerType'
      BY <1>1 DEF Asks, AsksClient, AsksRequest, AsksTransit, QuestionPut
<1>2. ASSUME NEW c \in Clients, Hears(c, Reply[session[c]]) PROVE ServerType'
      BY <1>2 DEF Hears, HearsClient, HearsAnswer, HearsTransit, ReplyGone, HangUp
<1>3. ASSUME Still, NEW c \in Clients, NEW p \in {"idle", "dial"}, Joined(c, p) PROVE
             ServerType'
      BY <1>3 DEF Joined
<1>4. ASSUME Still, NEW c \in Clients, BeatChecks(c) PROVE ServerType'
      BY <1>4 DEF BeatChecks
<1>5. ASSUME Still, NEW c \in Clients, BeatRefused(c) PROVE ServerType'
      BY <1>5 DEF BeatRefused
<1>6. ASSUME Still, NEW c \in Clients, RpcFails(c) PROVE ServerType'
      BY <1>6 DEF RpcFails, Abandon, HangUp, Unlock
<1>7. ASSUME Still, NEW c \in Clients, CloseBegins(c) PROVE ServerType'
      BY <1>7 DEF CloseBegins
<1>8. ASSUME Still, NEW c \in Clients, CloseShuts(c) PROVE ServerType'
      BY <1>8 DEF CloseShuts
<1>9. ASSUME Still, NEW c \in Clients, ConnectFails(c) PROVE ServerType'
      BY <1>9 DEF ConnectFails
<1>10. ASSUME NEW c \in Clients, Greeted(c) PROVE ServerType'
      BY <1>10 DEF Greeted, GreetedClient, HearsTransit, ReplyGone
<1>11. ASSUME Still, NEW c \in Clients, NEW s \in Ids, Dial(c, s) PROVE ServerType'
      BY <1>11 DEF Dial
<1>12. ASSUME NEW s \in Ids, Welcomes(s) PROVE ServerType'
      BY <1>12 DEF Welcomes, WelcomesTransit, ReplyPut
<1>13. ASSUME Still, NEW s \in Ids, Take(s) PROVE ServerType'
      BY <1>13 DEF Take
<1>14. ASSUME Still, NEW s \in Ids, SessionEnds(s) PROVE ServerType'
      BY <1>14 DEF SessionEnds, EndSession
<1>15. ASSUME NEW s \in Ids, Breaks(s) PROVE ServerType'
      BY <1>15 DEF Breaks, BreaksTransit, QuestionGone, ReplyGone
<1>16. ASSUME NEW s \in Ids, NEW ok \in BOOLEAN, Executes(s, Question[s], ok) PROVE
             ServerType'
      BY <1>16 DEF Executes, ExecutesPhase, ExecutesLease, ExecutesTransit, QuestionGone,
         ReplyPut
<1>17. ASSUME Still, TargetChanges PROVE ServerType'
      BY <1>17 DEF TargetChanges
<1>. HIDE DEF ServerType
<1>. QED BY <1>1, <1>2, <1>3, <1>4, <1>5, <1>6, <1>7, <1>8, <1>9, <1>10, <1>11, <1>12,
          <1>13, <1>14, <1>15, <1>16, <1>17 DEF Step

\* Both directions of every connection, as TypeOK has them.
Lines(f, g) ==
  /\ f \in [Ids -> Seq(Requests)] /\ g \in [Ids -> Seq(Responses)]
  /\ \A s \in Ids : Len(f[s]) + Len(g[s]) <= 1

LEMMA ShorterLine ==
  ASSUME NEW S, NEW q \in Seq(S), NEW p \in Seq(S), Len(p) <= Len(q), NEW R, NEW z \in Seq(R),
         Len(q) + Len(z) <= 1
  PROVE  Len(p) + Len(z) <= 1 /\ Len(z) + Len(p) <= 1
<1>1. Len(p) \in Nat /\ Len(q) \in Nat /\ Len(z) \in Nat
      OBVIOUS
<1>. DEFINE a == Len(p)
            b == Len(q)
            d == Len(z)
<1>2. a \in Nat /\ b \in Nat /\ d \in Nat /\ a <= b /\ b + d <= 1
      BY <1>1
<1>. HIDE DEF a, b, d
<1>3. a + d <= 1 /\ d + a <= 1
      BY <1>2
<1>. QED BY <1>3 DEF a, d

\* Only the length counts when one line is given another content.
LEMMA LineReplaced ==
  ASSUME NEW S, NEW f \in [Ids -> Seq(S)], NEW R, NEW g \in [Ids -> Seq(R)],
         \A t \in Ids : Len(f[t]) + Len(g[t]) <= 1,
         NEW s \in Ids, NEW q \in Seq(S), Len(q) + Len(g[s]) <= 1
  PROVE  /\ [f EXCEPT ![s] = q] \in [Ids -> Seq(S)]
         /\ \A t \in Ids : Len([f EXCEPT ![s] = q][t]) + Len(g[t]) <= 1
<1>1. \A t \in Ids : [f EXCEPT ![s] = q][t] = IF t = s THEN q ELSE f[t]
      OBVIOUS
<1>2. [f EXCEPT ![s] = q] \in [Ids -> Seq(S)]
      OBVIOUS
<1>3. ASSUME NEW t \in Ids PROVE Len([f EXCEPT ![s] = q][t]) + Len(g[t]) <= 1
  <2>1. CASE t = s
        BY <1>1, <2>1, Zenon
  <2>2. CASE t # s
        BY <1>1, <2>2, Zenon
  <2>. QED BY <2>1, <2>2
<1>. QED BY <1>2, <1>3

LEMMA LengthsCommute ==
  ASSUME NEW S, NEW q \in Seq(S), NEW R, NEW z \in Seq(R)
  PROVE  Len(q) + Len(z) = Len(z) + Len(q)
<1>. DEFINE a == Len(q)
            b == Len(z)
<1>1. a \in Nat /\ b \in Nat
      OBVIOUS
<1>. HIDE DEF a, b
<1>2. a + b = b + a
      BY <1>1
<1>. QED BY <1>2 DEF a, b

\* Emptying the request line, or filling it against an empty one, and then
\* the same for the responses.
LEMMA RequestLine ==
  ASSUME NEW f, NEW g, Lines(f, g), NEW s \in Ids, NEW h
  PROVE  /\ h = [f EXCEPT ![s] = << >>] => Lines(h, g)
         /\ \A r \in Requests : g[s] = << >> /\ h = [f EXCEPT ![s] = <<r>>] => Lines(h, g)
<1>1. ASSUME NEW q \in Seq(Requests), Len(q) + Len(g[s]) <= 1
      PROVE  Lines([f EXCEPT ![s] = q], g)
  <2>1. /\ f \in [Ids -> Seq(Requests)] /\ g \in [Ids -> Seq(Responses)]
        /\ \A t \in Ids : Len(f[t]) + Len(g[t]) <= 1
        BY DEF Lines
  <2>. HIDE DEF Ids
  <2>2. /\ [f EXCEPT ![s] = q] \in [Ids -> Seq(Requests)]
        /\ \A t \in Ids : Len([f EXCEPT ![s] = q][t]) + Len(g[t]) <= 1
        BY <1>1, <2>1, LineReplaced
  <2>. QED BY <2>1, <2>2, Zenon DEF Lines
<1>2. << >> \in Seq(Requests) /\ Len(<< >>) + Len(g[s]) <= 1
  <2>1. f[s] \in Seq(Requests) /\ g[s] \in Seq(Responses) /\ Len(f[s]) + Len(g[s]) <= 1
        BY DEF Lines
  <2>2. << >> \in Seq(Requests) /\ Len(<< >>) <= Len(f[s])
        BY <2>1
  <2>. QED BY <2>1, <2>2, ShorterLine
<1>3. ASSUME NEW r \in Requests, g[s] = << >>
      PROVE  <<r>> \in Seq(Requests) /\ Len(<<r>>) + Len(g[s]) <= 1
      BY <1>3
<1>. QED BY <1>1, <1>2, <1>3

LEMMA ResponseLine ==
  ASSUME NEW f, NEW g, Lines(f, g), NEW s \in Ids, NEW h
  PROVE  /\ h = [g EXCEPT ![s] = << >>] => Lines(f, h)
         /\ \A r \in Responses : f[s] = << >> /\ h = [g EXCEPT ![s] = <<r>>] => Lines(f, h)
<1>1. ASSUME NEW q \in Seq(Responses), Len(q) + Len(f[s]) <= 1
      PROVE  Lines(f, [g EXCEPT ![s] = q])
  <2>1. /\ f \in [Ids -> Seq(Requests)] /\ g \in [Ids -> Seq(Responses)]
        /\ \A t \in Ids : Len(f[t]) + Len(g[t]) <= 1
        BY DEF Lines
  <2>2. \A t \in Ids : Len(g[t]) + Len(f[t]) <= 1
        BY <2>1, LengthsCommute
  <2>3. /\ [g EXCEPT ![s] = q] \in [Ids -> Seq(Responses)]
        /\ \A t \in Ids : Len([g EXCEPT ![s] = q][t]) + Len(f[t]) <= 1
        BY <1>1, <2>1, <2>2, LineReplaced
  <2>4. ASSUME NEW t \in Ids PROVE Len(f[t]) + Len([g EXCEPT ![s] = q][t]) <= 1
    <3>1. f[t] \in Seq(Requests) /\ [g EXCEPT ![s] = q][t] \in Seq(Responses)
          BY <2>1, <2>3, Zenon
    <3>2. Len([g EXCEPT ![s] = q][t]) + Len(f[t]) = Len(f[t]) + Len([g EXCEPT ![s] = q][t])
          BY <3>1, LengthsCommute, Zenon
    <3>. QED BY <2>3, <3>2, Zenon
  <2>. QED BY <2>1, <2>3, <2>4, Zenon DEF Lines
<1>2. << >> \in Seq(Responses) /\ Len(<< >>) + Len(f[s]) <= 1
  <2>1. f[s] \in Seq(Requests) /\ g[s] \in Seq(Responses) /\ Len(f[s]) + Len(g[s]) <= 1
        BY DEF Lines
  <2>2. << >> \in Seq(Responses) /\ Len(<< >>) <= Len(g[s])
        BY <2>1
  <2>3. Len(g[s]) + Len(f[s]) = Len(f[s]) + Len(g[s])
        BY <2>1, LengthsCommute, Zenon
  <2>. QED BY <2>1, <2>2, <2>3, ShorterLine
<1>3. ASSUME NEW r \in Responses, f[s] = << >>
      PROVE  <<r>> \in Seq(Responses) /\ Len(<<r>>) + Len(f[s]) <= 1
      BY <1>3
<1>. QED BY <1>1, <1>2, <1>3

\* A line is filled only while both of its directions are empty.
LEMMA LinesStep ==
  ASSUME ClientType, ServerType, TransitType, Lines(reqs, resps), Step
  PROVE  Lines(reqs', resps')
<1>. USE LinkAssumption, NoneAssumption DEF Ids, Still, clientVars, serverVars,
           wireVars, histVars
<1>1. ASSUME NEW c \in Clients, NEW th, NEW r, Asks(c, th, r) PROVE Lines(reqs', resps')
        <2>1. session[c] \in Ids /\ r \in Requests /\ AsksWires(c, r)
        BY <1>1, Zenon DEF Asks, AsksClient, AsksRequest
  <2>. QED BY <2>1, RequestLine DEF AsksWires
<1>2. ASSUME NEW c \in Clients, Hears(c, Reply[session[c]]) PROVE Lines(reqs', resps')
        <2>1. session[c] \in Ids /\ HearsWires(c)
        BY <1>2, Zenon DEF Hears, HearsClient
  <2>. QED BY <2>1, ResponseLine DEF HearsWires
<1>3. ASSUME Still, NEW c \in Clients, NEW p \in {"idle", "dial"}, Joined(c, p) PROVE
             Lines(reqs', resps')
      BY <1>3 DEF Joined
<1>4. ASSUME Still, NEW c \in Clients, BeatChecks(c) PROVE Lines(reqs', resps')
      BY <1>4 DEF BeatChecks
<1>5. ASSUME Still, NEW c \in Clients, BeatRefused(c) PROVE Lines(reqs', resps')
      BY <1>5 DEF BeatRefused
<1>6. ASSUME Still, NEW c \in Clients, RpcFails(c) PROVE Lines(reqs', resps')
      BY <1>6 DEF RpcFails, Abandon, HangUp, Unlock
<1>7. ASSUME Still, NEW c \in Clients, CloseBegins(c) PROVE Lines(reqs', resps')
      BY <1>7 DEF CloseBegins
<1>8. ASSUME Still, NEW c \in Clients, CloseShuts(c) PROVE Lines(reqs', resps')
      BY <1>8 DEF CloseShuts
<1>9. ASSUME Still, NEW c \in Clients, ConnectFails(c) PROVE Lines(reqs', resps')
      BY <1>9 DEF ConnectFails
<1>10. ASSUME NEW c \in Clients, Greeted(c) PROVE Lines(reqs', resps')
        <2>1. session[c] \in Ids /\ HearsWires(c)
        BY <1>10, Zenon DEF Greeted, GreetedClient
  <2>. QED BY <2>1, ResponseLine DEF HearsWires
<1>11. ASSUME Still, NEW c \in Clients, NEW s \in Ids, Dial(c, s) PROVE Lines(reqs',
             resps')
      BY <1>11 DEF Dial
<1>12. ASSUME NEW s \in Ids, Welcomes(s) PROVE Lines(reqs', resps')
        <2>1. WelcomesWires(s) /\ reqs' = reqs
        BY <1>12, Zenon DEF Welcomes
  <2>. QED BY <2>1, ResponseLine DEF WelcomesWires
<1>13. ASSUME Still, NEW s \in Ids, Take(s) PROVE Lines(reqs', resps')
      BY <1>13 DEF Take
<1>14. ASSUME Still, NEW s \in Ids, SessionEnds(s) PROVE Lines(reqs', resps')
      BY <1>14 DEF SessionEnds, EndSession
<1>15. ASSUME NEW s \in Ids, Breaks(s) PROVE Lines(reqs', resps')
        <2>1. BreaksWires(s)
        BY <1>15, Zenon DEF Breaks
  <2>2. Lines(reqs', resps)
        BY <2>1, RequestLine DEF BreaksWires
  <2>. QED BY <2>1, <2>2, ResponseLine DEF BreaksWires
<1>16. ASSUME NEW s \in Ids, NEW ok \in BOOLEAN, Executes(s, Question[s], ok) PROVE
             Lines(reqs', resps')
        <2>. DEFINE a == Answer(Question[s], ok, s, owner')
  <2>1. ExecutesWires(s, Question[s], ok)
        BY <1>16, Zenon DEF Executes
  <2>2. Lines(reqs', resps)
        BY <2>1, RequestLine DEF ExecutesWires
  <2>3. a \in Responses
        BY <2>1 DEF ExecutesWires, Answer, Requests, Responses, ServerType
  <2>4. reqs'[s] = << >>
    <3>1. DOMAIN reqs = Ids
          BY DEF Lines
    <3>. QED BY <2>1, <3>1 DEF ExecutesWires
  <2>5. resps' = resps \/ resps' = [resps EXCEPT ![s] = <<a>>]
        BY <2>1, Zenon DEF ExecutesWires
  <2>. HIDE DEF a
  <2>. QED BY <2>2, <2>3, <2>4, <2>5, ResponseLine
<1>17. ASSUME Still, TargetChanges PROVE Lines(reqs', resps')
      BY <1>17 DEF TargetChanges
<1>. QED BY <1>1, <1>2, <1>3, <1>4, <1>5, <1>6, <1>7, <1>8, <1>9, <1>10, <1>11, <1>12,
          <1>13, <1>14, <1>15, <1>16, <1>17 DEF Step

\* What is shut is a session.
LEMMA SocketSets ==
  ASSUME ClientType, ServerType, TransitType, Sockets, down \subseteq Ids, Step
  PROVE  shut' \subseteq Ids /\ down' \subseteq Ids
<1>. USE LinkAssumption, NoneAssumption DEF ClientType, TransitType, Sockets, SocketOk,
           Ids, Still, clientVars, serverVars, wireVars, histVars
<1>1. ASSUME NEW c \in Clients, NEW th, NEW r, Asks(c, th, r) PROVE shut' \subseteq Ids
             /\ down' \subseteq Ids
      BY <1>1 DEF Asks, AsksClient
<1>2. ASSUME NEW c \in Clients, Hears(c, Reply[session[c]]) PROVE shut' \subseteq Ids /\
             down' \subseteq Ids
      BY <1>2 DEF Hears, HearsClient, HangUp
<1>3. ASSUME Still, NEW c \in Clients, NEW p \in {"idle", "dial"}, Joined(c, p) PROVE
             shut' \subseteq Ids /\ down' \subseteq Ids
      BY <1>3 DEF Joined
<1>4. ASSUME Still, NEW c \in Clients, BeatChecks(c) PROVE shut' \subseteq Ids /\ down'
             \subseteq Ids
      BY <1>4 DEF BeatChecks
<1>5. ASSUME Still, NEW c \in Clients, BeatRefused(c) PROVE shut' \subseteq Ids /\ down'
             \subseteq Ids
      BY <1>5 DEF BeatRefused
<1>6. ASSUME Still, NEW c \in Clients, RpcFails(c) PROVE shut' \subseteq Ids /\ down'
             \subseteq Ids
        <2>1. shut' = shut \cup {session[c]} /\ down' = down /\ request[c] # None
        BY <1>6 DEF RpcFails, Abandon, HangUp
  <2>2. session[c] \in Ids
        BY <2>1
  <2>. QED BY <2>1, <2>2
<1>7. ASSUME Still, NEW c \in Clients, CloseBegins(c) PROVE shut' \subseteq Ids /\ down'
             \subseteq Ids
      BY <1>7 DEF CloseBegins
<1>8. ASSUME Still, NEW c \in Clients, CloseShuts(c) PROVE shut' \subseteq Ids /\ down'
             \subseteq Ids
        <2>1. shut' = shut \cup ({session[c]} \ {0}) /\ down' = down
        BY <1>8, Zenon DEF CloseShuts
  <2>2. {session[c]} \ {0} \subseteq Ids
        OBVIOUS
  <2>. QED BY <2>1, <2>2
<1>9. ASSUME Still, NEW c \in Clients, ConnectFails(c) PROVE shut' \subseteq Ids /\
             down' \subseteq Ids
        <2>1. shut' = shut \cup ({session[c]} \ {0}) /\ down' = down
        BY <1>9, Zenon DEF ConnectFails
  <2>2. {session[c]} \ {0} \subseteq Ids
        OBVIOUS
  <2>. QED BY <2>1, <2>2
<1>10. ASSUME NEW c \in Clients, Greeted(c) PROVE shut' \subseteq Ids /\ down' \subseteq
             Ids
      BY <1>10 DEF Greeted, GreetedClient
<1>11. ASSUME Still, NEW c \in Clients, NEW s \in Ids, Dial(c, s) PROVE shut' \subseteq
             Ids /\ down' \subseteq Ids
      BY <1>11 DEF Dial
<1>12. ASSUME NEW s \in Ids, Welcomes(s) PROVE shut' \subseteq Ids /\ down' \subseteq
             Ids
      BY <1>12 DEF Welcomes
<1>13. ASSUME Still, NEW s \in Ids, Take(s) PROVE shut' \subseteq Ids /\ down' \subseteq
             Ids
      BY <1>13 DEF Take
<1>14. ASSUME Still, NEW s \in Ids, SessionEnds(s) PROVE shut' \subseteq Ids /\ down'
             \subseteq Ids
      BY <1>14 DEF SessionEnds, EndSession
<1>15. ASSUME NEW s \in Ids, Breaks(s) PROVE shut' \subseteq Ids /\ down' \subseteq Ids
      BY <1>15 DEF Breaks
<1>16. ASSUME NEW s \in Ids, NEW ok \in BOOLEAN, Executes(s, Question[s], ok) PROVE
             shut' \subseteq Ids /\ down' \subseteq Ids
      BY <1>16 DEF Executes, ExecutesPhase
<1>17. ASSUME Still, TargetChanges PROVE shut' \subseteq Ids /\ down' \subseteq Ids
      BY <1>17 DEF TargetChanges
<1>. HIDE DEF ClientType, TransitType, Sockets, SocketOk
<1>. QED BY <1>1, <1>2, <1>3, <1>4, <1>5, <1>6, <1>7, <1>8, <1>9, <1>10, <1>11, <1>12,
          <1>13, <1>14, <1>15, <1>16, <1>17 DEF Step

\* What has returned was a write.
LEMMA ReturnTypes ==
  ASSUME ClientType, ServerType, TransitType, Numbered, returned \in [Clients -> SUBSET
         (1 .. MaxWrites)], Step
  PROVE  /\ returned' \in [Clients -> SUBSET (1 .. MaxWrites)]
         /\ issued' \in [Clients -> 0 .. MaxWrites]
<1>. USE LinkAssumption, NoneAssumption DEF TransitType, Ids, Still, clientVars,
           serverVars, wireVars, histVars
<1>1. ASSUME NEW c \in Clients, NEW th, NEW r, Asks(c, th, r) PROVE returned' \in
             [Clients -> SUBSET (1 .. MaxWrites)]
         /\ issued' \in [Clients -> 0 ..
             MaxWrites]
      BY <1>1 DEF Asks, AsksRequest
<1>2. ASSUME NEW c \in Clients, Hears(c, Reply[session[c]]) PROVE returned' \in [Clients
             -> SUBSET (1 .. MaxWrites)] /\ issued' \in [Clients -> 0 .. MaxWrites]
        <2>1. request[c] # None /\ UNCHANGED issued
        BY <1>2, Zenon DEF Hears, HearsClient, HearsAnswer
  <2>2. CASE returned' = returned
        BY <2>1, <2>2
  <2>3. CASE /\ request[c].op = "write"
             /\ returned' = [returned EXCEPT ![c] = @ \cup {request[c].no}]
    <3>1. request[c] \in Requests /\ request[c].no >= 1
          BY <2>1, <2>3 DEF Numbered, ClientType
    <3>2. request[c].no \in 1 .. MaxWrites
          BY <3>1, LinkAssumption DEF Requests
    <3>. QED BY <2>1, <2>3, <3>2
  <2>. QED BY <1>2, <2>2, <2>3, Zenon DEF Hears, HearsAnswer
<1>3. ASSUME Still, NEW c \in Clients, NEW p \in {"idle", "dial"}, Joined(c, p) PROVE
             returned' \in [Clients -> SUBSET (1 .. MaxWrites)]
         /\ issued' \in [Clients
             -> 0 .. MaxWrites]
      BY <1>3 DEF Joined
<1>4. ASSUME Still, NEW c \in Clients, BeatChecks(c) PROVE returned' \in [Clients ->
             SUBSET (1 .. MaxWrites)] /\ issued' \in [Clients -> 0 .. MaxWrites]
      BY <1>4 DEF BeatChecks
<1>5. ASSUME Still, NEW c \in Clients, BeatRefused(c) PROVE returned' \in [Clients ->
             SUBSET (1 .. MaxWrites)] /\ issued' \in [Clients -> 0 .. MaxWrites]
      BY <1>5 DEF BeatRefused
<1>6. ASSUME Still, NEW c \in Clients, RpcFails(c) PROVE returned' \in [Clients ->
             SUBSET (1 .. MaxWrites)] /\ issued' \in [Clients -> 0 .. MaxWrites]
      BY <1>6 DEF RpcFails, Abandon, HangUp, Unlock
<1>7. ASSUME Still, NEW c \in Clients, CloseBegins(c) PROVE returned' \in [Clients ->
             SUBSET (1 .. MaxWrites)] /\ issued' \in [Clients -> 0 .. MaxWrites]
      BY <1>7 DEF CloseBegins
<1>8. ASSUME Still, NEW c \in Clients, CloseShuts(c) PROVE returned' \in [Clients ->
             SUBSET (1 .. MaxWrites)] /\ issued' \in [Clients -> 0 .. MaxWrites]
      BY <1>8 DEF CloseShuts
<1>9. ASSUME Still, NEW c \in Clients, ConnectFails(c) PROVE returned' \in [Clients ->
             SUBSET (1 .. MaxWrites)] /\ issued' \in [Clients -> 0 .. MaxWrites]
      BY <1>9 DEF ConnectFails
<1>10. ASSUME NEW c \in Clients, Greeted(c) PROVE returned' \in [Clients -> SUBSET (1 ..
             MaxWrites)] /\ issued' \in [Clients -> 0 .. MaxWrites]
      BY <1>10 DEF Greeted, GreetedClient
<1>11. ASSUME Still, NEW c \in Clients, NEW s \in Ids, Dial(c, s) PROVE returned' \in
             [Clients -> SUBSET (1 .. MaxWrites)]
         /\ issued' \in [Clients -> 0 ..
             MaxWrites]
      BY <1>11 DEF Dial
<1>12. ASSUME NEW s \in Ids, Welcomes(s) PROVE returned' \in [Clients -> SUBSET (1 ..
             MaxWrites)] /\ issued' \in [Clients -> 0 .. MaxWrites]
      BY <1>12 DEF Welcomes
<1>13. ASSUME Still, NEW s \in Ids, Take(s) PROVE returned' \in [Clients -> SUBSET (1 ..
             MaxWrites)] /\ issued' \in [Clients -> 0 .. MaxWrites]
      BY <1>13 DEF Take
<1>14. ASSUME Still, NEW s \in Ids, SessionEnds(s) PROVE returned' \in [Clients ->
             SUBSET (1 .. MaxWrites)] /\ issued' \in [Clients -> 0 .. MaxWrites]
      BY <1>14 DEF SessionEnds, EndSession
<1>15. ASSUME NEW s \in Ids, Breaks(s) PROVE returned' \in [Clients -> SUBSET (1 ..
             MaxWrites)] /\ issued' \in [Clients -> 0 .. MaxWrites]
      BY <1>15 DEF Breaks
<1>16. ASSUME NEW s \in Ids, NEW ok \in BOOLEAN, Executes(s, Question[s], ok) PROVE
             returned' \in [Clients -> SUBSET (1 .. MaxWrites)]
         /\ issued' \in [Clients
             -> 0 .. MaxWrites]
      BY <1>16 DEF Executes, ExecutesPhase
<1>17. ASSUME Still, TargetChanges PROVE returned' \in [Clients -> SUBSET (1 ..
             MaxWrites)] /\ issued' \in [Clients -> 0 .. MaxWrites]
      BY <1>17 DEF TargetChanges
<1>. HIDE DEF TransitType
<1>. QED BY <1>1, <1>2, <1>3, <1>4, <1>5, <1>6, <1>7, <1>8, <1>9, <1>10, <1>11, <1>12,
          <1>13, <1>14, <1>15, <1>16, <1>17 DEF Step

\* A write that lands has a client, a number and a generation.
LEMMA AppliedTypes ==
  ASSUME ClientType, ServerType, TransitType, HistType, Wires, Sessions, Numbered, Step
  PROVE  applied' \in Seq([client : Clients, no : 1 .. MaxWrites, epoch : 1 .. MaxEpoch])
<1>1. CASE applied' = applied
      BY <1>1 DEF HistType
<1>2. ASSUME NEW s \in Ids, Writes(s)
      PROVE  applied' \in Seq([client : Clients, no : 1 .. MaxWrites, epoch : 1 .. MaxEpoch])
  <2>. DEFINE w == [client |-> peer[s], no |-> Question[s].no, epoch |-> epoch]
              W == [client : Clients, no : 1 .. MaxWrites, epoch : 1 .. MaxEpoch]
  <2>1. s \in Asking /\ phase[s] # "free" /\ Question[s] \in Requests
        BY <1>2 DEF Writes, Wires, WireOk, TransitType
  <2>2. peer[s] \in Clients
        BY <2>1 DEF Sessions, PeerOf
  <2>3. Question[s].no >= 1 /\ Question[s].no \in 0 .. MaxWrites
        BY <1>2, <2>1 DEF Writes, Numbered, NumberOk, Requests
  <2>4. w \in W
        BY <2>2, <2>3, LinkAssumption DEF ServerType
  <2>5. applied \in Seq(W) /\ applied' = Append(applied, w)
        BY <1>2 DEF HistType, Writes
  <2>. HIDE DEF w, W
  <2>6. applied' \in Seq(W)
        BY <2>4, <2>5, AppendProperties
  <2>. QED BY <2>6 DEF W
<1>. QED BY <1>1, <1>2, AppliedStep

-----------------------------------------------------------------------------
(* The invariant and the theorems.                                           *)

LEMMA InitHolds == Init => LinkInv
<1>. SUFFICES ASSUME Init PROVE LinkInv
     OBVIOUS
<1>1. /\ Asking = {} /\ Answering = {}
      BY DEF Init, Asking, Answering
<1>2. applied = << >> /\ Len(applied) = 0 /\ Landings = {}
      BY DEF Init, Landings
<1>3. ClientType
      BY LinkAssumption, NoneAssumption DEF Init, ClientType
<1>4. ServerType
      BY LinkAssumption DEF Init, ServerType, Ids
<1>5. WireType
  <2>1. << >> \in Seq(Requests) /\ << >> \in Seq(Responses) /\ Len(<< >>) + Len(<< >>) <= 1
        OBVIOUS
  <2>2. \A s \in Ids : reqs[s] = << >> /\ resps[s] = << >>
        BY DEF Init
  <2>3. \A s \in Ids : Len(reqs[s]) + Len(resps[s]) <= 1
        BY <2>1, <2>2, Zenon
  <2>4. reqs \in [Ids -> Seq(Requests)] /\ resps \in [Ids -> Seq(Responses)]
        BY <2>1 DEF Init
  <2>. QED BY <2>3, <2>4 DEF Init, WireType
<1>6. HistType
      BY LinkAssumption DEF Init, HistType
<1>7. Sessions /\ Sockets
      BY DEF Init, Sessions, SessionOf, PeerOf, Sockets, SocketOk, Ids
<1>8. Wires /\ Quiet
      BY <1>1 DEF Init, Wires, WireOk, Quiet, QuietAt
<1>9. Asked /\ Answered /\ Pending /\ AnswersTrue
      BY <1>1 DEF Asked, AskedAt, Answered, AnsweredAt, Pending, PendingAt, AnswersTrue,
         AnswerOk
<1>10. Numbered
      BY <1>1, <1>2 DEF Init, Numbered, NumberOk
<1>11. Returned /\ InOrder /\ ControlHonest
      BY <1>2 DEF Init, Returned, ReturnedAt, InOrder, ControlHonest
<1>. QED BY <1>3, <1>4, <1>5, <1>6, <1>7, <1>8, <1>9, <1>10, <1>11, TypeParts DEF LinkInv

LEMMA WireParts ==
  WireType <=> Lines(reqs, resps) /\ shut \subseteq Ids /\ down \subseteq Ids
BY DEF WireType, Lines

LEMMA NextHolds == LinkInv /\ [Next]_vars => LinkInv'
<1>. SUFFICES ASSUME LinkInv, [Next]_vars PROVE LinkInv'
     OBVIOUS
<1>0. /\ ClientType /\ ServerType /\ WireType /\ HistType
      /\ Sessions /\ Sockets /\ Wires /\ Quiet /\ Asked /\ Answered /\ Numbered
      /\ Pending /\ AnswersTrue /\ Returned /\ InOrder /\ ControlHonest
      BY TypeParts, Zenon DEF LinkInv
<1>1. CASE Next
  <2>1. Step /\ TransitType
        BY <1>0, <1>1, Steps, TransitTypes, Zenon
  <2>2. ClientType' /\ ServerType'
        BY <1>0, <2>1, ClientTypes, ServerTypes, Zenon
  <2>3. WireType'
    <3>1. Lines(reqs, resps) /\ down \subseteq Ids
          BY <1>0, WireParts
    <3>2. Lines(reqs', resps')
          BY <1>0, <2>1, <3>1, LinesStep, Zenon
    <3>3. shut' \subseteq Ids /\ down' \subseteq Ids
          BY <1>0, <2>1, <3>1, SocketSets, Zenon
    <3>. QED BY <3>2, <3>3 DEF WireType, Lines
  <2>4. HistType'
    <3>1. returned \in [Clients -> SUBSET (1 .. MaxWrites)]
          BY <1>0, Zenon DEF HistType
    <3>. QED BY <1>0, <2>1, <3>1, ReturnTypes, AppliedTypes, Zenon DEF HistType
  <2>5. Sessions' /\ Sockets'
        BY <1>0, <2>1, SessionStep, PeerStep, SocketStep, Zenon DEF Sessions, Sockets
  <2>6. Wires' /\ Quiet'
        BY <1>0, <2>1, WireStep, QuietStep, Zenon DEF Wires, Quiet
  <2>7. Asked' /\ Answered'
        BY <1>0, <2>1, AskedStep, AnsweredStep, Zenon DEF Asked, Answered
  <2>8. Numbered'
        BY <1>0, <2>1, RequestNumbers, NumberStep, LandingNumbers, Zenon DEF Numbered
  <2>9. Pending' /\ AnswersTrue'
        BY <1>0, <2>1, PendingStep, AnswerStep, Zenon DEF Pending, AnswersTrue
  <2>10. Returned' /\ InOrder'
        BY <1>0, <2>1, ReturnedStep, OrderStep, Zenon DEF Returned
  <2>11. ControlHonest'
        BY <1>0, <2>1, ControlStep, Zenon DEF ControlHonest, ControlAt
  <2>12. TypeOK'
        BY <2>2, <2>3, <2>4, Zenon DEF TypeOK, ClientType, ServerType, WireType, HistType
  <2>. QED BY <2>5, <2>6, <2>7, <2>8, <2>9, <2>10, <2>11, <2>12, Zenon DEF LinkInv
<1>2. CASE UNCHANGED vars
  <2>1. /\ UNCHANGED <<alive, control, known, session, mutex, request, heartbeat, ui>>
        /\ UNCHANGED <<peer, phase, owner, epoch, reqs, resps, shut, down>>
        /\ UNCHANGED <<issued, returned, applied>>
        BY <1>2 DEF vars, clientVars, serverVars, wireVars, histVars
  <2>2. UNCHANGED <<Asking, Question, Answering, Reply, Landings>>
        BY <2>1, StandsStill, Zenon DEF Still
  <2>3. TypeOK'
        BY <1>0, <2>1, TypeParts, Zenon DEF LinkInv, TypeOK
  <2>4. Sessions' /\ Sockets' /\ Wires' /\ Quiet'
        BY <1>0, <2>1, <2>2, Zenon DEF Sessions, SessionOf, PeerOf, Sockets, SocketOk,
           Wires, WireOk, Quiet, QuietAt
  <2>5. Asked' /\ Answered' /\ Numbered' /\ Pending' /\ AnswersTrue'
        BY <1>0, <2>1, <2>2, Zenon DEF Asked, AskedAt, Answered, AnsweredAt, Numbered, NumberOk,
           Pending, PendingAt, AnswersTrue, AnswerOk, Landed
  <2>6. Returned' /\ InOrder' /\ ControlHonest'
        BY <1>0, <2>1, <2>2, Zenon DEF Returned, ReturnedAt, Landed, InOrder, ControlHonest
  <2>. QED BY <2>3, <2>4, <2>5, <2>6, Zenon DEF LinkInv
<1>. QED BY <1>1, <1>2

\* LinkInv holds of every state the clients and the server can reach.
THEOREM LinkInvariant == Spec => []LinkInv
BY InitHolds, NextHolds, PTL DEF Spec

LEMMA AnswersTheAsked == LinkInv => OwnAnswer
<1>. SUFFICES ASSUME LinkInv, NEW c \in Clients, request[c] # None, resps[session[c]] # << >>
     PROVE  /\ Head(resps[session[c]]).op = request[c].op
            /\ Head(resps[session[c]]).no = request[c].no
     BY DEF OwnAnswer
<1>1. ClientType /\ Sessions /\ Sockets /\ Answered
      BY TypeParts, Zenon DEF LinkInv
<1>2. session[c] \in Ids
      BY <1>1, InUse, Zenon
<1>3. session[c] \in Answering /\ Reply[session[c]] = Head(resps[session[c]])
      BY <1>2 DEF Answering, Reply
<1>. QED BY <1>1, <1>3, Zenon DEF Answered, AnsweredAt

LEMMA ReturnedHaveLanded == LinkInv => WritesInOrder
<1>. SUFFICES ASSUME LinkInv PROVE WritesInOrder
     OBVIOUS
<1>1. InOrder /\ Returned
      BY Zenon DEF LinkInv
<1>2. ASSUME NEW c \in Clients, NEW n \in returned[c]
      PROVE  \E i \in 1 .. Len(applied) : applied[i].client = c /\ applied[i].no = n
  <2>1. [client |-> c, no |-> n] \in Landings
        BY <1>1, Zenon DEF Returned, ReturnedAt, Landed
  <2>2. PICK i \in 1 .. Len(applied) :
               [client |-> c, no |-> n] = [client |-> applied[i].client, no |-> applied[i].no]
        BY <2>1, Zenon DEF Landings
  <2>3. applied[i].client = c /\ applied[i].no = n
        BY <2>2
  <2>. QED BY <2>3, Zenon
<1>. QED BY <1>1, <1>2, Zenon DEF InOrder, WritesInOrder

\* Every message has the form its sender gives it, and no direction of a
\* connection ever holds a second message.
THEOREM TypeCorrect == Spec => []TypeOK
<1>1. LinkInv => TypeOK
      BY Zenon DEF LinkInv
<1>. QED BY <1>1, LinkInvariant, PTL

\* ava_peer::Client::rpc: after any number of time limits, late answers and
\* reconnects, the answer a thread takes is the answer to what it asked.
THEOREM OwnAnswers == Spec => []OwnAnswer
BY AnswersTheAsked, LinkInvariant, PTL

\* The writes of a client land at most once and in the order it issued them,
\* and one that returned true has landed.
THEOREM WritesOrdered == Spec => []WritesInOrder
BY ReturnedHaveLanded, LinkInvariant, PTL

\* ownsControl() is never true of a client while another session has the lease.
THEOREM ControlIsHonest == Spec => []ControlHonest
<1>1. LinkInv => ControlHonest
      BY Zenon DEF LinkInv
<1>. QED BY <1>1, LinkInvariant, PTL

=============================================================================
