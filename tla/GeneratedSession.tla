-------------------------- MODULE GeneratedSession --------------------------
(***************************************************************************)
(* A client and a server built on the generated code talk over a           *)
(* connection. An agent either drives its state machine itself, as the     *)
(* integration tests do, or hands its input to the generated runner, which *)
(* calls the handler for every message. As the state machine's interface   *)
(* asks, octets that were not consumed are shown again with the next ones. *)
(***************************************************************************)
EXTENDS GeneratedCode

CONSTANTS States,          \* of each agent, the protocol's states with their transitions
          Payloads,        \* for each message, the data that agents send
          RunnerAgents,    \* the agents that use the generated runner
          FinalStates,     \* the states in which only closing is left, and Closed
          MaxMessages      \* agents go to them once they sent so many

Agents == {"Client", "Server"}
Other(a) == IF a = "Client" THEN "Server" ELSE "Client"

OutputsOf(a, s) == {t \in Range(States[a][s]) : t.writes}
Actions == UNION {UNION {UNION {Range(t.actions) : t \in Range(States[a][s])} :
                           s \in DOMAIN States[a]} : a \in Agents}

(* What is generated compiles.                                             *)
ASSUME CodeGenerated ==
  /\ \A x \in Actions : x.kind \in {"until", "identifier"} => Len(x.path) = 1
  /\ \A x \in Actions : x.kind # "loop"

VARIABLES
  reads,                   \* of each agent and state, the reading transitions in order
  machine,                 \* of each agent, its StateMachine
  started,                 \* the agent's runner was started
  unread,                  \* octets shown to the agent's machine, not consumed
  wire,                    \* octets on their way to the agent
  sent, received           \* history: messages by sender, and by reader

vars == <<reads, machine, started, unread, wire, sent, received>>

Init ==
  /\ \E c \in Orders(States["Client"]), s \in Orders(States["Server"]) :
       reads = [a \in Agents |-> IF a = "Client" THEN c ELSE s]
  /\ machine = [a \in Agents |-> StateMachine(States[a])]
  /\ started = [a \in Agents |-> FALSE]
  /\ unread = [a \in Agents |-> <<>>]
  /\ wire = [a \in Agents |-> <<>>]
  /\ sent = [a \in Agents |-> <<>>]
  /\ received = [a \in Agents |-> <<>>]
-----------------------------------------------------------------------------
(* The messages the agent may send in a state: after MaxMessages only ones *)
(* that lead to the end, where there are such.                             *)
MaySend(a, s) ==
  LET out  == OutputsOf(a, s)
      last == {t \in out : t.target \in FinalStates}
      now  == IF Len(sent[a]) >= MaxMessages /\ last # {} THEN last ELSE out
  IN  UNION {{[t |-> t, data |-> d] : d \in Payloads[t.name]} : t \in now}

Send(a, sm, c) ==
  /\ machine' = [machine EXCEPT ![a] = send(sm, c.t, c.data)]
  /\ sent' = [sent EXCEPT ![a] = Append(@, [name |-> c.t.name, data |-> c.data])]

(* ServerRunner::start, ClientRunner::start: on_Open, if Open has outputs. *)
Start(a) ==
  /\ a \in RunnerAgents /\ ~started[a]
  /\ started' = [started EXCEPT ![a] = TRUE]
  /\ IF OutputsOf(a, "Open") = {} THEN UNCHANGED <<machine, sent>>
     ELSE \E c \in MaySend(a, "Open") : Send(a, machine[a], c)
  /\ UNCHANGED <<reads, unread, wire, received>>

(* The application calls send_<message>() when it is its turn.             *)
ApplicationSends(a) ==
  /\ a \notin RunnerAgents /\ ~machine[a].has_message
  /\ \E c \in MaySend(a, machine[a].current_state) : Send(a, machine[a], c)
  /\ UNCHANGED <<reads, started, unread, wire, received>>

(* The application calls take_<state>_message().                           *)
ApplicationTakes(a) ==
  /\ a \notin RunnerAgents /\ machine[a].has_message
  /\ machine' = [machine EXCEPT ![a] = take_message(@, @.message_state)]
  /\ UNCHANGED <<reads, started, unread, wire, sent, received>>

(* dispatch_message and dispatch_output: the handler of the message's      *)
(* state answers. A state without outputs has no handler: the message      *)
(* stays, and on_bytes_received of the runner never returns.               *)
Dispatch(a) ==
  /\ a \in RunnerAgents /\ machine[a].has_message
  /\ LET s == machine[a].message_state
     IN  \E c \in MaySend(a, s) : Send(a, take_message(machine[a], s), c)
  /\ UNCHANGED <<reads, started, unread, wire, received>>

InRunner(a) == a \in RunnerAgents /\ (machine[a].has_message \/ ~started[a])
-----------------------------------------------------------------------------
(* The octets that end a field, or stand for others in it. An assumption,  *)
(* not the code: no read ends within them. A socket may well cut there,    *)
(* and then the code misses them: NothingHeldBack does not hold.           *)
Delimiters ==
  UNION {{x.terminator} \cup {e.sequence : e \in Range(x.escape)} :
           x \in {y \in Actions : y.kind = "until"}}

CutAllowed(octets, n) ==
  ~\E d \in Delimiters : \E p \in 0..n - 1 : p + Len(d) > n /\ At(octets, p, d)

MayCut(a, n) == CutAllowed(wire[a] \o machine[Other(a)].output_buffer, n)

MayReceive(a) == ~InRunner(a) /\ ~machine[a].has_message /\ ~machine[a].thrown

(* Mutant: what was not consumed is not shown again.                       *)
OctetsArriveAlone(a, n) ==
  /\ MayReceive(a)
  /\ LET data == unread[a] \o Take(wire[a], n)
         r    == on_bytes_received(reads[a][machine[a].current_state], machine[a], data)
     IN  /\ machine' = [machine EXCEPT ![a] = r.machine]
         /\ unread' = [unread EXCEPT ![a] = <<>>]
         /\ received' = [received EXCEPT ![a] =
                           IF r.machine.has_message
                             THEN Append(@, r.machine.pending[r.machine.message_state][1]) ELSE @]
  /\ wire' = [wire EXCEPT ![a] = Drop(@, n)]
  /\ UNCHANGED <<reads, started, sent>>

(* n octets arrive, and are shown after the ones not consumed yet.         *)
OctetsArrive(a, n) ==
  /\ MayReceive(a)
  /\ LET data == unread[a] \o Take(wire[a], n)
         r    == on_bytes_received(reads[a][machine[a].current_state], machine[a], data)
     IN  /\ machine' = [machine EXCEPT ![a] = r.machine]
         /\ unread' = [unread EXCEPT ![a] = Drop(data, r.consumed)]
         /\ received' = [received EXCEPT ![a] =
                           IF r.machine.has_message
                             THEN Append(@, r.machine.pending[r.machine.message_state][1]) ELSE @]
  /\ wire' = [wire EXCEPT ![a] = Drop(@, n)]
  /\ UNCHANGED <<reads, started, sent>>

BytesReceived(a, n) == MayCut(a, n) /\ OctetsArrive(a, n)

(* n octets of the pending output are written.                             *)
BytesWritten(a, n) ==
  /\ ~InRunner(a) /\ n \in 1..Len(machine[a].output_buffer)
  /\ wire' = [wire EXCEPT ![Other(a)] = @ \o Take(machine[a].output_buffer, n)]
  /\ machine' = [machine EXCEPT ![a] = bytes_written(@, n)]
  /\ UNCHANGED <<reads, started, unread, sent, received>>

-----------------------------------------------------------------------------
Next == \E a \in Agents :
  \/ Start(a) \/ ApplicationSends(a) \/ ApplicationTakes(a) \/ Dispatch(a)
  \/ \E n \in 1..Len(wire[a]) : BytesReceived(a, n)
  \/ \E n \in 1..Len(machine[a].output_buffer) : BytesWritten(a, n)

(* Weak fairness of Next, with its enabling condition written out: agents  *)
(* and network go on as long as one of them can. No step leads back to an  *)
(* earlier state, so nobody can be kept waiting for ever.                  *)
CanGoOn == \E a \in Agents :
  \/ a \in RunnerAgents /\ ~started[a]
  \/ machine[a].has_message /\ (a \in RunnerAgents => OutputsOf(a, machine[a].message_state) # {})
  \/ a \notin RunnerAgents /\ OutputsOf(a, machine[a].current_state) # {}
  \/ ~InRunner(a) /\ machine[a].output_buffer # <<>>
  \/ MayReceive(a) /\ \E n \in 1..Len(wire[a]) : MayCut(a, n)

Fairness == []<>~CanGoOn \/ []<><<Next>>_vars

Spec == Init /\ [][Next]_vars /\ Fairness
-----------------------------------------------------------------------------
(* What a machine reads is what the other agent sent, in order, however    *)
(* the octets were written and read, as long as no read ends within a      *)
(* terminator or an escape sequence (MayCut).                              *)
ReceivedAsSent == \A a \in Agents : IsPrefix(received[a], sent[Other(a)])

(* A message is there as soon as its last octet was shown to the machine:  *)
(* between the pieces the parsers neither lose an octet nor the place they *)
(* are at. This needs MayCut as well: with other cuts a terminator that    *)
(* two reads share is missed (generate_parser.cpp:245).                    *)
NothingHeldBack ==
  \A a \in Agents :
    wire[a] = <<>> /\ machine[Other(a)].output_buffer = <<>>
      => received[a] = sent[Other(a)]

(* When everything sent was read, both machines are in the same state.     *)
StatesAgree ==
  (\A a \in Agents : Len(received[a]) = Len(sent[Other(a)]))
    => machine["Client"].current_state = machine["Server"].current_state

(* A machine whose peer follows the protocol reports no protocol error,    *)
(* throws nothing and has nothing left over when its message is complete.  *)
NoFalseAlarm ==
  \A a \in Agents : /\ ~machine[a].has_error /\ ~machine[a].thrown
                    /\ machine[a].has_message => unread[a] = <<>>

(* The conversation ends: both agents are in Closed, with nothing to write *)
(* and no message that nobody took.                                        *)
BothClose ==
  <>[](\A a \in Agents : /\ is_closed(machine[a]) /\ ~machine[a].has_message
                         /\ machine[a].output_buffer = <<>>)
-----------------------------------------------------------------------------
(* One message on its own. A machine that comes to a state has nothing of  *)
(* any message; last is where its last one led.                            *)
Fresh(a, s, last) ==
  [StateMachine(States[a]) EXCEPT !.current_state = s, !.message_state = last]

Sending(a, s, last, octets) == [Fresh(a, s, last) EXCEPT !.output_buffer = octets]
Expecting(a, s, last, parsers) == [Fresh(a, s, last) EXCEPT !.parsers = parsers]
Holding(a, s, message) ==
  [Fresh(a, s, s) EXCEPT !.has_message = TRUE, !.pending[s] = Just(message)]

(* The machines that sm may have become once m of the octets were shown to *)
(* it, cut in any way, with the octets they have not consumed.             *)
ShownNext(q, x, octets) ==
  LET data == x.unread \o octets  r == on_bytes_received(q, x.machine, data)
  IN  [machine |-> r.machine, unread |-> Drop(data, r.consumed)]

Reading(q, sm, octets) ==
  LET upto[m \in 0..Len(octets)] ==
        IF m = 0 THEN {[machine |-> sm, unread |-> <<>>]}
        ELSE UNION {{ShownNext(q, x, SubSeq(octets, j + 1, m)) : x \in upto[j]} :
                      j \in {i \in 0..m - 1 : CutAllowed(Drop(octets, i), m - i)}}
  IN  upto

(* Exactly as long as a part is missing, the machine has only its parsers  *)
(* changed; then it holds the message that was sent, and all is consumed.  *)
ReadSoFar(a, s, last, to, message, whole, x) ==
  /\ x.unread \in Seq(Octets)
  /\ IF x.machine.has_message
       THEN whole /\ x.unread = <<>> /\ x.machine = Holding(a, to, message)
       ELSE ~whole /\ x.machine = Expecting(a, s, last, x.machine.parsers)

MessageRead(a, s, last, q, t, data) ==
  LET octets == Serialized(t, data)
      read   == Reading(q, Fresh(a, s, last), octets)
  IN  /\ octets \in Seq(Octets)
      /\ \A m \in 0..Len(octets) : \A x \in read[m] :
           ReadSoFar(a, s, last, t.target, [name |-> t.name, data |-> data],
                     m = Len(octets), x)

(* Every message of the protocol, sent to a machine that is in its state,  *)
(* is read as it was sent, at every cut that CutAllowed allows.            *)
MessagesRead ==
  \A a \in Agents : \A s, last \in DOMAIN States[a] :
    \A q \in OrdersIn(States[a], s) : \A t \in OutputsOf(Other(a), s) :
      \A data \in Payloads[t.name] : MessageRead(a, s, last, q, t, data)

(* A plain message is read by literals and by texts that no escape stands  *)
(* in. An action reads a part of it: its literal, or a text and the        *)
(* terminator, that is nowhere before.                                     *)
ReadBy(x, part) ==
  \/ x.kind = "static" /\ x.octets = part
  \/ /\ x.kind = "until" /\ ~has_value(x.escape)
     /\ x.terminator \in Seq(Octets) /\ x.terminator # <<>> /\ Len(x.terminator) <= Len(part)
     /\ \A p \in 0..Len(part) - Len(x.terminator) :
          At(part, p, x.terminator) <=> p = Len(part) - Len(x.terminator)

(* The parts of the octets: at[k] of them are before that of the k-th      *)
(* action. Each text has a field of its own.                               *)
Divides(r, octets, at) ==
  /\ r.actions \in Seq(Range(r.actions))
  /\ at[1] = 0 /\ at[Len(r.actions) + 1] = Len(octets)
  /\ \A k \in DOMAIN r.actions :
       at[k] < at[k + 1] /\ ReadBy(r.actions[k], SubSeq(octets, at[k] + 1, at[k + 1]))
  /\ \A j, k \in DOMAIN r.actions :
       r.actions[j].kind = "until" /\ r.actions[k].kind = "until"
         /\ r.actions[j].path[1] = r.actions[k].path[1] => j = k

(* The parser in stage k, when c of the octets are consumed.               *)
TextEnd(r, octets, at, k, c, j) ==
  IF j < k THEN at[j + 1] - Len(r.actions[j].terminator) ELSE IF j = k THEN c ELSE at[j]
Text(r, octets, at, k, c, j) == SubSeq(octets, at[j] + 1, TextEnd(r, octets, at, k, c, j))

Reader(r, f) == CHOOSE j \in DOMAIN r.actions : r.actions[j].kind = "until" /\ r.actions[j].path[1] = f

Partly(r, octets, at, k, c) ==
  [stage |-> k, complete |-> FALSE,
   buffer |-> [f \in Fields(r) |-> Text(r, octets, at, k, c, Reader(r, f))]]

(* Another message read in the same state begins with an octet that is not *)
(* in this one.                                                            *)
Unlike(r, octets) ==
  /\ r.actions \in Seq(Range(r.actions)) /\ r.actions # <<>> /\ r.actions[1].kind = "static"
  /\ \E b \in Octets : r.actions[1].octets = <<b>> /\ b \notin Range(octets)

Incoming(a, s) == {r \in Range(States[a][s]) : ~r.writes}

PlainMessage(a, s, t, data) ==
  LET octets == Serialized(t, data)
  IN  /\ s # "Closed" /\ octets \in Seq(Octets) /\ octets # <<>>
      /\ \E r \in Incoming(a, s) :
           /\ r.name = t.name /\ r.target = t.target
           /\ \E at \in [1..Len(r.actions) + 1 -> 0..Len(octets)] :
                /\ Divides(r, octets, at)
                /\ take_data(r, [Partly(r, octets, at, Len(r.actions) + 1, Len(octets))
                                   EXCEPT !.complete = TRUE]) = Just(data)
           /\ \A other \in Incoming(a, s) \ {r} : Unlike(other, octets)

(* Every message is plain, or is read as MessageRead says.                 *)
PlainOrRead ==
  \A a \in Agents : \A s \in DOMAIN States[a] : \A t \in OutputsOf(Other(a), s) :
    \A data \in Payloads[t.name] :
      \/ PlainMessage(a, s, t, data)
      \/ \A last \in DOMAIN States[a] : \A q \in OrdersIn(States[a], s) :
           MessageRead(a, s, last, q, t, data)

(* The messages an agent reads have names of their own.                    *)
NamesDiffer ==
  \A a \in Agents :
    /\ \A s \in DOMAIN States[a] : States[a][s] \in Seq(Range(States[a][s]))
    /\ \A x, y \in UNION {Incoming(a, s) : s \in DOMAIN States[a]} : x.name = y.name => x = y

(* In each state one agent sends, and then it is the other's turn.         *)
TurnsAlternate ==
  /\ DOMAIN States["Client"] = DOMAIN States["Server"]
  /\ \A a \in Agents : /\ "Open" \in DOMAIN States[a]
                       /\ \A s \in DOMAIN States[a] : \A t \in OutputsOf(a, s) :
                            /\ t.target \in DOMAIN States[a] /\ OutputsOf(a, t.target) = {}
                            /\ OutputsOf(Other(a), s) = {}

(* What may be sent, and where it is kept.                                 *)
Sayable == UNION {UNION {UNION {{[name |-> t.name, data |-> d] : d \in Payloads[t.name]} :
                                  t \in OutputsOf(a, s)} :
                           s \in DOMAIN States[a]} : a \in Agents}

TypeOK ==
  /\ \A a \in Agents : \A s \in DOMAIN States[a] : reads[a][s] \in OrdersIn(States[a], s)
  /\ DOMAIN machine = Agents
  /\ \A a \in Agents : /\ machine[a].current_state \in DOMAIN States[a]
                       /\ machine[a].message_state \in DOMAIN States[a]
                       /\ machine[a].output_buffer \in Seq(Octets)
  /\ started \in [Agents -> BOOLEAN]
  /\ unread \in [Agents -> Seq(Octets)] /\ wire \in [Agents -> Seq(Octets)]
  /\ sent \in [Agents -> Seq(Sayable)] /\ received \in [Agents -> Seq(Sayable)]

(* The inductive invariant: of all that was sent at most one message was   *)
(* not received, and no octets but its own are anywhere.                   *)
Quiet(a) == wire[a] = <<>> /\ unread[a] = <<>>

Rests(a, s) ==
  \/ machine[a] = Fresh(a, s, machine[a].message_state)
  \/ /\ OutputsOf(Other(a), s) = {}
     /\ \E message \in Range(sent[Other(a)]) : machine[a] = Holding(a, s, message)

Settled ==
  /\ \A a \in Agents : Quiet(a) /\ received[a] = sent[Other(a)]
  /\ \E s \in DOMAIN States["Client"] : \A a \in Agents : Rests(a, s)

Arriving(a, sm, kept, q, octets, shown) ==
  /\ ~sm.has_message
  /\ [machine |-> sm, unread |-> kept] \in
       Reading(q, Fresh(a, sm.current_state, sm.message_state), octets)[shown]

OnItsWay(a, sm, kept, q, w, peer, t, data) ==
  LET octets == Serialized(t, data)
      left   == w \o peer.output_buffer
      shown  == Len(octets) - Len(left)
  IN  /\ shown \in 0..Len(octets) /\ left = Drop(octets, shown)
      /\ Arriving(a, sm, kept, q, octets, shown)
      /\ peer = Sending(Other(a), t.target, peer.message_state, peer.output_buffer)

InFlight(a) ==
  LET b == Other(a)  s == machine[a].current_state
  IN  /\ Quiet(b) /\ received[b] = sent[a]
      /\ \E t \in OutputsOf(b, s) : \E data \in Payloads[t.name] :
           /\ sent[b] = Append(received[a], [name |-> t.name, data |-> data])
           /\ OnItsWay(a, machine[a], unread[a], reads[a][s], wire[a], machine[b], t, data)

(* A runner that was not started has done nothing.                         *)
StartsFirst ==
  \A a \in RunnerAgents \cap Agents :
    ~started[a] => machine[a] = StateMachine(States[a])

IInv == TypeOK /\ StartsFirst /\ (Settled \/ \E a \in Agents : InFlight(a))
=============================================================================
