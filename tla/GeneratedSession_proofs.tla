---------------------- MODULE GeneratedSession_proofs -----------------------
(***************************************************************************)
(* A conversation of the generated state machines, of any length, at every *)
(* cut that MayCut allows, from what each message does on its              *)
(* own. The hypotheses are about the protocol alone: in each state one     *)
(* agent sends and then the other (TurnsAlternate), and each message is    *)
(* read as it was sent by a machine that has just come to its state, at    *)
(* every cut that leaves terminators whole (MessagesRead, CutAllowed).     *)
(*                                                                         *)
(* That messages do not disturb each other is what is proved: at most one  *)
(* is on its way, its octets are all there is on the wire, in the output   *)
(* buffer and unread, and the machine that gets it is one that may have    *)
(* come about by reading them in pieces (IInv).                            *)
(*                                                                         *)
(* The second half proves of a plain message, one that is read by literals *)
(* and by texts without escapes, that it is read as it was sent: what the  *)
(* parser waits for after any number of octets (Waits), and that the other *)
(* parsers of the state fail and are reset.                                *)
(***************************************************************************)
EXTENDS GeneratedSession, SequenceTheorems, FiniteSetTheorems, WellFoundedInduction,
        TLAPS

(* A set of naturals that is not empty has a least element.                *)
LEMMA LeastNatural ==
  ASSUME NEW S \in SUBSET Nat, S # {}
  PROVE  \E n \in S : \A m \in S : n <= m
<1>1. IsWellFoundedOn(OpToRel(<, Nat), Nat)
  BY NatLessThanWellFounded
<1>2. PICK n \in S : \A m \in S : ~(<<m, n>> \in OpToRel(<, Nat))
  BY <1>1, WFMin
<1>3. \A m \in S : ~(m < n)
  BY <1>2 DEF OpToRel
<1> QED
  BY <1>3

(* The definition of Reading by recursion is sound: what was read after m  *)
(* octets depends on what was read after fewer.                            *)
LEMMA ReadingDefined ==
  ASSUME NEW q, NEW sm, NEW octets, Len(octets) \in Nat
  PROVE  Reading(q, sm, octets) =
           [m \in 0..Len(octets) |->
              IF m = 0 THEN {[machine |-> sm, unread |-> <<>>]}
              ELSE UNION {{ShownNext(q, x, SubSeq(octets, j + 1, m)) : x \in Reading(q, sm, octets)[j]} :
                            j \in {i \in 0..m - 1 : CutAllowed(Drop(octets, i), m - i)}}]
<1> DEFINE Body(f, m) ==
             IF m = 0 THEN {[machine |-> sm, unread |-> <<>>]}
             ELSE UNION {{ShownNext(q, x, SubSeq(octets, j + 1, m)) : x \in f[j]} :
                           j \in {i \in 0..m - 1 : CutAllowed(Drop(octets, i), m - i)}}
           Defines(f, n) == f = [m \in 0..n |-> Body(f, m)]
           Missing == {n \in Nat : ~\E f : Defines(f, n)}
<1>1. ASSUME NEW f, NEW g, NEW m \in Nat, \A j \in 0..m - 1 : f[j] = g[j]
      PROVE  Body(f, m) = Body(g, m)
  <2> DEFINE After(h, j) == {ShownNext(q, x, SubSeq(octets, j + 1, m)) : x \in h[j]}
             Cuts == {i \in 0..m - 1 : CutAllowed(Drop(octets, i), m - i)}
  <2>1. \A j \in Cuts : After(f, j) = After(g, j)
    BY <1>1
  <2>2. Body(f, m) = IF m = 0 THEN {[machine |-> sm, unread |-> <<>>]}
                     ELSE UNION {After(f, j) : j \in Cuts}
    OBVIOUS
  <2>3. Body(g, m) = IF m = 0 THEN {[machine |-> sm, unread |-> <<>>]}
                     ELSE UNION {After(g, j) : j \in Cuts}
    OBVIOUS
  <2> HIDE DEF Body, After, Cuts
  <2> QED
    BY <2>1, <2>2, <2>3
<1> HIDE DEF Body
<1>2. Missing = {}
  <2> SUFFICES ASSUME Missing # {} PROVE FALSE
    OBVIOUS
  <2>1. PICK n \in Missing : \A m \in Missing : n <= m
    <3>1. Missing \in SUBSET Nat
      OBVIOUS
    <3> HIDE DEF Missing
    <3> QED
      BY <3>1, LeastNatural
  <2>2. n # 0
    <3>1. PICK g : g = [m \in 0..0 |-> Body(g, 0)]
      <4> DEFINE h == [m \in 0..0 |-> Body(<<>>, 0)]
      <4>1. Body(h, 0) = Body(<<>>, 0)
        BY <1>1
      <4> QED
        BY <4>1
    <3>2. Defines(g, 0)
      BY <3>1
    <3> QED
      BY <2>1, <3>2
  <2>3. n - 1 \in Nat /\ n - 1 \notin Missing
    BY <2>1, <2>2
  <2>4. PICK f : Defines(f, n - 1)
    BY <2>3
  <2> DEFINE g == [m \in 0..n |-> IF m = n THEN Body(f, n) ELSE f[m]]
  <2>5. ASSUME NEW m \in 0..n PROVE g[m] = Body(g, m)
    <3>1. \A j \in 0..m - 1 : f[j] = g[j]
      BY <2>1
    <3>2. Body(f, m) = Body(g, m)
      <4>1. m \in Nat
        BY <2>1
      <4> HIDE DEF g
      <4> QED
        BY <1>1, <3>1, <4>1
    <3>3. m # n => f[m] = Body(f, m)
      <4>1. m # n => m \in 0..n - 1
        BY <2>1
      <4>2. ASSUME NEW k \in 0..n - 1 PROVE f[k] = Body(f, k)
        BY <2>4
      <4> QED
        BY <4>1, <4>2
    <3> QED
      BY <3>2, <3>3
  <2>6. Defines(g, n)
    <3>1. g = [m \in 0..n |-> g[m]]
      OBVIOUS
    <3> HIDE DEF g
    <3> QED
      BY <2>5, <3>1
  <2> HIDE DEF g, Defines
  <2> QED
    BY <2>1, <2>6
<1>3. \E f : Defines(f, Len(octets))
  BY <1>2
<1>4. Reading(q, sm, octets) = CHOOSE f : Defines(f, Len(octets))
  BY DEF Reading, Body
<1> HIDE DEF Defines
<1>5. Defines(Reading(q, sm, octets), Len(octets))
  BY <1>3, <1>4
<1> QED
  BY <1>5 DEF Defines, Body

(* Nothing was shown yet, or something more is shown.                      *)
LEMMA ReadingStarts ==
  ASSUME NEW q, NEW sm, NEW octets, Len(octets) \in Nat
  PROVE  [machine |-> sm, unread |-> <<>>] \in Reading(q, sm, octets)[0]
BY ReadingDefined

LEMMA ReadingGoesOn ==
  ASSUME NEW q, NEW sm, NEW octets, Len(octets) \in Nat,
         NEW m \in 0..Len(octets), NEW j \in 0..m - 1, CutAllowed(Drop(octets, j), m - j),
         NEW x \in Reading(q, sm, octets)[j]
  PROVE  ShownNext(q, x, SubSeq(octets, j + 1, m)) \in Reading(q, sm, octets)[m]
<1> DEFINE R == Reading(q, sm, octets)
<1>1. R[m] = UNION {{ShownNext(q, y, SubSeq(octets, i + 1, m)) : y \in R[i]} :
                      i \in {k \in 0..m - 1 : CutAllowed(Drop(octets, k), m - k)}}
  <2>1. m # 0
    OBVIOUS
  <2> HIDE DEF R
  <2>2. R = [n \in 0..Len(octets) |->
              IF n = 0 THEN {[machine |-> sm, unread |-> <<>>]}
              ELSE UNION {{ShownNext(q, y, SubSeq(octets, i + 1, n)) : y \in R[i]} :
                            i \in {k \in 0..n - 1 : CutAllowed(Drop(octets, k), n - k)}}]
    BY ReadingDefined DEF R
  <2> QED
    BY <2>1, <2>2
<1> HIDE DEF R
<1>2. x \in R[j]
  BY DEF R
<1>3. ShownNext(q, x, SubSeq(octets, j + 1, m)) \in R[m]
  BY <1>1, <1>2
<1> QED
  BY <1>3 DEF R
-----------------------------------------------------------------------------
LEMMA Others ==
  /\ Agents = {"Client", "Server"}
  /\ \A a \in Agents : Other(a) \in Agents /\ Other(a) # a /\ Other(Other(a)) = a
  /\ \A a, b \in Agents : b = a \/ b = Other(a)
BY DEF Agents, Other

(* The state machines of a conversation without errors.                    *)
MachineFields == {"current_state", "has_message", "message_state", "has_error", "thrown",
                  "output_buffer", "pending", "parsers"}
Machine(s, held, last, out, pending, parsers) ==
  [current_state |-> s, has_message |-> held, message_state |-> last, has_error |-> FALSE,
   thrown |-> FALSE, output_buffer |-> out, pending |-> pending, parsers |-> parsers]

NonePending(a) == [s \in DOMAIN States[a] |-> nullopt]
NewParsers(a) == StateMachine(States[a]).parsers

(* A machine is constructed in Open, and has nothing of any message.       *)
LEMMA NewMachine ==
  ASSUME NEW a
  PROVE  StateMachine(States[a])
           = Machine("Open", FALSE, "Open", <<>>, NonePending(a), NewParsers(a))
BY DEF StateMachine, Machine, NonePending, NewParsers

(* It comes to a state.                                                    *)
LEMMA FreshForm ==
  ASSUME NEW a, NEW s, NEW last
  PROVE  Fresh(a, s, last)
           = Machine(s, FALSE, last, <<>>, NonePending(a), NewParsers(a))
<1>1. PICK x : x = StateMachine(States[a])
  OBVIOUS
<1>2. PICK y : y = Fresh(a, s, last)
  OBVIOUS
<1>3. x = Machine("Open", FALSE, "Open", <<>>, NonePending(a), NewParsers(a))
  BY <1>1, NewMachine
<1>4. x.current_state = "Open" /\ x.has_message = FALSE /\ x.message_state = "Open"
      /\ x.output_buffer = <<>> /\ x.pending = NonePending(a)
      /\ x.parsers = NewParsers(a) /\ x.has_error = FALSE /\ x.thrown = FALSE
  BY <1>3 DEF Machine
<1>5. x = [f \in MachineFields |-> x[f]]
  BY <1>3 DEF Machine, MachineFields
<1>6. y = [x EXCEPT !.current_state = s, !.message_state = last]
  BY <1>1, <1>2 DEF Fresh
<1>7. y = [f \in MachineFields |-> y[f]]
  BY <1>5, <1>6 DEF MachineFields
<1>8. y.current_state = s /\ y.has_message = x.has_message /\ y.message_state = last
      /\ y.output_buffer = x.output_buffer /\ y.pending = x.pending
      /\ y.parsers = x.parsers /\ y.has_error = x.has_error /\ y.thrown = x.thrown
  BY <1>5, <1>6 DEF MachineFields
<1>9. y = Machine(s, FALSE, last, <<>>, NonePending(a), NewParsers(a))
  BY <1>4, <1>7, <1>8 DEF Machine, MachineFields
<1> QED
  BY <1>2, <1>9

(* It has octets to write.                                                 *)
LEMMA SendingForm ==
  ASSUME NEW a, NEW s, NEW last, NEW out
  PROVE  Sending(a, s, last, out)
           = Machine(s, FALSE, last, out, NonePending(a), NewParsers(a))
<1>1. PICK x : x = Fresh(a, s, last)
  OBVIOUS
<1>2. PICK y : y = Sending(a, s, last, out)
  OBVIOUS
<1>3. x = Machine(s, FALSE, last, <<>>, NonePending(a), NewParsers(a))
  BY <1>1, FreshForm
<1>4. x.current_state = s /\ x.has_message = FALSE /\ x.message_state = last
      /\ x.output_buffer = <<>> /\ x.pending = NonePending(a)
      /\ x.parsers = NewParsers(a) /\ x.has_error = FALSE /\ x.thrown = FALSE
  BY <1>3 DEF Machine
<1>5. x = [f \in MachineFields |-> x[f]]
  BY <1>3 DEF Machine, MachineFields
<1>6. y = [x EXCEPT !.output_buffer = out]
  BY <1>1, <1>2 DEF Sending
<1>7. y = [f \in MachineFields |-> y[f]]
  BY <1>5, <1>6 DEF MachineFields
<1>8. y.current_state = x.current_state /\ y.has_message = x.has_message
      /\ y.message_state = x.message_state /\ y.output_buffer = out
      /\ y.pending = x.pending /\ y.parsers = x.parsers /\ y.has_error = x.has_error
      /\ y.thrown = x.thrown
  BY <1>5, <1>6 DEF MachineFields
<1>9. y = Machine(s, FALSE, last, out, NonePending(a), NewParsers(a))
  BY <1>4, <1>7, <1>8 DEF Machine, MachineFields
<1> QED
  BY <1>2, <1>9

(* It has a part of a message.                                             *)
LEMMA ExpectingForm ==
  ASSUME NEW a, NEW s, NEW last, NEW parsers
  PROVE  Expecting(a, s, last, parsers)
           = Machine(s, FALSE, last, <<>>, NonePending(a), parsers)
<1>1. PICK x : x = Fresh(a, s, last)
  OBVIOUS
<1>2. PICK y : y = Expecting(a, s, last, parsers)
  OBVIOUS
<1>3. x = Machine(s, FALSE, last, <<>>, NonePending(a), NewParsers(a))
  BY <1>1, FreshForm
<1>4. x.current_state = s /\ x.has_message = FALSE /\ x.message_state = last
      /\ x.output_buffer = <<>> /\ x.pending = NonePending(a)
      /\ x.parsers = NewParsers(a) /\ x.has_error = FALSE /\ x.thrown = FALSE
  BY <1>3 DEF Machine
<1>5. x = [f \in MachineFields |-> x[f]]
  BY <1>3 DEF Machine, MachineFields
<1>6. y = [x EXCEPT !.parsers = parsers]
  BY <1>1, <1>2 DEF Expecting
<1>7. y = [f \in MachineFields |-> y[f]]
  BY <1>5, <1>6 DEF MachineFields
<1>8. y.current_state = x.current_state /\ y.has_message = x.has_message
      /\ y.message_state = x.message_state /\ y.output_buffer = x.output_buffer
      /\ y.pending = x.pending /\ y.parsers = parsers /\ y.has_error = x.has_error
      /\ y.thrown = x.thrown
  BY <1>5, <1>6 DEF MachineFields
<1>9. y = Machine(s, FALSE, last, <<>>, NonePending(a), parsers)
  BY <1>4, <1>7, <1>8 DEF Machine, MachineFields
<1> QED
  BY <1>2, <1>9

(* It has a message.                                                       *)
LEMMA HoldingForm ==
  ASSUME NEW a, NEW s, NEW message
  PROVE  Holding(a, s, message)
           = Machine(s, TRUE, s, <<>>, [NonePending(a) EXCEPT ![s] = Just(message)], NewParsers(a))
<1>1. PICK x : x = Fresh(a, s, s)
  OBVIOUS
<1>2. PICK y : y = Holding(a, s, message)
  OBVIOUS
<1>3. x = Machine(s, FALSE, s, <<>>, NonePending(a), NewParsers(a))
  BY <1>1, FreshForm
<1>4. x.current_state = s /\ x.has_message = FALSE /\ x.message_state = s
      /\ x.output_buffer = <<>> /\ x.pending = NonePending(a)
      /\ x.parsers = NewParsers(a) /\ x.has_error = FALSE /\ x.thrown = FALSE
  BY <1>3 DEF Machine
<1>5. x = [f \in MachineFields |-> x[f]]
  BY <1>3 DEF Machine, MachineFields
<1>6. y = [x EXCEPT !.has_message = TRUE, !.pending[s] = Just(message)]
  BY <1>1, <1>2 DEF Holding
<1>7. y = [f \in MachineFields |-> y[f]]
  BY <1>5, <1>6 DEF MachineFields
<1>8. y.current_state = x.current_state /\ y.has_message = TRUE
      /\ y.message_state = x.message_state /\ y.output_buffer = x.output_buffer
      /\ y.pending = [x.pending EXCEPT ![s] = Just(message)] /\ y.parsers = x.parsers
      /\ y.has_error = x.has_error /\ y.thrown = x.thrown
  BY <1>5, <1>6 DEF MachineFields
<1>9. y = Machine(s, TRUE, s, <<>>, [NonePending(a) EXCEPT ![s] = Just(message)], NewParsers(a))
  BY <1>4, <1>7, <1>8 DEF Machine, MachineFields
<1> QED
  BY <1>2, <1>9

(* take_<state>_message() leaves nothing of the message.                   *)
LEMMA TakeForm ==
  ASSUME NEW a, NEW s, NEW message
  PROVE  take_message(Holding(a, s, message), s)
           = Machine(s, FALSE, s, <<>>, [[NonePending(a) EXCEPT ![s] = Just(message)] EXCEPT ![s] = nullopt], NewParsers(a))
<1>1. PICK x : x = Holding(a, s, message)
  OBVIOUS
<1>2. PICK y : y = take_message(Holding(a, s, message), s)
  OBVIOUS
<1>3. x = Machine(s, TRUE, s, <<>>, [NonePending(a) EXCEPT ![s] = Just(message)], NewParsers(a))
  BY <1>1, HoldingForm
<1>4. x.current_state = s /\ x.has_message = TRUE /\ x.message_state = s
      /\ x.output_buffer = <<>>
      /\ x.pending = [NonePending(a) EXCEPT ![s] = Just(message)]
      /\ x.parsers = NewParsers(a) /\ x.has_error = FALSE /\ x.thrown = FALSE
  BY <1>3 DEF Machine
<1>5. x = [f \in MachineFields |-> x[f]]
  BY <1>3 DEF Machine, MachineFields
<1>6. y = [x EXCEPT !.has_message = FALSE, !.pending[s] = nullopt]
  BY <1>1, <1>2 DEF take_message
<1>7. y = [f \in MachineFields |-> y[f]]
  BY <1>5, <1>6 DEF MachineFields
<1>8. y.current_state = x.current_state /\ y.has_message = FALSE
      /\ y.message_state = x.message_state /\ y.output_buffer = x.output_buffer
      /\ y.pending = [x.pending EXCEPT ![s] = nullopt] /\ y.parsers = x.parsers
      /\ y.has_error = x.has_error /\ y.thrown = x.thrown
  BY <1>5, <1>6 DEF MachineFields
<1>9. y = Machine(s, FALSE, s, <<>>, [[NonePending(a) EXCEPT ![s] = Just(message)] EXCEPT ![s] = nullopt], NewParsers(a))
  BY <1>4, <1>7, <1>8 DEF Machine, MachineFields
<1> QED
  BY <1>2, <1>9

LEMMA TakeHeld ==
  ASSUME NEW a, NEW s \in DOMAIN States[a], NEW message
  PROVE  take_message(Holding(a, s, message), s) = Fresh(a, s, s)
<1>1. [[NonePending(a) EXCEPT ![s] = Just(message)] EXCEPT ![s] = nullopt] = NonePending(a)
  BY DEF NonePending
<1> QED
  BY <1>1, TakeForm, FreshForm

(* send_<message>() leaves the message in the output buffer.               *)
LEMMA SendFresh ==
  ASSUME NEW a, NEW s, NEW last, NEW t, NEW data,
         Serialized(t, data) \in Seq(Octets)
  PROVE  send(Fresh(a, s, last), t, data) = Sending(a, t.target, last, Serialized(t, data))
<1>0. PICK w \in Seq(Octets) : w = Serialized(t, data)
  OBVIOUS
<1>1. PICK x : x = Fresh(a, s, last)
  OBVIOUS
<1>2. PICK y : y = send(Fresh(a, s, last), t, data)
  OBVIOUS
<1>3. x = Machine(s, FALSE, last, <<>>, NonePending(a), NewParsers(a))
  BY <1>1, FreshForm
<1>4. x.current_state = s /\ x.has_message = FALSE /\ x.message_state = last
      /\ x.output_buffer = <<>> /\ x.pending = NonePending(a)
      /\ x.parsers = NewParsers(a) /\ x.has_error = FALSE /\ x.thrown = FALSE
  BY <1>3 DEF Machine
<1>5. x = [f \in MachineFields |-> x[f]]
  BY <1>3 DEF Machine, MachineFields
<1>6. y = [x EXCEPT !.output_buffer = x.output_buffer \o w,
                   !.current_state = t.target]
  BY <1>0, <1>1, <1>2 DEF send
<1>7. y = [f \in MachineFields |-> y[f]]
  BY <1>5, <1>6 DEF MachineFields
<1>8. y.current_state = t.target /\ y.has_message = x.has_message
      /\ y.message_state = x.message_state
      /\ y.output_buffer = x.output_buffer \o w /\ y.pending = x.pending
      /\ y.parsers = x.parsers /\ y.has_error = x.has_error /\ y.thrown = x.thrown
  BY <1>5, <1>6 DEF MachineFields
<1>9. y.output_buffer = w
  BY <1>4, <1>8, ConcatEmptySeq
<1>10. y = Machine(t.target, FALSE, last, w, NonePending(a), NewParsers(a))
  BY <1>4, <1>7, <1>8, <1>9 DEF Machine, MachineFields
<1> QED
  BY <1>0, <1>2, <1>10, SendingForm

(* bytes_written() takes the octets from the output buffer.                *)
LEMMA WriteForm ==
  ASSUME NEW a, NEW s, NEW last, NEW out, NEW n
  PROVE  bytes_written(Sending(a, s, last, out), n)
           = Machine(s, FALSE, last, (IF n >= Len(out) THEN <<>> ELSE Drop(out, n)), NonePending(a), NewParsers(a))
<1>1. PICK x : x = Sending(a, s, last, out)
  OBVIOUS
<1>2. PICK y : y = bytes_written(Sending(a, s, last, out), n)
  OBVIOUS
<1>3. x = Machine(s, FALSE, last, out, NonePending(a), NewParsers(a))
  BY <1>1, SendingForm
<1>4. x.current_state = s /\ x.has_message = FALSE /\ x.message_state = last
      /\ x.output_buffer = out /\ x.pending = NonePending(a)
      /\ x.parsers = NewParsers(a) /\ x.has_error = FALSE /\ x.thrown = FALSE
  BY <1>3 DEF Machine
<1>5. x = [f \in MachineFields |-> x[f]]
  BY <1>3 DEF Machine, MachineFields
<1>6. y = [x EXCEPT !.output_buffer =
                     IF n >= Len(x.output_buffer) THEN <<>> ELSE Drop(x.output_buffer, n)]
  BY <1>1, <1>2 DEF bytes_written
<1>7. y = [f \in MachineFields |-> y[f]]
  BY <1>5, <1>6 DEF MachineFields
<1>8. y.current_state = x.current_state /\ y.has_message = x.has_message
      /\ y.message_state = x.message_state
      /\ y.output_buffer = (IF n >= Len(x.output_buffer) THEN <<>>
                                                        ELSE Drop(x.output_buffer, n))
      /\ y.pending = x.pending /\ y.parsers = x.parsers /\ y.has_error = x.has_error
      /\ y.thrown = x.thrown
  BY <1>5, <1>6 DEF MachineFields
<1>9. y = Machine(s, FALSE, last, (IF n >= Len(out) THEN <<>> ELSE Drop(out, n)), NonePending(a), NewParsers(a))
  BY <1>4, <1>7, <1>8 DEF Machine, MachineFields
<1> QED
  BY <1>2, <1>9

LEMMA WriteSome ==
  ASSUME NEW a, NEW s, NEW last, NEW out \in Seq(Octets), NEW n \in 1..Len(out)
  PROVE  bytes_written(Sending(a, s, last, out), n) = Sending(a, s, last, Drop(out, n))
<1>1. (IF n >= Len(out) THEN <<>> ELSE Drop(out, n)) = Drop(out, n)
  BY EmptySeq DEF Drop
<1>2. PICK w : w = IF n >= Len(out) THEN <<>> ELSE Drop(out, n)
  OBVIOUS
<1>3. bytes_written(Sending(a, s, last, out), n)
        = Machine(s, FALSE, last, w, NonePending(a), NewParsers(a))
  BY <1>2, WriteForm, ZenonT(40)
<1>4. Sending(a, s, last, Drop(out, n))
        = Machine(s, FALSE, last, Drop(out, n), NonePending(a), NewParsers(a))
  BY SendingForm
<1> QED
  BY <1>1, <1>2, <1>3, <1>4

(* What is in a machine.                                                   *)
LEMMA FreshFields ==
  ASSUME NEW a, NEW s, NEW last
  PROVE  LET x == Fresh(a, s, last)
         IN  /\ x.current_state = s /\ x.message_state = last /\ x.output_buffer = <<>>
             /\ ~x.has_message /\ ~x.has_error /\ ~x.thrown
BY FreshForm DEF Machine

LEMMA SendingFields ==
  ASSUME NEW a, NEW s, NEW last, NEW out
  PROVE  LET x == Sending(a, s, last, out)
         IN  /\ x.current_state = s /\ x.message_state = last /\ x.output_buffer = out
             /\ ~x.has_message /\ ~x.has_error /\ ~x.thrown
BY SendingForm DEF Machine

LEMMA ExpectingFields ==
  ASSUME NEW a, NEW s, NEW last, NEW parsers
  PROVE  LET x == Expecting(a, s, last, parsers)
         IN  /\ x.current_state = s /\ x.message_state = last /\ x.output_buffer = <<>>
             /\ ~x.has_message /\ ~x.has_error /\ ~x.thrown
BY ExpectingForm DEF Machine

LEMMA HoldingFields ==
  ASSUME NEW a, NEW s \in DOMAIN States[a], NEW message
  PROVE  LET x == Holding(a, s, message)
         IN  /\ x.current_state = s /\ x.message_state = s /\ x.output_buffer = <<>>
             /\ x.has_message /\ ~x.has_error /\ ~x.thrown
             /\ x.pending[s][1] = message
<1>1. PICK p : p = [NonePending(a) EXCEPT ![s] = Just(message)]
  OBVIOUS
<1>2. p[s][1] = message
  BY <1>1 DEF NonePending, Just
<1>3. Holding(a, s, message) = Machine(s, TRUE, s, <<>>, p, NewParsers(a))
  BY <1>1, HoldingForm
<1> QED
  BY <1>2, <1>3 DEF Machine

(* A machine with nothing to write is fresh, and so is a new one.          *)
LEMMA NothingToWrite ==
  ASSUME NEW a, NEW s, NEW last
  PROVE  Sending(a, s, last, <<>>) = Fresh(a, s, last)
BY FreshForm, SendingForm

LEMMA NewIsFresh ==
  ASSUME NEW a
  PROVE  StateMachine(States[a]) = Fresh(a, "Open", "Open")
BY FreshForm, NewMachine
-----------------------------------------------------------------------------
(* Sequences of octets that are cut.                                       *)
LEMMA DropProperties ==
  ASSUME NEW o \in Seq(Octets), NEW n \in 0..Len(o)
  PROVE  /\ Drop(o, n) \in Seq(Octets) /\ Len(Drop(o, n)) = Len(o) - n
         /\ \A i \in 1..Len(o) - n : Drop(o, n)[i] = o[n + i]
BY DEF Drop

LEMMA MiddleProperties ==
  ASSUME NEW o \in Seq(Octets), NEW k \in 0..Len(o), NEW n \in 0..Len(o) - k
  PROVE  /\ SubSeq(o, k + 1, k + n) \in Seq(Octets) /\ Len(SubSeq(o, k + 1, k + n)) = n
         /\ \A i \in 1..n : SubSeq(o, k + 1, k + n)[i] = o[k + i]
OBVIOUS

LEMMA TakeProperties ==
  ASSUME NEW o \in Seq(Octets), NEW n \in 0..Len(o)
  PROVE  /\ Take(o, n) \in Seq(Octets) /\ Len(Take(o, n)) = n
         /\ \A i \in 1..n : Take(o, n)[i] = o[i]
BY DEF Take

(* The octets on the wire and the ones still to be written are the octets  *)
(* that were not shown. After n more of them, it is the others.            *)
Left(o, w, out, k) == k \in 0..Len(o) /\ w \o out = Drop(o, k)

LEMMA ShowMore ==
  ASSUME NEW o \in Seq(Octets), NEW w \in Seq(Octets), NEW out \in Seq(Octets),
         NEW k \in Nat, Left(o, w, out, k), NEW n \in 1..Len(w)
  PROVE  Left(o, Drop(w, n), out, k + n) /\ Take(w, n) = SubSeq(o, k + 1, k + n)
<1>0. k \in 0..Len(o) /\ w \o out = Drop(o, k)
  BY DEF Left
<1>d. PICK d : d = Drop(w, n)
  OBVIOUS
<1>1. Len(o) \in Nat /\ Len(w) \in Nat /\ Len(out) \in Nat /\ k \in Nat /\ n \in Nat
  BY <1>0
<1>2. /\ Len(w \o out) = Len(w) + Len(out)
      /\ \A i \in 1..Len(w) + Len(out) : (w \o out)[i] = IF i <= Len(w) THEN w[i] ELSE out[i - Len(w)]
  BY ConcatProperties
<1>3. /\ Len(Drop(o, k)) = Len(o) - k
      /\ \A i \in 1..Len(o) - k : Drop(o, k)[i] = o[k + i]
  BY <1>0, DropProperties
<1>4. Len(w) + Len(out) = Len(o) - k
  BY <1>0, <1>2, <1>3
<1>5. \A i \in 1..Len(o) - k : o[k + i] = IF i <= Len(w) THEN w[i] ELSE out[i - Len(w)]
  BY <1>0, <1>2, <1>3, <1>4
<1>6. k + n \in 0..Len(o) /\ k \in 0..(k + n) - 1 /\ k + n \in k..Len(o) /\ n \in 0..Len(w)
  BY <1>1, <1>4
<1>7. Take(w, n) = SubSeq(o, k + 1, k + n)
  <2>1. n \in 0..Len(o) - k /\ k \in 0..Len(o)
    BY <1>0, <1>1, <1>6
  <2>2. /\ SubSeq(o, k + 1, k + n) \in Seq(Octets) /\ Len(SubSeq(o, k + 1, k + n)) = n
        /\ \A i \in 1..n : SubSeq(o, k + 1, k + n)[i] = o[k + i]
    BY <2>1, MiddleProperties
  <2>3. /\ Take(w, n) \in Seq(Octets) /\ Len(Take(w, n)) = n
        /\ \A i \in 1..n : Take(w, n)[i] = w[i]
    BY <1>6, TakeProperties
  <2>4. ASSUME NEW i \in 1..n PROVE o[k + i] = w[i]
    <3>1. i \in 1..Len(o) - k /\ i <= Len(w)
      BY <1>1, <1>4
    <3> QED
      BY <1>5, <3>1
  <2>5. \A i \in 1..n : Take(w, n)[i] = SubSeq(o, k + 1, k + n)[i]
    BY <2>2, <2>3, <2>4
  <2> QED
    BY <2>2, <2>3, <2>5, SeqEqual
<1>9. /\ d \in Seq(Octets) /\ Len(d) = Len(w) - n
      /\ \A i \in 1..Len(w) - n : d[i] = w[n + i]
  BY <1>6, <1>d, DropProperties
<1>10. /\ d \o out \in Seq(Octets)
       /\ Len(d \o out) = Len(d) + Len(out)
       /\ \A i \in 1..Len(d) + Len(out) : (d \o out)[i] = IF i <= Len(d) THEN d[i] ELSE out[i - Len(d)]
  BY <1>9, ConcatProperties
<1>11. /\ Drop(o, k + n) \in Seq(Octets) /\ Len(Drop(o, k + n)) = Len(o) - (k + n)
       /\ \A i \in 1..Len(o) - (k + n) : Drop(o, k + n)[i] = o[(k + n) + i]
  BY <1>6, DropProperties
<1>12. Len(d \o out) = Len(o) - (k + n)
  BY <1>1, <1>4, <1>9, <1>10
<1>13. ASSUME NEW i \in 1..Len(o) - (k + n) PROVE (d \o out)[i] = Drop(o, k + n)[i]
  <2>1. Drop(o, k + n)[i] = o[k + (n + i)]
    BY <1>1, <1>11
  <2>2. o[k + (n + i)] = IF n + i <= Len(w) THEN w[n + i] ELSE out[(n + i) - Len(w)]
    BY <1>1, <1>5, <1>6
  <2>3. (d \o out)[i] = IF i <= Len(w) - n THEN d[i] ELSE out[i - (Len(w) - n)]
    BY <1>9, <1>10, <1>12
  <2>4. i <= Len(w) - n => d[i] = w[n + i]
    BY <1>1, <1>9
  <2>5. i - (Len(w) - n) = (n + i) - Len(w) /\ (i <= Len(w) - n <=> n + i <= Len(w))
    BY <1>1
  <2> QED
    BY <2>1, <2>2, <2>3, <2>4, <2>5
<1>14. d \o out = Drop(o, k + n)
  BY <1>10, <1>11, <1>12, <1>13, SeqEqual
<1> QED
  BY <1>6, <1>7, <1>14, <1>d DEF Left

(* Octets written change their place only.                                 *)
LEMMA WriteMore ==
  ASSUME NEW w \in Seq(Octets), NEW out \in Seq(Octets), NEW n \in 1..Len(out)
  PROVE  /\ w \o Take(out, n) \in Seq(Octets) /\ Drop(out, n) \in Seq(Octets)
         /\ (w \o Take(out, n)) \o Drop(out, n) = w \o out
<1>1. Len(out) \in Nat /\ n \in 0..Len(out) /\ n \in 0 .. Len(out)
  OBVIOUS
<1>2. Drop(out, n) \in Seq(Octets)
  BY <1>1, DropProperties
<1>3. Take(out, n) \in Seq(Octets)
  BY <1>1, TakeProperties
<1>4. Take(out, n) \o Drop(out, n) = out
  <2>1. 1 \in 1..Len(out) + 1 /\ n \in 1 - 1..Len(out) /\ Len(out) \in n..Len(out)
    BY <1>1
  <2>2. SubSeq(out, 1, n) \o SubSeq(out, n + 1, Len(out)) = SubSeq(out, 1, Len(out))
    BY <2>1, ConcatAdjacentSubSeq
  <2> QED
    BY <2>2, SubSeqFull DEF Take, Drop
<1>5. PICK t, d : t = Take(out, n) /\ d = Drop(out, n)
  OBVIOUS
<1>6. w \o t \in Seq(Octets)
  BY <1>3, <1>5, ConcatProperties
<1>7. (w \o t) \o d = w \o (t \o d)
  <2>1. t \in Seq(Octets) /\ d \in Seq(Octets)
    BY <1>2, <1>3, <1>5
  <2> QED
    BY <2>1, ConcatAssociative, SMTT(40)
<1> QED
  BY <1>2, <1>4, <1>5, <1>6, <1>7

(* The octets of a message, and what is known of the machine they go to.   *)
LEMMA MessageIs ==
  ASSUME MessagesRead, NEW a \in Agents,
         NEW s \in DOMAIN States[a], NEW last \in DOMAIN States[a],
         NEW q \in OrdersIn(States[a], s), NEW t \in OutputsOf(Other(a), s),
         NEW data \in Payloads[t.name]
  PROVE  /\ Serialized(t, data) \in Seq(Octets)
         /\ \A m \in 0..Len(Serialized(t, data)) :
              \A x \in Reading(q, Fresh(a, s, last), Serialized(t, data))[m] :
                ReadSoFar(a, s, last, t.target, [name |-> t.name, data |-> data],
                          m = Len(Serialized(t, data)), x)
<1>1. MessageRead(a, s, last, q, t, data)
  BY DEF MessagesRead
<1> QED
  BY <1>1 DEF MessageRead

(* A message that was sent to a machine that waits for it is on its way.   *)
LEMMA FlightStarts ==
  ASSUME NEW a \in Agents, NEW s, NEW la, NEW lb, NEW q, NEW t, NEW data,
         Serialized(t, data) \in Seq(Octets)
  PROVE  OnItsWay(a, Fresh(a, s, la), <<>>, q, <<>>,
                  Sending(Other(a), t.target, lb, Serialized(t, data)), t, data)
<1>1. PICK o \in Seq(Octets) : o = Serialized(t, data)
  OBVIOUS
<1>2. PICK sm : sm = Fresh(a, s, la)
  OBVIOUS
<1>3. PICK peer : peer = Sending(Other(a), t.target, lb, o)
  OBVIOUS
<1>4. sm.current_state = s /\ sm.message_state = la /\ ~sm.has_message
  BY <1>2, FreshFields
<1>5. peer.output_buffer = o /\ peer.message_state = lb
  BY <1>3, SendingFields
<1>6. <<>> \o o = o /\ Len(o) - Len(o) = 0 /\ 0 \in 0..Len(o) /\ Len(o) \in Nat
  BY ConcatEmptySeq
<1>7. o = Drop(o, 0)
  BY SubSeqFull DEF Drop
<1>8. [machine |-> sm, unread |-> <<>>] \in Reading(q, sm, o)[0]
  BY <1>6, ReadingStarts
<1>9. Arriving(a, sm, <<>>, q, o, 0)
  BY <1>2, <1>4, <1>8 DEF Arriving
<1>10. peer = Sending(Other(a), t.target, peer.message_state, peer.output_buffer)
  BY <1>3, <1>5
<1>11. OnItsWay(a, sm, <<>>, q, <<>>, peer, t, data)
  BY <1>1, <1>5, <1>6, <1>7, <1>9, <1>10 DEF OnItsWay
<1> QED
  BY <1>1, <1>2, <1>3, <1>11

(* As long as it is, the machine is still in the state in which it reads   *)
(* it, and the sender has nothing else to write.                           *)
LEMMA FlightState ==
  ASSUME MessagesRead, NEW a \in Agents, NEW sm, NEW kept, NEW w, NEW peer,
         sm.current_state \in DOMAIN States[a], sm.message_state \in DOMAIN States[a],
         NEW q \in OrdersIn(States[a], sm.current_state),
         NEW t \in OutputsOf(Other(a), sm.current_state), NEW data \in Payloads[t.name],
         OnItsWay(a, sm, kept, q, w, peer, t, data)
  PROVE  /\ sm = Expecting(a, sm.current_state, sm.message_state, sm.parsers)
         /\ peer = Sending(Other(a), t.target, peer.message_state, peer.output_buffer)
<1>1. PICK o \in Seq(Octets) : o = Serialized(t, data)
  BY MessageIs
<1>2. PICK shown \in 0..Len(o) : Arriving(a, sm, kept, q, o, shown)
  BY <1>1 DEF OnItsWay
<1>3. PICK x : x = [machine |-> sm, unread |-> kept]
  OBVIOUS
<1>4. x \in Reading(q, Fresh(a, sm.current_state, sm.message_state), o)[shown]
  BY <1>2, <1>3 DEF Arriving
<1>5. ReadSoFar(a, sm.current_state, sm.message_state, t.target,
                [name |-> t.name, data |-> data], shown = Len(o), x)
  BY <1>1, <1>4, MessageIs
<1>6. ~sm.has_message
  BY <1>2 DEF Arriving
<1>7. sm = Expecting(a, sm.current_state, sm.message_state, sm.parsers)
  BY <1>3, <1>5, <1>6 DEF ReadSoFar
<1> QED
  BY <1>7 DEF OnItsWay

(* Octets are written.                                                     *)
Written(w, out, n, v, d) == v = w \o Take(out, n) /\ d = Drop(out, n)

LEMMA FlightWritten ==
  ASSUME NEW a \in Agents, NEW sm, NEW kept, NEW q, NEW w \in Seq(Octets), NEW peer,
         NEW t, NEW data, OnItsWay(a, sm, kept, q, w, peer, t, data),
         NEW out \in Seq(Octets), out = peer.output_buffer, NEW n \in 1..Len(out),
         NEW v, NEW d, Written(w, out, n, v, d)
  PROVE  OnItsWay(a, sm, kept, q, v, bytes_written(peer, n), t, data)
<1>1. PICK last : last = peer.message_state
  OBVIOUS
<1>2. peer = Sending(Other(a), t.target, last, out)
  BY <1>1 DEF OnItsWay
<1>3. PICK after : after = bytes_written(peer, n)
  OBVIOUS
<1>4. after = Sending(Other(a), t.target, last, d)
  BY <1>2, <1>3, WriteSome DEF Written
<1>5. after.output_buffer = d /\ after.message_state = last
  BY <1>4, SendingFields
<1>6. v \o d = w \o out
  BY WriteMore DEF Written
<1>7. OnItsWay(a, sm, kept, q, v, after, t, data)
  BY <1>4, <1>5, <1>6 DEF OnItsWay
<1> QED
  BY <1>3, <1>7

(* More of it is shown: either a part is missing still, or all of it was   *)
(* shown, and the machine has the message.                                 *)
MayShow(w, peer, n) == CutAllowed(w \o peer.output_buffer, n)

AfterPiece(q, sm, kept, w, n) == ShownNext(q, [machine |-> sm, unread |-> kept], Take(w, n))

ReadOn(a, sm, q, w, n, peer, t, data, next) ==
  /\ next.unread \in Seq(Octets) /\ Drop(w, n) \in Seq(Octets)
  /\ IF next.machine.has_message
       THEN /\ next.unread = <<>> /\ Drop(w, n) = <<>> /\ peer.output_buffer = <<>>
            /\ next.machine = Holding(a, t.target, [name |-> t.name, data |-> data])
       ELSE /\ next.machine = Expecting(a, sm.current_state, sm.message_state,
                                        next.machine.parsers)
            /\ OnItsWay(a, next.machine, next.unread, q, Drop(w, n), peer, t, data)

LEMMA FlightGoesOn ==
  ASSUME MessagesRead, NEW a \in Agents, NEW sm, NEW kept, NEW w \in Seq(Octets), NEW peer,
         sm.current_state \in DOMAIN States[a], sm.message_state \in DOMAIN States[a],
         NEW q \in OrdersIn(States[a], sm.current_state),
         NEW t \in OutputsOf(Other(a), sm.current_state), NEW data \in Payloads[t.name],
         peer.output_buffer \in Seq(Octets),
         OnItsWay(a, sm, kept, q, w, peer, t, data),
         NEW n \in 1..Len(w), MayShow(w, peer, n)
  PROVE  ReadOn(a, sm, q, w, n, peer, t, data, AfterPiece(q, sm, kept, w, n))
<1> DEFINE next == AfterPiece(q, sm, kept, w, n)
<1>next. next = ShownNext(q, [machine |-> sm, unread |-> kept], Take(w, n))
  BY DEF AfterPiece
<1> HIDE DEF next
<1>0. PICK d : d = Drop(w, n)
  OBVIOUS
<1>1. PICK o \in Seq(Octets) : o = Serialized(t, data)
  BY MessageIs
<1>2. PICK out \in Seq(Octets) : out = peer.output_buffer
  OBVIOUS
<1>3. PICK k \in 0..Len(o) : /\ k = Len(o) - Len(w \o out) /\ w \o out = Drop(o, k)
                             /\ Arriving(a, sm, kept, q, o, k)
  BY <1>1, <1>2 DEF OnItsWay
<1>4. PICK x : x = [machine |-> sm, unread |-> kept]
  OBVIOUS
<1>5. PICK s \in DOMAIN States[a], last \in DOMAIN States[a] :
        s = sm.current_state /\ last = sm.message_state
  OBVIOUS
<1>6. PICK fresh : fresh = Fresh(a, s, last)
  OBVIOUS
<1>7. x \in Reading(q, fresh, o)[k]
  BY <1>3, <1>4, <1>5, <1>6 DEF Arriving
<1>8. PICK m : m = k + n
  OBVIOUS
<1>9. /\ m \in 0..Len(o) /\ k \in 0..m - 1
      /\ Take(w, n) = SubSeq(o, k + 1, m)
      /\ d \in Seq(Octets) /\ d \o out = Drop(o, m) /\ Len(o) - Len(d \o out) = m
  <2>1. Left(o, w, out, k)
    BY <1>3 DEF Left
  <2>2. Left(o, d, out, m) /\ Take(w, n) = SubSeq(o, k + 1, m)
    <3>1. Left(o, Drop(w, n), out, k + n)
      BY <2>1, ShowMore
    <3>2. Take(w, n) = SubSeq(o, k + 1, k + n)
      BY <2>1, ShowMore
    <3> QED
      BY <1>0, <1>8, <3>1, <3>2
  <2>3. m \in 0..Len(o) /\ d \o out = Drop(o, m) /\ k \in 0..m - 1
    BY <1>8, <2>2 DEF Left
  <2>4. d \in Seq(Octets)
    BY <1>0, DropProperties
  <2>5. Len(Drop(o, m)) = Len(o) - m
    BY <2>3, DropProperties
  <2> QED
    BY <2>2, <2>3, <2>4, <2>5
<1>10. m - k = n
  BY <1>8
<1>11. CutAllowed(Drop(o, k), m - k)
  BY <1>2, <1>3, <1>10 DEF MayShow
<1>12. next = ShownNext(q, x, SubSeq(o, k + 1, m))
  BY <1>4, <1>9, <1>next
<1>13. next \in Reading(q, fresh, o)[m]
  <2>1. Len(o) \in Nat
    OBVIOUS
  <2> QED
    BY <1>7, <1>9, <1>11, <1>12, <2>1, ReadingGoesOn
<1>14. ReadSoFar(a, s, last, t.target, [name |-> t.name, data |-> data], m = Len(o), next)
  <2>1. q \in OrdersIn(States[a], s) /\ t \in OutputsOf(Other(a), s)
    BY <1>5
  <2> QED
    BY <1>1, <1>6, <1>9, <1>13, <2>1, MessageIs
<1>15. next.unread \in Seq(Octets)
  BY <1>14 DEF ReadSoFar
<1>16. ASSUME next.machine.has_message PROVE ReadOn(a, sm, q, w, n, peer, t, data, next)
  <2>1. /\ m = Len(o) /\ next.unread = <<>>
        /\ next.machine = Holding(a, t.target, [name |-> t.name, data |-> data])
    BY <1>14, <1>16 DEF ReadSoFar
  <2>3. Len(d \o out) = 0 /\ Len(d) \in Nat /\ Len(out) \in Nat
    BY <1>9, <2>1, ConcatProperties, SMTT(40)
  <2>4. d \o out = <<>>
    BY <1>9, <2>3, ConcatProperties, EmptySeq
  <2>5. d = <<>> /\ out = <<>>
    BY <1>9, <2>4, ConcatEqualIffEmpty
  <2> QED
    BY <1>0, <1>2, <1>9, <1>15, <1>16, <2>1, <2>5 DEF ReadOn
<1>17. ASSUME ~next.machine.has_message PROVE ReadOn(a, sm, q, w, n, peer, t, data, next)
  <2>1. next.machine = Expecting(a, s, last, next.machine.parsers)
    BY <1>14, <1>17 DEF ReadSoFar
  <2>2. next.machine.current_state = s /\ next.machine.message_state = last
    BY <2>1, ExpectingFields
  <2>3. next = [machine |-> next.machine, unread |-> next.unread]
    BY <1>next DEF ShownNext
  <2>4. Arriving(a, next.machine, next.unread, q, o, m)
    BY <1>6, <1>13, <1>17, <2>2, <2>3 DEF Arriving
  <2>5. peer = Sending(Other(a), t.target, peer.message_state, peer.output_buffer)
    BY DEF OnItsWay
  <2>6. OnItsWay(a, next.machine, next.unread, q, d, peer, t, data)
    BY <1>1, <1>2, <1>9, <2>4, <2>5 DEF OnItsWay
  <2> QED
    BY <1>0, <1>5, <1>9, <1>15, <1>17, <2>1, <2>6 DEF ReadOn
<1>18. ReadOn(a, sm, q, w, n, peer, t, data, next)
  BY <1>16, <1>17
<1> QED
  BY <1>18 DEF next

(* Both agents know the same states.                                       *)
LEMMA SameStates ==
  ASSUME TurnsAlternate, NEW a \in Agents
  PROVE  DOMAIN States[Other(a)] = DOMAIN States[a] /\ DOMAIN States[a] = DOMAIN States["Client"]
BY DEF TurnsAlternate, Agents, Other

LEMMA Turn ==
  ASSUME TurnsAlternate, NEW a \in Agents, NEW s \in DOMAIN States[a], NEW t \in OutputsOf(a, s)
  PROVE  /\ t.target \in DOMAIN States[a] /\ OutputsOf(a, t.target) = {}
         /\ OutputsOf(Other(a), s) = {}
BY DEF TurnsAlternate

LEMMA MaySendIs ==
  ASSUME NEW a, NEW s, NEW c \in MaySend(a, s)
  PROVE  c.t \in OutputsOf(a, s) /\ c.data \in Payloads[c.t.name]
<1>1. PICK now : /\ now \in SUBSET OutputsOf(a, s)
                 /\ MaySend(a, s) = UNION {{[t |-> t, data |-> d] : d \in Payloads[t.name]} : t \in now}
  <2> DEFINE out == OutputsOf(a, s)
             final == {t \in out : t.target \in FinalStates}
             now == IF Len(sent[a]) >= MaxMessages /\ final # {} THEN final ELSE out
  <2>1. now \in SUBSET out
    OBVIOUS
  <2>2. MaySend(a, s) = UNION {{[t |-> t, data |-> d] : d \in Payloads[t.name]} : t \in now}
    BY DEF MaySend
  <2> QED
    BY <2>1, <2>2
<1>2. PICK t \in now : \E d \in Payloads[t.name] : c = [t |-> t, data |-> d]
  BY <1>1
<1> QED
  BY <1>1, <1>2

LEMMA MayBeSaid ==
  ASSUME NEW a \in Agents, NEW s \in DOMAIN States[a], NEW t \in OutputsOf(a, s),
         NEW data \in Payloads[t.name]
  PROVE  [name |-> t.name, data |-> data] \in Sayable
BY DEF Sayable

(* Before anything was said both agents are in Open.                       *)
LEMMA InitIInv == TurnsAlternate /\ Init => IInv
<1> SUFFICES ASSUME TurnsAlternate, Init PROVE IInv
  OBVIOUS
<1>1. \A a \in Agents : machine[a] = Fresh(a, "Open", "Open")
  BY NewIsFresh DEF Init
<1>2. \A a \in Agents : /\ machine[a].current_state = "Open" /\ machine[a].message_state = "Open"
                        /\ machine[a].output_buffer = <<>>
  BY <1>1, FreshFields
<1>3. \A a \in Agents : "Open" \in DOMAIN States[a]
  BY DEF TurnsAlternate
<1>4. \A a \in Agents : \A s \in DOMAIN States[a] : reads[a][s] \in OrdersIn(States[a], s)
  <2>1. PICK c \in Orders(States["Client"]), s \in Orders(States["Server"]) :
          reads = [a \in Agents |-> IF a = "Client" THEN c ELSE s]
    BY DEF Init
  <2>2. \A a \in Agents : reads[a] \in Orders(States[a])
    BY <2>1 DEF Agents
  <2> QED
    BY <2>2 DEF Orders
<1>5. TypeOK
  <2>1. <<>> \in Seq(Octets) /\ <<>> \in Seq(Sayable)
    OBVIOUS
  <2>2. DOMAIN machine = Agents
    BY DEF Init
  <2>3. started \in [Agents -> BOOLEAN]
    BY DEF Init
  <2>4. unread \in [Agents -> Seq(Octets)] /\ wire \in [Agents -> Seq(Octets)]
    BY <2>1 DEF Init
  <2>5. sent \in [Agents -> Seq(Sayable)] /\ received \in [Agents -> Seq(Sayable)]
    BY <2>1 DEF Init
  <2> QED
    BY <1>2, <1>3, <1>4, <2>1, <2>2, <2>3, <2>4, <2>5 DEF TypeOK
<1>6. StartsFirst
  BY DEF StartsFirst, Init
<1>7. Settled
  <2>1. \A a \in Agents : Quiet(a) /\ received[a] = sent[Other(a)]
    BY Others DEF Init, Quiet
  <2>2. \A a \in Agents : Rests(a, "Open")
    BY <1>1, <1>2 DEF Rests
  <2>3. "Open" \in DOMAIN States["Client"]
    BY <1>3, Others
  <2> QED
    BY <2>1, <2>2, <2>3 DEF Settled
<1> QED
  BY <1>5, <1>6, <1>7 DEF IInv

(* An agent whose turn it is sends a message.                              *)
LEMMA SendStep ==
  ASSUME TurnsAlternate, MessagesRead, TypeOK, StartsFirst, NEW a \in Agents,
         NEW s \in DOMAIN States[a], NEW last \in DOMAIN States[a],
         \A x \in Agents : Quiet(x) /\ received[x] = sent[Other(x)],
         machine[Other(a)] = Fresh(Other(a), s, machine[Other(a)].message_state),
         NEW c \in MaySend(a, s), Send(a, Fresh(a, s, last), c),
         UNCHANGED <<reads, unread, wire, received>>,
         started' \in [Agents -> BOOLEAN], a \in RunnerAgents => started'[a],
         started'[Other(a)] = started[Other(a)]
  PROVE  IInv'
<1>1. PICK b \in Agents : b = Other(a) /\ b # a /\ a = Other(b) /\ \A x \in Agents : x = a \/ x = b
  BY Others
<1>2. PICK t, data : t = c.t /\ data = c.data
  OBVIOUS
<1>3. t \in OutputsOf(a, s) /\ data \in Payloads[t.name]
  BY <1>2, MaySendIs
<1>4. DOMAIN States[b] = DOMAIN States[a]
  BY <1>1, SameStates
<1>5. t.target \in DOMAIN States[a]
  BY <1>3, Turn
<1>6. PICK lb \in DOMAIN States[b] : lb = machine[b].message_state
  BY DEF TypeOK
<1>7. PICK q \in OrdersIn(States[b], s) : q = reads[b][s]
  BY <1>4 DEF TypeOK
<1>8. PICK o \in Seq(Octets) : o = Serialized(t, data)
  BY <1>1, <1>3, <1>4, <1>6, <1>7, MessageIs, ZenonT(40)
<1>9. DOMAIN machine = Agents
  BY DEF TypeOK
<1>10. /\ machine'[a] = send(Fresh(a, s, last), t, data)
       /\ machine'[b] = machine[b] /\ DOMAIN machine' = Agents
  BY <1>1, <1>2, <1>9 DEF Send
<1>11. machine'[a] = Sending(a, t.target, last, o)
  BY <1>8, <1>10, SendFresh
<1>12. /\ machine'[a].current_state = t.target /\ machine'[a].message_state = last
       /\ machine'[a].output_buffer = o
  BY <1>11, SendingFields
<1>13. PICK message : message = [name |-> t.name, data |-> data]
  OBVIOUS
<1>14. message \in Sayable
  BY <1>3, <1>13, MayBeSaid
<1>15. sent \in [Agents -> Seq(Sayable)]
  BY DEF TypeOK
<1>16. sent'[a] = Append(sent[a], message) /\ sent'[b] = sent[b] /\ sent' \in [Agents -> Seq(Sayable)]
  <2>1. sent' = [sent EXCEPT ![a] = Append(sent[a], message)]
    BY <1>2, <1>13 DEF Send
  <2>2. Append(sent[a], message) \in Seq(Sayable)
    BY <1>14, <1>15
  <2> QED
    BY <1>1, <1>15, <2>1, <2>2
<1>17. TypeOK'
  <2>1. reads' = reads /\ unread' = unread /\ wire' = wire /\ received' = received
    OBVIOUS
  <2>2. \A x \in Agents : /\ machine'[x].current_state \in DOMAIN States[x]
                          /\ machine'[x].message_state \in DOMAIN States[x]
                          /\ machine'[x].output_buffer \in Seq(Octets)
    BY <1>1, <1>5, <1>10, <1>12 DEF TypeOK
  <2> QED
    BY <1>10, <1>16, <2>1, <2>2 DEF TypeOK
<1>18. StartsFirst'
  BY <1>1, <1>10 DEF StartsFirst
<1>19. InFlight(b)'
  <2>1. machine'[b] = Fresh(b, s, lb)
    BY <1>1, <1>6, <1>10
  <2>2. machine'[b].current_state = s
    BY <2>1, FreshFields
  <2>3. OnItsWay(b, Fresh(b, s, lb), <<>>, q, <<>>, Sending(a, t.target, last, o), t, data)
    BY <1>1, <1>8, FlightStarts
  <2>4. wire'[b] = <<>> /\ unread'[b] = <<>> /\ wire'[a] = <<>> /\ unread'[a] = <<>>
    BY DEF Quiet
  <2>5. OnItsWay(b, machine'[b], unread'[b], reads'[b][machine'[b].current_state], wire'[b],
                 machine'[a], t, data)
    BY <1>7, <1>11, <2>1, <2>2, <2>3, <2>4
  <2>6. received'[a] = sent'[b] /\ sent'[a] = Append(received'[b], message)
    BY <1>1, <1>16
  <2>7. t \in OutputsOf(Other(b), machine'[b].current_state)
    BY <1>1, <1>3, <2>2
  <2> QED
    BY <1>1, <1>3, <1>13, <2>4, <2>5, <2>6, <2>7 DEF InFlight, Quiet
<1> QED
  BY <1>17, <1>18, <1>19 DEF IInv

(* A machine that has nothing to read: it has its last message, or not.    *)
LEMMA RestFacts ==
  ASSUME NEW a \in Agents, NEW s \in DOMAIN States[a], Rests(a, s)
  PROVE  /\ machine[a].current_state = s /\ machine[a].output_buffer = <<>>
         /\ ~machine[a].has_error /\ ~machine[a].thrown
         /\ ~machine[a].has_message => machine[a] = Fresh(a, s, machine[a].message_state)
         /\ machine[a].has_message => /\ machine[a].message_state = s
                                      /\ OutputsOf(Other(a), s) = {}
                                      /\ take_message(machine[a], s) = Fresh(a, s, s)
<1>1. CASE machine[a] = Fresh(a, s, machine[a].message_state)
  <2>1. /\ machine[a].current_state = s /\ machine[a].output_buffer = <<>>
        /\ ~machine[a].has_message /\ ~machine[a].has_error /\ ~machine[a].thrown
    BY <1>1, FreshFields
  <2> QED
    BY <1>1, <2>1
<1>2. ASSUME OutputsOf(Other(a), s) = {}, NEW message, machine[a] = Holding(a, s, message)
      PROVE  /\ machine[a].current_state = s /\ machine[a].output_buffer = <<>>
             /\ machine[a].has_message /\ machine[a].message_state = s
             /\ ~machine[a].has_error /\ ~machine[a].thrown
             /\ take_message(machine[a], s) = Fresh(a, s, s)
  BY <1>2, HoldingFields, TakeHeld
<1> QED
  BY <1>1, <1>2 DEF Rests

(* While a message is on its way nobody has one, and nobody may send.      *)
LEMMA FlightFacts ==
  ASSUME TurnsAlternate, MessagesRead, TypeOK, NEW a \in Agents, InFlight(a)
  PROVE  /\ \A x \in Agents : /\ ~machine[x].has_message
                              /\ ~machine[x].has_error /\ ~machine[x].thrown
                              /\ OutputsOf(x, machine[x].current_state) = {}
         /\ machine[a].output_buffer = <<>> /\ wire[Other(a)] = <<>>
<1>1. PICK b \in Agents : b = Other(a) /\ b # a /\ a = Other(b) /\ \A x \in Agents : x = a \/ x = b
  BY Others
<1>2. PICK sm : sm = machine[a]
  OBVIOUS
<1>3. PICK s \in DOMAIN States[a] : s = sm.current_state
  BY <1>2 DEF TypeOK
<1>4. sm.message_state \in DOMAIN States[a]
  BY <1>2 DEF TypeOK
<1>5. PICK q \in OrdersIn(States[a], s) : q = reads[a][s]
  BY <1>3 DEF TypeOK
<1>6. PICK t \in OutputsOf(b, s) : \E data \in Payloads[t.name] :
        OnItsWay(a, sm, unread[a], q, wire[a], machine[b], t, data)
  BY <1>1, <1>2, <1>3, <1>5 DEF InFlight
<1>7. /\ sm = Expecting(a, s, sm.message_state, sm.parsers)
      /\ machine[b] = Sending(b, t.target, machine[b].message_state, machine[b].output_buffer)
  BY <1>1, <1>3, <1>4, <1>6, FlightState
<1>8. ~sm.has_message /\ ~sm.has_error /\ ~sm.thrown /\ sm.output_buffer = <<>>
  BY <1>7, ExpectingFields
<1>9. /\ ~machine[b].has_message /\ ~machine[b].has_error /\ ~machine[b].thrown
      /\ machine[b].current_state = t.target
  BY <1>7, SendingFields
<1>10. OutputsOf(b, t.target) = {} /\ OutputsOf(a, s) = {}
  <2>1. s \in DOMAIN States[b]
    BY <1>1, SameStates
  <2> QED
    BY <1>1, <2>1, Turn
<1>11. wire[b] = <<>>
  BY <1>1 DEF InFlight, Quiet
<1> QED
  BY <1>1, <1>2, <1>3, <1>8, <1>9, <1>10, <1>11

(* Whose turn it is to send, both agents have come to the same state.      *)
LEMMA TurnToSend ==
  ASSUME TurnsAlternate, MessagesRead, IInv, NEW a \in Agents,
         OutputsOf(a, machine[a].current_state) # {}
  PROVE  LET s == machine[a].current_state
         IN  /\ s \in DOMAIN States[a]
             /\ \A x \in Agents : Quiet(x) /\ received[x] = sent[Other(x)]
             /\ machine[Other(a)] = Fresh(Other(a), s, machine[Other(a)].message_state)
             /\ Rests(a, s)
<1>1. TypeOK /\ Settled
  BY FlightFacts DEF IInv
<1>2. PICK s \in DOMAIN States["Client"] : \A x \in Agents : Rests(x, s)
  BY <1>1 DEF Settled
<1>3. PICK b \in Agents : b = Other(a) /\ a = Other(b)
  BY Others
<1>4. s \in DOMAIN States[a] /\ s \in DOMAIN States[b]
  BY <1>3, SameStates
<1>5. machine[a].current_state = s
  BY <1>2, <1>4, RestFacts
<1>6. Rests(b, s)
  BY <1>2
<1>7. machine[b] = Fresh(b, s, machine[b].message_state)
  BY <1>3, <1>4, <1>5, <1>6, RestFacts
<1> QED
  BY <1>1, <1>2, <1>3, <1>4, <1>5, <1>7 DEF Settled

LEMMA StartStep ==
  ASSUME TurnsAlternate, MessagesRead, IInv, NEW a \in Agents, Start(a) PROVE IInv'
<1>1. TypeOK /\ StartsFirst /\ started \in [Agents -> BOOLEAN]
  BY DEF IInv, TypeOK
<1>2. a \in RunnerAgents /\ ~started[a] /\ started' = [started EXCEPT ![a] = TRUE]
      /\ UNCHANGED <<reads, unread, wire, received>>
  BY DEF Start
<1>3. /\ started' \in [Agents -> BOOLEAN] /\ started'[a]
      /\ started'[Other(a)] = started[Other(a)]
      /\ \A x \in Agents : ~started'[x] => ~started[x]
  BY <1>1, <1>2, Others
<1>4. machine[a] = Fresh(a, "Open", "Open")
  BY <1>1, <1>2, NewIsFresh DEF StartsFirst
<1>5. CASE UNCHANGED <<machine, sent>>
  <2>1. /\ TypeOK' /\ StartsFirst' /\ (Settled' <=> Settled)
        /\ \A x \in Agents : InFlight(x)' <=> InFlight(x)
    <3>1. TypeOK'
      BY <1>1, <1>2, <1>3, <1>5 DEF TypeOK
    <3>2. StartsFirst'
      BY <1>1, <1>3, <1>5 DEF StartsFirst
    <3>3. Settled' <=> Settled
      BY <1>2, <1>5 DEF Settled, Quiet, Rests
    <3>4. \A x \in Agents : InFlight(x)' <=> InFlight(x)
      BY <1>2, <1>5 DEF InFlight, Quiet
    <3> QED
      BY <3>1, <3>2, <3>3, <3>4
  <2> QED
    BY <2>1 DEF IInv
<1>6. ASSUME OutputsOf(a, "Open") # {}, NEW c \in MaySend(a, "Open"), Send(a, machine[a], c)
      PROVE  IInv'
  <2>1. machine[a].current_state = "Open"
    BY <1>4, FreshFields
  <2>2. /\ "Open" \in DOMAIN States[a]
        /\ \A x \in Agents : Quiet(x) /\ received[x] = sent[Other(x)]
        /\ machine[Other(a)] = Fresh(Other(a), "Open", machine[Other(a)].message_state)
    BY <1>6, <2>1, TurnToSend
  <2>3. Send(a, Fresh(a, "Open", "Open"), c)
    BY <1>4, <1>6
  <2> QED
    BY <1>1, <1>2, <1>3, <1>6, <2>2, <2>3, SendStep
<1> QED
  BY <1>5, <1>6 DEF Start

LEMMA ApplicationSendsStep ==
  ASSUME TurnsAlternate, MessagesRead, IInv, NEW a \in Agents, ApplicationSends(a) PROVE IInv'
<1>1. TypeOK /\ StartsFirst /\ started \in [Agents -> BOOLEAN]
  BY DEF IInv, TypeOK
<1>2. PICK s \in DOMAIN States[a], last \in DOMAIN States[a] :
        s = machine[a].current_state /\ last = machine[a].message_state
  BY <1>1 DEF TypeOK
<1>3. PICK c \in MaySend(a, s) : Send(a, machine[a], c)
  BY <1>2 DEF ApplicationSends
<1>4. /\ \A x \in Agents : Quiet(x) /\ received[x] = sent[Other(x)]
      /\ machine[Other(a)] = Fresh(Other(a), s, machine[Other(a)].message_state)
      /\ Rests(a, s)
  BY <1>2, <1>3, MaySendIs, TurnToSend
<1>5. a \notin RunnerAgents /\ ~machine[a].has_message
      /\ UNCHANGED <<reads, started, unread, wire, received>>
  BY DEF ApplicationSends
<1>6. machine[a] = Fresh(a, s, last)
  BY <1>2, <1>4, <1>5, RestFacts
<1>7. Send(a, Fresh(a, s, last), c)
  BY <1>3, <1>6
<1> QED
  BY <1>1, <1>4, <1>5, <1>7, SendStep

LEMMA DispatchStep ==
  ASSUME TurnsAlternate, MessagesRead, IInv, NEW a \in Agents, Dispatch(a) PROVE IInv'
<1>1. TypeOK /\ StartsFirst /\ started \in [Agents -> BOOLEAN]
  BY DEF IInv, TypeOK
<1>2. machine[a].has_message /\ a \in RunnerAgents
      /\ UNCHANGED <<reads, started, unread, wire, received>>
  BY DEF Dispatch
<1>3. Settled
  BY <1>1, <1>2, FlightFacts DEF IInv
<1>4. PICK s \in DOMAIN States["Client"] : \A x \in Agents : Rests(x, s)
  BY <1>3 DEF Settled
<1>5. s \in DOMAIN States[a]
  BY SameStates
<1>6. /\ machine[a].current_state = s /\ machine[a].message_state = s
      /\ take_message(machine[a], s) = Fresh(a, s, s)
  BY <1>2, <1>4, <1>5, RestFacts
<1>7. PICK c \in MaySend(a, s) : Send(a, Fresh(a, s, s), c)
  BY <1>6 DEF Dispatch
<1>8. /\ \A x \in Agents : Quiet(x) /\ received[x] = sent[Other(x)]
      /\ machine[Other(a)] = Fresh(Other(a), s, machine[Other(a)].message_state)
  BY <1>6, <1>7, MaySendIs, TurnToSend
<1>9. started[a]
  <2>1. SUFFICES ASSUME ~started[a] PROVE FALSE
    OBVIOUS
  <2>2. machine[a] = Fresh(a, "Open", "Open")
    BY <1>1, <1>2, <2>1, NewIsFresh DEF StartsFirst
  <2> QED
    BY <1>2, <2>2, FreshFields
<1> QED
  BY <1>1, <1>2, <1>5, <1>7, <1>8, <1>9, SendStep

LEMMA ApplicationTakesStep ==
  ASSUME TurnsAlternate, MessagesRead, IInv, NEW a \in Agents, ApplicationTakes(a) PROVE IInv'
<1>1. TypeOK /\ StartsFirst /\ DOMAIN machine = Agents
  BY DEF IInv, TypeOK
<1>2. /\ machine[a].has_message /\ a \notin RunnerAgents
      /\ machine' = [machine EXCEPT ![a] = take_message(machine[a], machine[a].message_state)]
      /\ UNCHANGED <<reads, started, unread, wire, sent, received>>
  BY DEF ApplicationTakes
<1>3. Settled
  BY <1>1, <1>2, FlightFacts DEF IInv
<1>4. PICK s \in DOMAIN States["Client"] : \A x \in Agents : Rests(x, s)
  BY <1>3 DEF Settled
<1>5. s \in DOMAIN States[a]
  BY SameStates
<1>6. machine[a].message_state = s /\ take_message(machine[a], s) = Fresh(a, s, s)
  BY <1>2, <1>4, <1>5, RestFacts
<1>7. /\ machine'[a] = Fresh(a, s, s) /\ DOMAIN machine' = Agents
      /\ \A x \in Agents : x # a => machine'[x] = machine[x]
  BY <1>1, <1>2, <1>6
<1>8. /\ machine'[a].current_state = s /\ machine'[a].message_state = s
      /\ machine'[a].output_buffer = <<>>
  BY <1>7, FreshFields
<1>9. TypeOK'
  <2>1. \A x \in Agents : /\ machine'[x].current_state \in DOMAIN States[x]
                          /\ machine'[x].message_state \in DOMAIN States[x]
                          /\ machine'[x].output_buffer \in Seq(Octets)
    <3>1. <<>> \in Seq(Octets)
      OBVIOUS
    <3> QED
      BY <1>1, <1>5, <1>7, <1>8, <3>1 DEF TypeOK
  <2> QED
    BY <1>1, <1>2, <1>7, <2>1 DEF TypeOK
<1>10. StartsFirst'
  BY <1>1, <1>2, <1>7 DEF StartsFirst
<1>11. Settled'
  <2>1. \A x \in Agents : Rests(x, s)'
    BY <1>2, <1>4, <1>7, <1>8 DEF Rests
  <2> QED
    BY <1>2, <1>3, <2>1 DEF Settled, Quiet
<1> QED
  BY <1>9, <1>10, <1>11 DEF IInv

LEMMA BytesWrittenStep ==
  ASSUME TurnsAlternate, MessagesRead, IInv, NEW a \in Agents,
         NEW n \in 1..Len(machine[a].output_buffer), BytesWritten(a, n)
  PROVE  IInv'
<1>1. TypeOK /\ StartsFirst /\ DOMAIN machine = Agents /\ wire \in [Agents -> Seq(Octets)]
  BY DEF IInv, TypeOK
<1>2. PICK b \in Agents : b = Other(a) /\ b # a /\ a = Other(b) /\ \A x \in Agents : x = a \/ x = b
  BY Others
<1>3. PICK out \in Seq(Octets) : out = machine[a].output_buffer
  BY <1>1 DEF TypeOK
<1>4. out # <<>>
  BY <1>3, EmptySeq
<1>5. InFlight(b)
  <2>1. ~InFlight(a)
    BY <1>1, <1>3, <1>4, FlightFacts
  <2>2. ~Settled
    <3>1. SUFFICES ASSUME Settled PROVE FALSE
      OBVIOUS
    <3>2. PICK s \in DOMAIN States["Client"] : Rests(a, s)
      BY <3>1 DEF Settled
    <3>3. s \in DOMAIN States[a]
      BY SameStates
    <3> QED
      BY <1>3, <1>4, <3>2, <3>3, RestFacts
  <2> QED
    BY <1>2, <2>1, <2>2 DEF IInv
<1>6. PICK sm, s, q : sm = machine[b] /\ s = sm.current_state /\ q = reads[b][s]
  OBVIOUS
<1>7. PICK t \in OutputsOf(a, s) : \E data \in Payloads[t.name] :
        /\ sent[a] = Append(received[b], [name |-> t.name, data |-> data])
        /\ OnItsWay(b, sm, unread[b], q, wire[b], machine[a], t, data)
  BY <1>2, <1>5, <1>6 DEF InFlight
<1>8. PICK data \in Payloads[t.name] :
        /\ sent[a] = Append(received[b], [name |-> t.name, data |-> data])
        /\ OnItsWay(b, sm, unread[b], q, wire[b], machine[a], t, data)
  BY <1>7
<1>9a. PICK w \in Seq(Octets) : w = wire[b]
  BY <1>1
<1>9b. PICK peer : peer = machine[a]
  OBVIOUS
<1>9. w = wire[b] /\ peer = machine[a]
  BY <1>9a, <1>9b
<1>10. PICK v, d, after : v = w \o Take(out, n) /\ d = Drop(out, n) /\ after = bytes_written(peer, n)
  OBVIOUS
<1>12. /\ OnItsWay(b, sm, unread[b], q, v, after, t, data)
       /\ after = Sending(a, t.target, peer.message_state, d)
  <2>1. /\ OnItsWay(b, sm, unread[b], q, w, peer, t, data)
        /\ out = peer.output_buffer /\ n \in 1..Len(out)
    BY <1>3, <1>8, <1>9
  <2>2. Written(w, out, n, v, d)
    BY <1>10 DEF Written
  <2>3. OnItsWay(b, sm, unread[b], q, v, bytes_written(peer, n), t, data)
    BY <2>1, <2>2, FlightWritten
  <2>4. PICK last : last = peer.message_state
    OBVIOUS
  <2>5. peer = Sending(a, t.target, last, out)
    BY <1>2, <2>1, <2>4 DEF OnItsWay
  <2>6. after = Sending(a, t.target, last, d)
    BY <1>10, <2>1, <2>5, WriteSome
  <2> QED
    BY <1>10, <2>3, <2>4, <2>6
<1>11. /\ machine' = [machine EXCEPT ![a] = bytes_written(machine[a], n)]
       /\ wire' = [wire EXCEPT ![b] = wire[b] \o Take(machine[a].output_buffer, n)]
       /\ UNCHANGED <<reads, started, unread, sent, received>>
       /\ ~InRunner(a)
  BY <1>2 DEF BytesWritten
<1>13. v \in Seq(Octets) /\ d \in Seq(Octets)
  BY <1>3, <1>10, WriteMore
<1>14. /\ after.current_state = t.target /\ after.message_state = peer.message_state
       /\ after.output_buffer = d
  BY <1>12, SendingFields
<1>15. /\ machine'[a] = after /\ machine'[b] = sm /\ DOMAIN machine' = Agents
       /\ wire'[b] = v /\ wire'[a] = wire[a] /\ wire' \in [Agents -> Seq(Octets)]
  BY <1>1, <1>2, <1>3, <1>6, <1>9, <1>10, <1>11, <1>13
<1>16. TypeOK'
  <2>1. t.target \in DOMAIN States[a]
    <3>1. s \in DOMAIN States[a]
      BY <1>1, <1>2, <1>6, SameStates DEF TypeOK
    <3> QED
      BY <3>1, Turn
  <2>2. \A x \in Agents : /\ machine'[x].current_state \in DOMAIN States[x]
                          /\ machine'[x].message_state \in DOMAIN States[x]
                          /\ machine'[x].output_buffer \in Seq(Octets)
    BY <1>1, <1>2, <1>6, <1>9, <1>13, <1>14, <1>15, <2>1 DEF TypeOK
  <2> QED
    BY <1>1, <1>11, <1>15, <2>2 DEF TypeOK
<1>17. StartsFirst'
  <2>1. a \in RunnerAgents => started[a]
    BY <1>11 DEF InRunner
  <2> QED
    BY <1>1, <1>2, <1>6, <1>11, <1>15, <2>1 DEF StartsFirst
<1>18. InFlight(b)'
  <2>1. Quiet(a)' /\ received'[a] = sent'[b]
    BY <1>2, <1>5, <1>11, <1>15 DEF InFlight, Quiet
  <2>2. OnItsWay(b, machine'[b], unread'[b], reads'[b][machine'[b].current_state], wire'[b],
                 machine'[a], t, data)
    BY <1>6, <1>11, <1>12, <1>15
  <2>3. t \in OutputsOf(Other(b), machine'[b].current_state)
    BY <1>2, <1>6, <1>15
  <2>4. sent'[a] = Append(received'[b], [name |-> t.name, data |-> data])
    BY <1>8, <1>11
  <2> QED
    BY <1>2, <1>8, <2>1, <2>2, <2>3, <2>4 DEF InFlight
<1> QED
  BY <1>16, <1>17, <1>18 DEF IInv

LEMMA BytesReceivedStep ==
  ASSUME TurnsAlternate, MessagesRead, IInv, NEW a \in Agents,
         NEW n \in 1..Len(wire[a]), BytesReceived(a, n)
  PROVE  IInv'
<1>1. /\ TypeOK /\ StartsFirst /\ DOMAIN machine = Agents /\ wire \in [Agents -> Seq(Octets)]
      /\ unread \in [Agents -> Seq(Octets)] /\ received \in [Agents -> Seq(Sayable)]
      /\ sent \in [Agents -> Seq(Sayable)]
  BY DEF IInv, TypeOK
<1>2. PICK b \in Agents : b = Other(a) /\ b # a /\ a = Other(b) /\ \A x \in Agents : x = a \/ x = b
  BY Others
<1>3. InFlight(a)
  <2>1. wire[a] # <<>>
    OBVIOUS
  <2>2. ~Settled
    BY <2>1 DEF Settled, Quiet
  <2>3. ~InFlight(b)
    BY <1>1, <1>2, <2>1, FlightFacts
  <2> QED
    BY <1>2, <2>2, <2>3 DEF IInv
<1>4. PICK sm, peer : sm = machine[a] /\ peer = machine[b]
  OBVIOUS
<1>5. /\ sm.current_state \in DOMAIN States[a] /\ sm.message_state \in DOMAIN States[a]
      /\ peer.output_buffer \in Seq(Octets)
      /\ peer.current_state \in DOMAIN States[b] /\ peer.message_state \in DOMAIN States[b]
  BY <1>1, <1>4 DEF TypeOK
<1>6. PICK q \in OrdersIn(States[a], sm.current_state) : q = reads[a][sm.current_state]
  BY <1>1, <1>5 DEF TypeOK
<1>7. PICK w \in Seq(Octets), kept \in Seq(Octets) : w = wire[a] /\ kept = unread[a]
  BY <1>1
<1>8. PICK t \in OutputsOf(b, sm.current_state) : \E data \in Payloads[t.name] :
        /\ sent[b] = Append(received[a], [name |-> t.name, data |-> data])
        /\ OnItsWay(a, sm, kept, q, w, peer, t, data)
  BY <1>2, <1>3, <1>4, <1>6, <1>7 DEF InFlight
<1>9. PICK data \in Payloads[t.name] :
        /\ sent[b] = Append(received[a], [name |-> t.name, data |-> data])
        /\ OnItsWay(a, sm, kept, q, w, peer, t, data)
  BY <1>8
<1>10. PICK message : message = [name |-> t.name, data |-> data]
  OBVIOUS
<1>11. PICK next : next = AfterPiece(q, sm, kept, w, n)
  OBVIOUS
<1>12. /\ machine' = [machine EXCEPT ![a] = next.machine]
       /\ unread' = [unread EXCEPT ![a] = next.unread]
       /\ received' = [received EXCEPT ![a] =
                         IF next.machine.has_message
                           THEN Append(received[a], next.machine.pending[next.machine.message_state][1])
                           ELSE received[a]]
       /\ wire' = [wire EXCEPT ![a] = Drop(w, n)]
  <2> DEFINE shown == kept \o Take(w, n)
             r == on_bytes_received(q, sm, shown)
  <2>1. next.machine = r.machine /\ next.unread = Drop(shown, r.consumed)
    BY <1>11 DEF AfterPiece, ShownNext
  <2>2. /\ machine' = [machine EXCEPT ![a] = r.machine]
        /\ unread' = [unread EXCEPT ![a] = Drop(shown, r.consumed)]
        /\ received' = [received EXCEPT ![a] =
                          IF r.machine.has_message
                            THEN Append(received[a], r.machine.pending[r.machine.message_state][1])
                            ELSE received[a]]
        /\ wire' = [wire EXCEPT ![a] = Drop(w, n)]
    BY <1>4, <1>6, <1>7 DEF BytesReceived, OctetsArrive
  <2> HIDE DEF shown, r
  <2> QED
    BY <2>1, <2>2
<1>13. /\ UNCHANGED <<reads, started, sent>>
       /\ MayShow(w, peer, n) /\ (a \in RunnerAgents => started[a])
  BY <1>2, <1>4, <1>7 DEF BytesReceived, OctetsArrive, MayCut, MayShow, MayReceive, InRunner
<1>14. /\ next.unread \in Seq(Octets) /\ Drop(w, n) \in Seq(Octets)
       /\ IF next.machine.has_message
            THEN /\ next.unread = <<>> /\ Drop(w, n) = <<>> /\ peer.output_buffer = <<>>
                 /\ next.machine = Holding(a, t.target, [name |-> t.name, data |-> data])
            ELSE /\ next.machine = Expecting(a, sm.current_state, sm.message_state,
                                             next.machine.parsers)
                 /\ OnItsWay(a, next.machine, next.unread, q, Drop(w, n), peer, t, data)
  <2>1. t \in OutputsOf(Other(a), sm.current_state) /\ n \in 1..Len(w)
    BY <1>2, <1>7
  <2>2. ReadOn(a, sm, q, w, n, peer, t, data, AfterPiece(q, sm, kept, w, n))
    BY <1>5, <1>9, <1>13, <2>1, FlightGoesOn
  <2> QED
    BY <1>11, <2>2 DEF ReadOn
<1>15. /\ machine'[a] = next.machine /\ machine'[b] = peer /\ DOMAIN machine' = Agents
       /\ unread'[a] = next.unread /\ unread'[b] = unread[b]
       /\ unread' \in [Agents -> Seq(Octets)]
       /\ wire'[a] = Drop(w, n) /\ wire'[b] = wire[b] /\ wire' \in [Agents -> Seq(Octets)]
       /\ received'[b] = received[b]
  BY <1>1, <1>2, <1>4, <1>12, <1>14
<1>16. wire'[b] = <<>> /\ unread'[b] = <<>> /\ received'[b] = sent'[a]
  BY <1>2, <1>3, <1>13, <1>15 DEF InFlight, Quiet
<1>17. StartsFirst'
  BY <1>1, <1>2, <1>4, <1>13, <1>15 DEF StartsFirst
<1>18. t.target \in DOMAIN States[a] /\ OutputsOf(b, t.target) = {}
  <2>1. sm.current_state \in DOMAIN States[b]
    BY <1>2, <1>5, SameStates
  <2>2. t.target \in DOMAIN States[b] /\ OutputsOf(b, t.target) = {}
    BY <2>1, Turn
  <2> QED
    BY <1>2, <2>2, SameStates
<1>19. <<>> \in Seq(Octets)
  OBVIOUS
<1>20. CASE next.machine.has_message
  <2>1. next.machine = Holding(a, t.target, message)
    BY <1>10, <1>14, <1>20
  <2>2. /\ next.machine.current_state = t.target /\ next.machine.message_state = t.target
        /\ next.machine.output_buffer = <<>> /\ next.machine.pending[t.target][1] = message
    BY <1>18, <2>1, HoldingFields
  <2>3. /\ received'[a] = Append(received[a], message)
        /\ received' = [received EXCEPT ![a] = Append(received[a], message)]
    BY <1>1, <1>12, <1>20, <2>2
  <2>4. received'[a] = sent'[b]
    BY <1>9, <1>10, <1>13, <2>3
  <2>5. received' \in [Agents -> Seq(Sayable)]
    <3>1. Append(received[a], message) \in Seq(Sayable)
      BY <1>1, <1>9, <1>10
    <3> QED
      BY <1>1, <2>3, <3>1
  <2>6. TypeOK'
    <3>1. \A x \in Agents : /\ machine'[x].current_state \in DOMAIN States[x]
                            /\ machine'[x].message_state \in DOMAIN States[x]
                            /\ machine'[x].output_buffer \in Seq(Octets)
      BY <1>2, <1>5, <1>15, <1>18, <1>19, <2>2
    <3> QED
      BY <1>1, <1>13, <1>15, <2>5, <3>1 DEF TypeOK
  <2>7. Rests(a, t.target)'
    <3>1. message \in Range(sent'[b])
      <4>1. received[a] \in Seq(Sayable)
        BY <1>1
      <4>2. sent'[b] = Append(received[a], message)
        BY <2>3, <2>4
      <4>3. Len(received[a]) + 1 \in DOMAIN sent'[b] /\ sent'[b][Len(received[a]) + 1] = message
        BY <4>1, <4>2
      <4> QED
        BY <4>3 DEF Range
    <3> QED
      BY <1>2, <1>15, <1>18, <2>1, <3>1 DEF Rests
  <2>8. Rests(b, t.target)'
    <3>1. peer = Sending(b, t.target, peer.message_state, peer.output_buffer)
      BY <1>2, <1>9 DEF OnItsWay
    <3>2. peer.output_buffer = <<>>
      BY <1>14, <1>20
    <3>3. peer = Fresh(b, t.target, peer.message_state)
      BY <3>1, <3>2, NothingToWrite
    <3> QED
      BY <1>15, <3>3 DEF Rests
  <2>9. Settled'
    <3>1. t.target \in DOMAIN States["Client"]
      BY <1>18, SameStates
    <3>2. \A x \in Agents : Quiet(x)' /\ received'[x] = sent'[Other(x)]
      BY <1>2, <1>14, <1>15, <1>16, <1>20, <2>4 DEF Quiet
    <3>3. \A x \in Agents : Rests(x, t.target)'
      BY <1>2, <2>7, <2>8
    <3> QED
      BY <3>1, <3>2, <3>3 DEF Settled
  <2> QED
    BY <1>17, <2>6, <2>9 DEF IInv
<1>21. CASE ~next.machine.has_message
  <2>1. /\ next.machine = Expecting(a, sm.current_state, sm.message_state, next.machine.parsers)
        /\ OnItsWay(a, next.machine, next.unread, q, Drop(w, n), peer, t, data)
    BY <1>14, <1>21
  <2>2. /\ next.machine.current_state = sm.current_state
        /\ next.machine.message_state = sm.message_state
        /\ next.machine.output_buffer = <<>>
    BY <2>1, ExpectingFields
  <2>3. received' = received
    BY <1>1, <1>12, <1>21
  <2>4. TypeOK'
    <3>1. \A x \in Agents : /\ machine'[x].current_state \in DOMAIN States[x]
                            /\ machine'[x].message_state \in DOMAIN States[x]
                            /\ machine'[x].output_buffer \in Seq(Octets)
      BY <1>2, <1>5, <1>15, <1>19, <2>2
    <3> QED
      BY <1>1, <1>13, <1>15, <2>3, <3>1 DEF TypeOK
  <2>5. InFlight(a)'
    <3>1. OnItsWay(a, machine'[a], unread'[a], reads'[a][machine'[a].current_state], wire'[a],
                   machine'[b], t, data)
      BY <1>6, <1>13, <1>15, <2>1, <2>2
    <3>2. t \in OutputsOf(Other(a), machine'[a].current_state)
      BY <1>2, <1>15, <2>2
    <3>3. sent'[b] = Append(received'[a], [name |-> t.name, data |-> data])
      BY <1>9, <1>13, <2>3
    <3> QED
      BY <1>2, <1>9, <1>16, <3>1, <3>2, <3>3 DEF InFlight, Quiet
  <2> QED
    BY <1>17, <2>4, <2>5 DEF IInv
<1> QED
  BY <1>20, <1>21
-----------------------------------------------------------------------------
(* Every step of the agents and the network preserves the invariant.       *)
LEMMA NextIInv ==
  ASSUME TurnsAlternate, MessagesRead, IInv, [Next]_vars PROVE IInv'
<1>1. CASE UNCHANGED vars
  <2>1. TypeOK' <=> TypeOK
    BY <1>1 DEF vars, TypeOK
  <2>2. StartsFirst' <=> StartsFirst
    BY <1>1 DEF vars, StartsFirst
  <2>3. Settled' <=> Settled
    BY <1>1 DEF vars, Settled, Quiet, Rests
  <2>4. \A a \in Agents : InFlight(a)' <=> InFlight(a)
    BY <1>1 DEF vars, InFlight, Quiet
  <2> QED
    BY <2>1, <2>2, <2>3, <2>4 DEF IInv
<1>2. ASSUME NEW a \in Agents, Start(a) PROVE IInv'
  BY <1>2, StartStep
<1>3. ASSUME NEW a \in Agents, ApplicationSends(a) PROVE IInv'
  BY <1>3, ApplicationSendsStep
<1>4. ASSUME NEW a \in Agents, ApplicationTakes(a) PROVE IInv'
  BY <1>4, ApplicationTakesStep
<1>5. ASSUME NEW a \in Agents, Dispatch(a) PROVE IInv'
  BY <1>5, DispatchStep
<1>6. ASSUME NEW a \in Agents, NEW n \in 1..Len(wire[a]), BytesReceived(a, n) PROVE IInv'
  BY <1>6, BytesReceivedStep
<1>7. ASSUME NEW a \in Agents, NEW n \in 1..Len(machine[a].output_buffer), BytesWritten(a, n)
      PROVE  IInv'
  BY <1>7, BytesWrittenStep
<1> QED
  BY <1>1, <1>2, <1>3, <1>4, <1>5, <1>6, <1>7 DEF Next

LEMMA Invariance ==
  ASSUME TurnsAlternate, MessagesRead PROVE Spec => []IInv
<1>1. Init => IInv
  BY InitIInv
<1>2. IInv /\ [Next]_vars => IInv'
  BY NextIInv
<1> QED
  BY <1>1, <1>2, PTL DEF Spec

(* What the invariant says of a conversation.                              *)
LEMMA IInvReceived == ASSUME IInv PROVE ReceivedAsSent
<1>1. received \in [Agents -> Seq(Sayable)] /\ sent \in [Agents -> Seq(Sayable)]
  BY DEF IInv, TypeOK
<1>2. ASSUME NEW s \in Seq(Sayable), NEW message PROVE IsPrefix(s, s) /\ IsPrefix(s, Append(s, message))
  BY DEF IsPrefix
<1>3. CASE Settled
  BY <1>1, <1>2, <1>3, Others DEF Settled, ReceivedAsSent
<1>4. ASSUME NEW a \in Agents, InFlight(a) PROVE ReceivedAsSent
  <2>1. PICK message : sent[Other(a)] = Append(received[a], message)
    BY <1>4 DEF InFlight
  <2>2. PICK b \in Agents : b = Other(a) /\ a = Other(b) /\ \A x \in Agents : x = a \/ x = b
    BY Others
  <2>3. received[b] = sent[a]
    BY <1>4, <2>2 DEF InFlight
  <2>4. received[a] \in Seq(Sayable) /\ sent[a] \in Seq(Sayable)
    BY <1>1
  <2>5. IsPrefix(received[a], sent[Other(a)])
    BY <1>2, <2>1, <2>4
  <2>6. IsPrefix(received[b], sent[Other(b)])
    BY <1>2, <2>2, <2>3, <2>4
  <2> QED
    BY <2>2, <2>5, <2>6 DEF ReceivedAsSent
<1> QED
  BY <1>3, <1>4 DEF IInv

LEMMA IInvStates == ASSUME TurnsAlternate, IInv PROVE StatesAgree
<1>1. received \in [Agents -> Seq(Sayable)] /\ sent \in [Agents -> Seq(Sayable)]
  BY DEF IInv, TypeOK
<1>2. CASE Settled
  <2>1. PICK s \in DOMAIN States["Client"] : \A a \in Agents : Rests(a, s)
    BY <1>2 DEF Settled
  <2>2. \A a \in Agents : s \in DOMAIN States[a]
    BY SameStates
  <2>3. \A a \in Agents : machine[a].current_state = s
    BY <2>1, <2>2, RestFacts
  <2> QED
    BY <2>3, Others DEF StatesAgree
<1>3. ASSUME NEW a \in Agents, InFlight(a) PROVE StatesAgree
  <2>1. PICK message : sent[Other(a)] = Append(received[a], message)
    BY <1>3 DEF InFlight
  <2>2. Len(sent[Other(a)]) = Len(received[a]) + 1 /\ Len(received[a]) \in Nat
    BY <1>1, <2>1
  <2>3. Len(received[a]) # Len(sent[Other(a)])
    BY <2>2
  <2> QED
    BY <2>3 DEF StatesAgree
<1> QED
  BY <1>2, <1>3 DEF IInv

LEMMA IInvAlarm == ASSUME TurnsAlternate, MessagesRead, IInv PROVE NoFalseAlarm
<1>1. TypeOK
  BY DEF IInv
<1>2. CASE Settled
  <2>1. PICK s \in DOMAIN States["Client"] : \A a \in Agents : Rests(a, s)
    BY <1>2 DEF Settled
  <2>2. \A a \in Agents : s \in DOMAIN States[a]
    BY SameStates
  <2>3. \A a \in Agents : ~machine[a].has_error /\ ~machine[a].thrown
    BY <2>1, <2>2, RestFacts
  <2>4. \A a \in Agents : unread[a] = <<>>
    BY <1>2 DEF Settled, Quiet
  <2> QED
    BY <2>3, <2>4 DEF NoFalseAlarm
<1>3. ASSUME NEW a \in Agents, InFlight(a) PROVE NoFalseAlarm
  BY <1>1, <1>3, FlightFacts DEF NoFalseAlarm
<1> QED
  BY <1>2, <1>3 DEF IInv

(* Of a message that is on its way something is left to be shown.          *)
LEMMA FlightNotOver ==
  ASSUME MessagesRead, NEW a \in Agents, NEW sm, NEW kept, NEW peer,
         sm.current_state \in DOMAIN States[a], sm.message_state \in DOMAIN States[a],
         NEW q \in OrdersIn(States[a], sm.current_state),
         NEW t \in OutputsOf(Other(a), sm.current_state), NEW data \in Payloads[t.name],
         peer.output_buffer = <<>>,
         OnItsWay(a, sm, kept, q, <<>>, peer, t, data)
  PROVE  FALSE
<1>1. PICK o \in Seq(Octets) : o = Serialized(t, data)
  BY MessageIs
<1>2. <<>> \o peer.output_buffer = <<>> /\ Len(<<>>) = 0 /\ Len(o) \in Nat
  BY ConcatEmptySeq
<1>3. Arriving(a, sm, kept, q, o, Len(o))
  BY <1>1, <1>2 DEF OnItsWay
<1>4. PICK x : x = [machine |-> sm, unread |-> kept]
  OBVIOUS
<1>5. x \in Reading(q, Fresh(a, sm.current_state, sm.message_state), o)[Len(o)]
  BY <1>3, <1>4 DEF Arriving
<1>6. Len(o) \in 0..Len(o)
  BY <1>2
<1>7. ReadSoFar(a, sm.current_state, sm.message_state, t.target,
                [name |-> t.name, data |-> data], Len(o) = Len(o), x)
  BY <1>1, <1>5, <1>6, MessageIs
<1>8. ~sm.has_message
  BY <1>3 DEF Arriving
<1> QED
  BY <1>4, <1>7, <1>8 DEF ReadSoFar

LEMMA IInvHeldBack == ASSUME TurnsAlternate, MessagesRead, IInv PROVE NothingHeldBack
<1>1. TypeOK
  BY DEF IInv
<1>2. CASE Settled
  BY <1>2 DEF Settled, NothingHeldBack
<1>3. ASSUME NEW a \in Agents, InFlight(a) PROVE NothingHeldBack
  <2>1. PICK b \in Agents : b = Other(a) /\ b # a /\ a = Other(b) /\ \A x \in Agents : x = a \/ x = b
    BY Others
  <2>2. received[b] = sent[a]
    BY <1>3, <2>1 DEF InFlight
  <2>3. ASSUME wire[a] = <<>>, machine[b].output_buffer = <<>> PROVE FALSE
    <3>1. PICK sm, peer : sm = machine[a] /\ peer = machine[b]
      OBVIOUS
    <3>2. sm.current_state \in DOMAIN States[a] /\ sm.message_state \in DOMAIN States[a]
      BY <1>1, <3>1 DEF TypeOK
    <3>3. PICK q \in OrdersIn(States[a], sm.current_state) : q = reads[a][sm.current_state]
      BY <1>1, <3>2 DEF TypeOK
    <3>4. PICK t \in OutputsOf(b, sm.current_state) : \E data \in Payloads[t.name] :
            OnItsWay(a, sm, unread[a], q, <<>>, peer, t, data)
      BY <1>3, <2>1, <2>3, <3>1, <3>3 DEF InFlight
    <3> QED
      BY <2>1, <2>3, <3>1, <3>2, <3>3, <3>4, FlightNotOver
  <2> QED
    BY <2>1, <2>2, <2>3 DEF NothingHeldBack
<1> QED
  BY <1>2, <1>3 DEF IInv

(* Every variable keeps to its kind of value; a machine's states are ones  *)
(* of its protocol, and what it has to write are octets.                   *)
THEOREM TypeCorrect ==
  ASSUME TurnsAlternate, MessagesRead
  PROVE  Spec => []TypeOK
<1>1. IInv => TypeOK
  BY DEF IInv
<1> QED
  BY <1>1, Invariance, PTL

(* If each message on its own is read as it was sent, so is a conversation *)
(* of any length: nothing is lost, repeated or reordered, however the      *)
(* octets are written and however they are read without cutting through a  *)
(* terminator (MayCut), whichever agent uses the generated runner.         *)
THEOREM ConversationReceivedAsSent ==
  ASSUME TurnsAlternate, MessagesRead
  PROVE  Spec => []ReceivedAsSent
<1>1. IInv => ReceivedAsSent
  BY IInvReceived
<1> QED
  BY <1>1, Invariance, PTL

(* A message is complete as soon as the machine was shown its last octet,  *)
(* under the same condition on the cuts.                                   *)
THEOREM ConversationNotHeldBack ==
  ASSUME TurnsAlternate, MessagesRead
  PROVE  Spec => []NothingHeldBack
<1>1. IInv => NothingHeldBack
  BY IInvHeldBack
<1> QED
  BY <1>1, Invariance, PTL

(* The machines never disagree on the protocol's state longer than a       *)
(* message is on its way.                                                  *)
THEOREM ConversationStatesAgree ==
  ASSUME TurnsAlternate, MessagesRead
  PROVE  Spec => []StatesAgree
<1>1. IInv => StatesAgree
  BY IInvStates
<1> QED
  BY <1>1, Invariance, PTL

(* Neither machine reports an error or throws in such a conversation, and  *)
(* nothing of a message is left when the next one begins.                  *)
THEOREM ConversationWithoutAlarm ==
  ASSUME TurnsAlternate, MessagesRead
  PROVE  Spec => []NoFalseAlarm
<1>1. IInv => NoFalseAlarm
  BY IInvAlarm
<1> QED
  BY <1>1, Invariance, PTL
-----------------------------------------------------------------------------
-----------------------------------------------------------------------------
(* The octets of a message between two places.                             *)
Mid(o, i, j) == SubSeq(o, i + 1, j)

LEMMA MidProperties ==
  ASSUME NEW o \in Seq(Octets), NEW j \in 0..Len(o), NEW i \in 0..j
  PROVE  /\ Mid(o, i, j) \in Seq(Octets) /\ Len(Mid(o, i, j)) = j - i
         /\ \A p \in 1..j - i : Mid(o, i, j)[p] = o[i + p]
<1>1. i + 1 \in 1..Len(o) + 1 /\ j \in i + 1 - 1..Len(o)
  OBVIOUS
<1>2. \A p \in i + 1..j : p \in 1..Len(o)
  OBVIOUS
<1> QED
  BY <1>1, <1>2, SubSeqProperties DEF Mid

LEMMA MidEqual ==
  ASSUME NEW o \in Seq(Octets), NEW j \in 0..Len(o), NEW i \in 0..j,
         NEW w \in Seq(Octets), Len(w) = j - i, \A p \in 1..j - i : w[p] = o[i + p]
  PROVE  w = Mid(o, i, j)
<1>1. /\ Mid(o, i, j) \in Seq(Octets) /\ Len(Mid(o, i, j)) = j - i
      /\ \A p \in 1..j - i : Mid(o, i, j)[p] = o[i + p]
  BY MidProperties
<1> QED
  BY <1>1, SeqEqual

LEMMA MidMid ==
  ASSUME NEW o \in Seq(Octets), NEW j \in 0..Len(o), NEW i \in 0..j,
         NEW n \in 0..j - i, NEW m \in 0..n
  PROVE  Mid(Mid(o, i, j), m, n) = Mid(o, i + m, i + n)
<1>1. PICK w \in Seq(Octets) : /\ w = Mid(o, i, j) /\ Len(w) = j - i
                               /\ \A p \in 1..j - i : w[p] = o[i + p]
  BY MidProperties
<1>2. n \in 0..Len(w)
  BY <1>1
<1>3. PICK v \in Seq(Octets) : /\ v = Mid(w, m, n) /\ Len(v) = n - m
                               /\ \A p \in 1..n - m : v[p] = w[m + p]
  BY <1>2, MidProperties
<1>4. PICK a \in Nat, b \in Nat : a = i + m /\ b = i + n
  OBVIOUS
<1>5. /\ b \in 0..Len(o) /\ a \in 0..b /\ b - a = n - m
      /\ \A p \in 1..n - m : m + p \in 1..j - i /\ a + p = i + (m + p)
  BY <1>4
<1>6. \A p \in 1..b - a : v[p] = o[a + p]
  BY <1>1, <1>3, <1>5
<1>7. v = Mid(o, a, b)
  BY <1>3, <1>5, <1>6, MidEqual, ZenonT(40)
<1> QED
  BY <1>1, <1>3, <1>4, <1>7

(* Two pieces that follow each other.                                      *)
LEMMA MidConcat ==
  ASSUME NEW o \in Seq(Octets), NEW j \in 0..Len(o), NEW i \in 0..j, NEW h \in 0..i
  PROVE  Mid(o, h, i) \o Mid(o, i, j) = Mid(o, h, j)
<1>0. i \in 0..Len(o)
  OBVIOUS
<1>1. PICK v \in Seq(Octets) : /\ v = Mid(o, h, i) /\ Len(v) = i - h
                               /\ \A p \in 1..i - h : v[p] = o[h + p]
  BY <1>0, MidProperties
<1>2. PICK w \in Seq(Octets) : /\ w = Mid(o, i, j) /\ Len(w) = j - i
                               /\ \A p \in 1..j - i : w[p] = o[i + p]
  BY MidProperties
<1>x. PICK x : x = v \o w
  OBVIOUS
<1>3. /\ x \in Seq(Octets) /\ Len(x) = Len(v) + Len(w)
      /\ \A p \in 1..Len(v) : x[p] = v[p]
      /\ \A p \in Len(v) + 1..Len(v) + Len(w) : x[p] = w[p - Len(v)]
  BY <1>x, ConcatProperties
<1>4. \A p \in 1..j - h : x[p] = o[h + p]
  <2> SUFFICES ASSUME NEW p \in 1..j - h PROVE x[p] = o[h + p]
    OBVIOUS
  <2>1. CASE p \in 1..i - h
    BY <2>1, <1>1, <1>3
  <2>2. CASE p \notin 1..i - h
    <3>1. PICK p1 \in 1..j - i : p1 = p - Len(v) /\ i + p1 = h + p
      BY <2>2, <1>1
    <3>2. p \in Len(v) + 1..Len(v) + Len(w)
      BY <2>2, <1>1, <1>2
    <3> QED
      BY <3>1, <3>2, <1>2, <1>3
  <2> QED
    BY <2>1, <2>2
<1>5. Len(x) = j - h /\ h \in 0..j
  BY <1>1, <1>2, <1>3
<1>6. x = Mid(o, h, j)
  BY <1>3, <1>4, <1>5, MidEqual
<1> QED
  BY <1>1, <1>2, <1>x, <1>6

LEMMA MidOf ==
  ASSUME NEW w \in Seq(Octets)
  PROVE  w = Mid(w, 0, Len(w))
<1>1. \A p \in 1..Len(w) - 0 : w[p] = w[0 + p]
  OBVIOUS
<1>2. Len(w) = Len(w) - 0 /\ Len(w) \in 0..Len(w) /\ 0 \in 0..Len(w)
  OBVIOUS
<1> QED
  BY <1>1, <1>2, MidEqual

LEMMA TakeDrop ==
  ASSUME NEW w \in Seq(Octets), NEW n \in 0..Len(w)
  PROVE  Take(w, n) = Mid(w, 0, n) /\ Drop(w, n) = Mid(w, n, Len(w))
BY DEF Take, Drop, Mid

LEMMA MidTakeDrop ==
  ASSUME NEW o \in Seq(Octets), NEW j \in 0..Len(o), NEW i \in 0..j, NEW n \in 0..j - i
  PROVE  Take(Mid(o, i, j), n) = Mid(o, i, i + n) /\ Drop(Mid(o, i, j), n) = Mid(o, i + n, j)
<1>1. PICK w \in Seq(Octets) : w = Mid(o, i, j) /\ Len(w) = j - i
  BY MidProperties
<1>2. n \in 0..Len(w) /\ 0 \in 0..n /\ j - i \in 0..j - i /\ n \in 0..j - i
  BY <1>1
<1>3. Take(w, n) = Mid(w, 0, n) /\ Drop(w, n) = Mid(w, n, Len(w))
  BY <1>2, TakeDrop
<1>4. Mid(Mid(o, i, j), 0, n) = Mid(o, i + 0, i + n)
  BY <1>2, MidMid
<1>5. Mid(Mid(o, i, j), n, j - i) = Mid(o, i + n, i + (j - i))
  BY <1>2, MidMid
<1>6. i + 0 = i /\ i + (j - i) = j
  OBVIOUS
<1> QED
  BY <1>1, <1>3, <1>4, <1>5, <1>6

(* Octets that occur in a piece.                                           *)
LEMMA MidAt ==
  ASSUME NEW o \in Seq(Octets), NEW j \in 0..Len(o), NEW i \in 0..j, NEW p \in 0..j - i,
         NEW w \in Seq(Octets)
  PROVE  At(Mid(o, i, j), p, w) <=> /\ i + p + Len(w) <= j
                                    /\ Mid(o, i + p, i + p + Len(w)) = w
<1>1. Drop(Mid(o, i, j), p) = Mid(o, i + p, j)
  BY MidTakeDrop
<1>2. PICK a \in 0..j : a = i + p
  OBVIOUS
<1>3. PICK v \in Seq(Octets) : v = Mid(o, a, j) /\ Len(v) = j - a
  BY MidProperties
<1>4. PICK n \in Nat : n = Len(w)
  OBVIOUS
<1>5. At(Mid(o, i, j), p, w) <=> n <= j - a /\ Take(v, n) = w
  BY <1>1, <1>2, <1>3, <1>4 DEF At, StartsWith
<1>6. n <= j - a => Take(v, n) = Mid(o, a, a + n)
  <2> SUFFICES ASSUME n <= j - a PROVE Take(v, n) = Mid(o, a, a + n)
    OBVIOUS
  <2>1. n \in 0..j - a
    OBVIOUS
  <2> QED
    BY <1>3, <2>1, MidTakeDrop
<1> QED
  BY <1>2, <1>4, <1>5, <1>6
-----------------------------------------------------------------------------
(* The stages of a parser are what their definition says.                  *)
LEMMA StagesDefined ==
  ASSUME NEW t, NEW p, NEW input, NEW first \in Nat, NEW end \in Nat,
         first = p.stage, end = Len(t.actions) + 1, first <= end
  PROVE  /\ Stages(t, p, input)[first] = Staged("Complete", p, input)
         /\ \A k \in first + 1..end :
              Stages(t, p, input)[k] = Advance(t.actions[k - 1], Stages(t, p, input)[k - 1])
<1> DEFINE Body(f, k) == IF k = first THEN Staged("Complete", p, input)
                         ELSE Advance(t.actions[k - 1], f[k - 1])
           Defines(f, n) == f = [k \in first..n |-> Body(f, k)]
           Missing == {n \in Nat : n >= first /\ ~\E f : Defines(f, n)}
<1>1. ASSUME NEW f, NEW g, NEW k \in Nat, k # first => f[k - 1] = g[k - 1]
      PROVE  Body(f, k) = Body(g, k)
  BY <1>1
<1>2. Body(<<>>, first) = Staged("Complete", p, input)
  OBVIOUS
<1>3. Missing = {}
  <2> SUFFICES ASSUME Missing # {} PROVE FALSE
    OBVIOUS
  <2>1. PICK n \in Missing : \A m \in Missing : n <= m
    <3>1. Missing \in SUBSET Nat
      OBVIOUS
    <3> HIDE DEF Missing
    <3> QED
      BY <3>1, LeastNatural
  <2>2. n # first
    <3>1. PICK g : g = [k \in first..first |-> Body(<<>>, first)]
      OBVIOUS
    <3>2. Body(g, first) = Body(<<>>, first)
      OBVIOUS
    <3>3. \A k \in first..first : k = first
      OBVIOUS
    <3>4. Defines(g, first)
      <4> HIDE DEF Body
      <4> QED
        BY <3>1, <3>2, <3>3
    <3> HIDE DEF Defines
    <3> QED
      BY <2>1, <3>4
  <2>3. n - 1 \in Nat /\ n - 1 >= first /\ n - 1 \notin Missing
    BY <2>1, <2>2
  <2>4. PICK f : Defines(f, n - 1)
    BY <2>3
  <2> HIDE DEF Body
  <2> DEFINE g == [k \in first..n |-> IF k = n THEN Body(f, n) ELSE f[k]]
  <2>5. ASSUME NEW k \in first..n PROVE g[k] = Body(g, k)
    <3>1. k # first => f[k - 1] = g[k - 1]
      BY <2>1
    <3>2. Body(f, k) = Body(g, k)
      <4>1. k \in Nat
        BY <2>1
      <4> HIDE DEF g
      <4> QED
        BY <1>1, <3>1, <4>1
    <3>3. k # n => f[k] = Body(f, k)
      <4>1. k # n => k \in first..n - 1
        BY <2>1
      <4>2. ASSUME NEW j \in first..n - 1 PROVE f[j] = Body(f, j)
        BY <2>4
      <4> QED
        BY <4>1, <4>2
    <3> QED
      BY <3>2, <3>3
  <2>6. Defines(g, n)
    <3>1. g = [k \in first..n |-> g[k]]
      OBVIOUS
    <3> HIDE DEF g
    <3> QED
      BY <2>5, <3>1
  <2> HIDE DEF g, Defines
  <2> QED
    BY <2>1, <2>6
<1>4. \E f : Defines(f, end)
  BY <1>3
<1>5. Stages(t, p, input) = CHOOSE f : Defines(f, end)
  BY DEF Stages, Body
<1> HIDE DEF Defines
<1>6. Defines(Stages(t, p, input), end)
  BY <1>4, <1>5
<1>7. PICK f : f = Stages(t, p, input)
  OBVIOUS
<1>8. \A k \in first..end : f[k] = Body(f, k)
  BY <1>6, <1>7 DEF Defines
<1> QED
  BY <1>7, <1>8, SMTT(40)
-----------------------------------------------------------------------------
(* Without escapes a text ends where its terminator is first.              *)
Found(x, input, from) ==
  LET hits == {p \in from..Len(input) - Len(x.terminator) : At(input, p, x.terminator)}
      pos  == Min(hits)
  IN  IF hits = {} THEN [found |-> FALSE, text |-> Drop(input, from), rest |-> <<>>]
      ELSE [found |-> TRUE, text |-> SubSeq(input, from + 1, pos),
            rest |-> Drop(input, pos + Len(x.terminator))]

LEMMA SearchPlain ==
  ASSUME NEW x, NEW input, ~has_value(x.escape), Len(input) \in Nat
  PROVE  Search(x, input) = Found(x, input, 0)
<1> DEFINE Escape(p)  == has_value(x.escape) /\ At(input, p, x.escape[1].sequence)
           Hits(from) == {p \in from..Len(input) - Len(x.terminator) :
                            Escape(p) \/ At(input, p, x.terminator)}
           Body(f, from) ==
             LET pos  == Min(Hits(from))
                 upto == SubSeq(input, from + 1, pos)
                 rest == f[pos + Len(x.escape[1].sequence)]
             IN  IF Hits(from) = {}
                   THEN [found |-> FALSE, text |-> Drop(input, from), rest |-> <<>>]
                 ELSE IF Escape(pos)
                   THEN [rest EXCEPT !.text = upto \o x.escape[1].character \o @]
                 ELSE [found |-> TRUE, text |-> upto, rest |-> Drop(input, pos + Len(x.terminator))]
           Defines(f) == f = [from \in 0..Len(input) |-> Body(f, from)]
<1>1. \A p : ~Escape(p)
  OBVIOUS
<1>2. \A from : Hits(from) = {p \in from..Len(input) - Len(x.terminator) : At(input, p, x.terminator)}
  BY <1>1
<1> HIDE DEF Escape, Hits
<1>3. \A f, from : Body(f, from) = Found(x, input, from)
  <2> SUFFICES ASSUME NEW f, NEW from PROVE Body(f, from) = Found(x, input, from)
    OBVIOUS
  <2>1. PICK h : h = Hits(from)
    OBVIOUS
  <2>2. Found(x, input, from) =
          IF h = {} THEN [found |-> FALSE, text |-> Drop(input, from), rest |-> <<>>]
          ELSE [found |-> TRUE, text |-> SubSeq(input, from + 1, Min(h)),
                rest |-> Drop(input, Min(h) + Len(x.terminator))]
    BY <1>2, <2>1 DEF Found
  <2>3. ~Escape(Min(h))
    BY <1>1
  <2> QED
    BY <2>1, <2>2, <2>3, Zenon
<1> HIDE DEF Body
<1>4. PICK g : g = [from \in 0..Len(input) |-> Found(x, input, from)]
  OBVIOUS
<1>5. Defines(g)
  BY <1>3, <1>4
<1>6. Search(x, input) = (CHOOSE f : Defines(f))[0]
  BY DEF Search, Body, Hits, Escape
<1>7. PICK f : f = CHOOSE h : Defines(h)
  OBVIOUS
<1> HIDE DEF Defines
<1>8. Defines(f)
  BY <1>5, <1>7
<1>9. f[0] = Body(f, 0)
  BY <1>8 DEF Defines
<1> QED
  BY <1>3, <1>6, <1>7, <1>9

LEMMA SearchNone ==
  ASSUME NEW x, NEW input \in Seq(Octets), NEW w \in Seq(Octets), w = x.terminator,
         ~has_value(x.escape),
         \A p \in 0..Len(input) - Len(w) : ~At(input, p, w)
  PROVE  Search(x, input) = [found |-> FALSE, text |-> input, rest |-> <<>>]
<1>1. Found(x, input, 0) = [found |-> FALSE, text |-> Drop(input, 0), rest |-> <<>>]
  BY DEF Found
<1>2. Drop(input, 0) = input
  BY DEF Drop
<1> QED
  BY <1>1, <1>2, SearchPlain

LEMMA SearchFirst ==
  ASSUME NEW x, NEW input \in Seq(Octets), NEW w \in Seq(Octets), w = x.terminator,
         ~has_value(x.escape),
         NEW pos \in 0..Len(input) - Len(w), At(input, pos, w),
         \A p \in 0..pos - 1 : ~At(input, p, w)
  PROVE  Search(x, input) = [found |-> TRUE, text |-> Take(input, pos),
                             rest |-> Drop(input, pos + Len(w))]
<1> DEFINE hits == {p \in 0..Len(input) - Len(w) : At(input, p, w)}
<1>1. pos \in hits /\ \A p \in hits : pos <= p /\ p \in Int
  OBVIOUS
<1>2. Min(hits) = pos
  BY <1>1 DEF Min
<1>3. Found(x, input, 0) = [found |-> TRUE, text |-> SubSeq(input, 0 + 1, pos),
                            rest |-> Drop(input, pos + Len(w))]
  <2> HIDE DEF hits
  <2>1. hits # {}
    BY <1>1
  <2>2. hits = {p \in 0..Len(input) - Len(x.terminator) : At(input, p, x.terminator)}
    BY DEF hits
  <2> QED
    BY <1>2, <2>1, <2>2 DEF Found
<1>4. SubSeq(input, 0 + 1, pos) = Take(input, pos)
  BY DEF Take
<1> QED
  BY <1>3, <1>4, SearchPlain, SMTT(40)
-----------------------------------------------------------------------------
(* The parser of a plain message.                                          *)
Parser(k, buffer) == [stage |-> k, complete |-> FALSE, buffer |-> buffer]
Buffer(r, o, at, k, c) == [f \in Fields(r) |-> Text(r, o, at, k, c, Reader(r, f))]

Grown(b, f, x) == [b EXCEPT ![f] = b[f] \o x]

Divided(r, o, at) ==
  /\ o \in Seq(Octets) /\ Len(r.actions) \in Nat
  /\ at \in [1..Len(r.actions) + 1 -> 0..Len(o)] /\ Divides(r, o, at)

LEMMA PartlyForm ==
  ASSUME NEW r, NEW o, NEW at, NEW k, NEW c
  PROVE  Partly(r, o, at, k, c) = Parser(k, Buffer(r, o, at, k, c))
BY DEF Partly, Parser, Buffer

LEMMA NextStage ==
  ASSUME NEW k, NEW b
  PROVE  [Parser(k, b) EXCEPT !.stage = @ + 1] = Parser(k + 1, b)
<1> DEFINE P == {"stage", "complete", "buffer"}
<1>1. PICK x : x = Parser(k, b)
  OBVIOUS
<1>2. PICK y : y = [x EXCEPT !.stage = @ + 1]
  OBVIOUS
<1>3. x.stage = k /\ x.complete = FALSE /\ x.buffer = b /\ x = [f \in P |-> x[f]]
  BY <1>1 DEF Parser
<1>4. y.stage = k + 1 /\ y.complete = FALSE /\ y.buffer = b /\ y = [f \in P |-> y[f]]
  BY <1>2, <1>3
<1>5. y = Parser(k + 1, b)
  BY <1>4 DEF Parser
<1> QED
  BY <1>1, <1>2, <1>5

LEMMA KeepForm ==
  ASSUME NEW k, NEW b, NEW f, NEW x
  PROVE  Keep(Parser(k, b), f, x) = Parser(k, Grown(b, f, x))
<1> DEFINE P == {"stage", "complete", "buffer"}
<1>1. PICK p : p = Parser(k, b)
  OBVIOUS
<1>2. PICK y : y = Keep(p, f, x)
  OBVIOUS
<1>3. p.stage = k /\ p.complete = FALSE /\ p.buffer = b /\ p = [h \in P |-> p[h]]
  BY <1>1 DEF Parser
<1>4. y = [p EXCEPT !.buffer[f] = @ \o x]
  BY <1>2 DEF Keep
<1>5. /\ y.stage = k /\ y.complete = FALSE /\ y.buffer = [b EXCEPT ![f] = b[f] \o x]
      /\ y = [h \in P |-> y[h]]
  BY <1>3, <1>4
<1>6. y = Parser(k, Grown(b, f, x))
  BY <1>5 DEF Parser, Grown
<1> QED
  BY <1>1, <1>2, <1>6

LEMMA Dividing ==
  ASSUME NEW r, NEW o, NEW at, Divided(r, o, at), NEW k \in 1..Len(r.actions)
  PROVE  /\ DOMAIN r.actions = 1..Len(r.actions)
         /\ at[k] \in 0..Len(o) /\ at[k + 1] \in 0..Len(o) /\ at[k] < at[k + 1]
         /\ ReadBy(r.actions[k], Mid(o, at[k], at[k + 1]))
<1>1. Len(r.actions) \in Nat /\ k \in 1..Len(r.actions) + 1 /\ k + 1 \in 1..Len(r.actions) + 1
  BY DEF Divided
<1>2. DOMAIN r.actions = 1..Len(r.actions)
  BY DEF Divided, Divides
<1> QED
  BY <1>1, <1>2 DEF Divided, Divides, Mid

LEMMA ReaderOf ==
  ASSUME NEW r, NEW o, NEW at, Divided(r, o, at), NEW f \in Fields(r)
  PROVE  /\ Reader(r, f) \in 1..Len(r.actions)
         /\ r.actions[Reader(r, f)].kind = "until" /\ r.actions[Reader(r, f)].path[1] = f
<1>1. DOMAIN r.actions = 1..Len(r.actions)
  BY DEF Divided, Divides
<1>2. \E j \in DOMAIN r.actions : r.actions[j].kind = "until" /\ r.actions[j].path[1] = f
  BY DEF Fields
<1> QED
  BY <1>1, <1>2 DEF Reader

LEMMA ReaderIs ==
  ASSUME NEW r, NEW o, NEW at, Divided(r, o, at), NEW k \in 1..Len(r.actions),
         r.actions[k].kind = "until"
  PROVE  r.actions[k].path[1] \in Fields(r) /\ Reader(r, r.actions[k].path[1]) = k
<1>1. DOMAIN r.actions = 1..Len(r.actions)
  BY DEF Divided, Divides
<1>2. PICK f : f = r.actions[k].path[1]
  OBVIOUS
<1>3. f \in Fields(r)
  BY <1>1, <1>2 DEF Fields
<1>4. PICK j \in 1..Len(r.actions) : j = Reader(r, f) /\ r.actions[j].kind = "until"
                                     /\ r.actions[j].path[1] = f
  BY <1>3, ReaderOf
<1>5. j = k
  BY <1>1, <1>2, <1>4 DEF Divided, Divides
<1> QED
  BY <1>2, <1>3, <1>4, <1>5

(* What is in the buffers when the parser goes on.                         *)
LEMMA BufferGrows ==
  ASSUME NEW r, NEW o, NEW at, Divided(r, o, at), NEW k \in 1..Len(r.actions),
         r.actions[k].kind = "until",
         NEW d \in 0..Len(o), NEW c \in at[k]..d
  PROVE  Grown(Buffer(r, o, at, k, c), r.actions[k].path[1], Mid(o, c, d))
           = Buffer(r, o, at, k, d)
<1>1. PICK g \in Fields(r) : g = r.actions[k].path[1] /\ Reader(r, g) = k
  BY ReaderIs
<1>a. at[k] \in 0..Len(o) /\ o \in Seq(Octets) /\ k \in Nat
  BY Dividing DEF Divided
<1>2. c \in 0..d /\ at[k] \in 0..c
  BY <1>a
<1>3. Text(r, o, at, k, c, k) = Mid(o, at[k], c) /\ Text(r, o, at, k, d, k) = Mid(o, at[k], d)
  <2>1. TextEnd(r, o, at, k, c, k) = c /\ TextEnd(r, o, at, k, d, k) = d
    BY <1>a DEF TextEnd
  <2> QED
    BY <2>1 DEF Text, Mid
<1>4. Mid(o, at[k], c) \o Mid(o, c, d) = Mid(o, at[k], d)
  BY <1>a, <1>2, MidConcat
<1>5. \A f \in Fields(r) : f # g => Reader(r, f) # k
  BY <1>1, ReaderOf
<1>6. \A f \in Fields(r) : f # g => Text(r, o, at, k, c, Reader(r, f)) = Text(r, o, at, k, d, Reader(r, f))
  BY <1>5 DEF Text, TextEnd
<1>7. PICK x : x = Mid(o, c, d)
  OBVIOUS
<1>8. PICK b : b = Buffer(r, o, at, k, c)
  OBVIOUS
<1>9. /\ b = [f \in Fields(r) |-> Text(r, o, at, k, c, Reader(r, f))]
      /\ Buffer(r, o, at, k, d) = [f \in Fields(r) |-> Text(r, o, at, k, d, Reader(r, f))]
  BY <1>8 DEF Buffer
<1>10. Grown(b, g, x) = [f \in Fields(r) |-> IF f = g THEN b[g] \o x ELSE b[f]]
  BY <1>9 DEF Grown
<1>11. b[g] \o x = Text(r, o, at, k, d, Reader(r, g))
  BY <1>1, <1>3, <1>4, <1>7, <1>9
<1>12. [f \in Fields(r) |-> IF f = g THEN b[g] \o x ELSE b[f]] = Buffer(r, o, at, k, d)
  BY <1>6, <1>9, <1>11
<1> QED
  BY <1>1, <1>7, <1>8, <1>10, <1>12

LEMMA BufferKept ==
  ASSUME NEW r, NEW o, NEW at, Divided(r, o, at), NEW k \in 1..Len(r.actions), NEW c,
         r.actions[k].kind = "until" => c = at[k + 1] - Len(r.actions[k].terminator)
  PROVE  Buffer(r, o, at, k, c) = Buffer(r, o, at, k + 1, at[k + 1])
<1>1. ASSUME NEW f \in Fields(r)
      PROVE  Text(r, o, at, k, c, Reader(r, f)) = Text(r, o, at, k + 1, at[k + 1], Reader(r, f))
  <2>1. PICK j \in 1..Len(r.actions) : j = Reader(r, f) /\ r.actions[j].kind = "until"
    BY ReaderOf
  <2>2. j \in Nat /\ k \in Nat
    BY DEF Divided
  <2>3. CASE j < k
    <3>1. TextEnd(r, o, at, k, c, j) = TextEnd(r, o, at, k + 1, at[k + 1], j)
      BY <2>2, <2>3 DEF TextEnd
    <3> QED
      BY <2>1, <3>1 DEF Text
  <2>4. CASE j = k
    <3>1. TextEnd(r, o, at, k, c, j) = TextEnd(r, o, at, k + 1, at[k + 1], j)
      BY <2>1, <2>2, <2>4 DEF TextEnd
    <3> QED
      BY <2>1, <3>1 DEF Text
  <2>5. CASE j > k
    <3>1. TextEnd(r, o, at, k, c, j) = at[j]
      BY <2>2, <2>5 DEF TextEnd
    <3>2. TextEnd(r, o, at, k + 1, at[k + 1], j) = at[j]
      BY <2>2, <2>5 DEF TextEnd
    <3> QED
      BY <2>1, <3>1, <3>2 DEF Text
  <2> QED
    BY <2>1, <2>2, <2>3, <2>4, <2>5
<1> QED
  BY <1>1 DEF Buffer
-----------------------------------------------------------------------------
(* A literal waits for all of its octets, and consumes them.               *)
LEMMA AdvanceStatic ==
  ASSUME NEW r, NEW o, NEW at, Divided(r, o, at), NEW k \in 1..Len(r.actions),
         r.actions[k].kind = "static", NEW m \in at[k]..Len(o),
         NEW last, last = Staged("Complete", Partly(r, o, at, k, at[k]), Mid(o, at[k], m))
  PROVE  Advance(r.actions[k], last)
           = IF at[k + 1] <= m
               THEN Staged("Complete", Partly(r, o, at, k + 1, at[k + 1]), Mid(o, at[k + 1], m))
               ELSE Staged("NeedMoreData", Partly(r, o, at, k, at[k]), Mid(o, at[k], m))
<1>1. PICK x : x = r.actions[k]
  OBVIOUS
<1>2. PICK i \in 0..Len(o), j \in 0..Len(o) : i = at[k] /\ j = at[k + 1] /\ i < j
  BY Dividing
<1>3. o \in Seq(Octets) /\ m \in 0..Len(o) /\ i \in 0..m
  BY <1>2 DEF Divided
<1>4. PICK w \in Seq(Octets) : w = x.octets /\ w = Mid(o, i, j) /\ Len(w) = j - i
  <2>1. x.octets = Mid(o, i, j)
    BY <1>1, <1>2, Dividing DEF ReadBy
  <2>2. Mid(o, i, j) \in Seq(Octets) /\ Len(Mid(o, i, j)) = j - i
    BY <1>2, <1>3, MidProperties
  <2> QED
    BY <2>1, <2>2
<1>5. PICK v \in Seq(Octets) : v = Mid(o, i, m) /\ Len(v) = m - i
  BY <1>3, MidProperties
<1>6. PICK b : b = Buffer(r, o, at, k, i)
  OBVIOUS
<1>7. last = Staged("Complete", Parser(k, b), v)
  BY <1>2, <1>5, <1>6, PartlyForm
<1>8. Advance(x, last) = ParseStatic(x, Parser(k, b), v)
  BY <1>1, <1>7 DEF Advance, Staged
<1>9. CASE j <= m
  <2>0. j - i \in 0..m - i /\ i + (j - i) = j
    BY <1>2, <1>3, <1>9, SMTT(40)
  <2>1. PICK n \in 0..m - i : n = Len(w) /\ i + n = j
    BY <1>4, <2>0
  <2>2. Take(v, n) = w /\ Drop(v, n) = Mid(o, j, m)
    BY <1>3, <1>4, <1>5, <2>1, MidTakeDrop
  <2>3. ~TooShort(v, w) /\ StartsWith(v, w)
    BY <1>4, <1>5, <1>9, <2>1, <2>2 DEF TooShort, StartsWith
  <2>4. ParseStatic(x, Parser(k, b), v) = Staged("Complete", Parser(k + 1, b), Mid(o, j, m))
    BY <1>4, <2>1, <2>2, <2>3, NextStage DEF ParseStatic
  <2>5. b = Buffer(r, o, at, k + 1, at[k + 1])
    BY <1>6, BufferKept, ZenonT(40)
  <2> QED
    BY <1>1, <1>2, <1>8, <1>9, <2>4, <2>5, PartlyForm
<1>10. CASE ~(j <= m)
  <2>1. TooShort(v, w)
    BY <1>2, <1>3, <1>4, <1>5, <1>10, SMTT(40) DEF TooShort
  <2>2. ParseStatic(x, Parser(k, b), v) = Staged("NeedMoreData", Parser(k, b), v)
    BY <1>4, <2>1 DEF ParseStatic
  <2> QED
    BY <1>1, <1>2, <1>5, <1>6, <1>8, <1>10, <2>2, PartlyForm
<1> QED
  BY <1>9, <1>10

(* The terminator of a text is nowhere in its part but at the end.         *)
LEMMA OnlyAtEnd ==
  ASSUME NEW r, NEW o, NEW at, Divided(r, o, at), NEW k \in 1..Len(r.actions),
         r.actions[k].kind = "until"
  PROVE  /\ r.actions[k].terminator \in Seq(Octets) /\ ~has_value(r.actions[k].escape)
         /\ Len(r.actions[k].terminator) \in 1..at[k + 1] - at[k]
         /\ \A q \in at[k]..at[k + 1] - Len(r.actions[k].terminator) :
              Mid(o, q, q + Len(r.actions[k].terminator)) = r.actions[k].terminator
                <=> q = at[k + 1] - Len(r.actions[k].terminator)
<1>1. PICK x : x = r.actions[k]
  OBVIOUS
<1>2. PICK i \in 0..Len(o), j \in 0..Len(o) : i = at[k] /\ j = at[k + 1] /\ i < j
  BY Dividing
<1>3. o \in Seq(Octets) /\ i \in 0..j
  BY <1>2 DEF Divided
<1>4. PICK part \in Seq(Octets) : part = Mid(o, i, j) /\ Len(part) = j - i
  BY <1>2, <1>3, MidProperties
<1>5. ReadBy(x, part) /\ x.kind # "static"
  BY <1>1, <1>2, <1>4, Dividing
<1>6. PICK w \in Seq(Octets) : w = x.terminator /\ w # <<>> /\ Len(w) <= Len(part)
  BY <1>5 DEF ReadBy
<1>7. PICK n \in 1..j - i : n = Len(w)
  BY <1>2, <1>4, <1>6, EmptySeq
<1>8. ASSUME NEW q \in i..j - n PROVE Mid(o, q, q + n) = w <=> q = j - n
  <2>0. q - i \in 0..j - i /\ i + (q - i) = q /\ q - i \in 0..(j - i) - n
    BY <1>2, <1>7, SMTT(40)
  <2>1. PICK p \in 0..j - i : p = q - i /\ i + p = q /\ p \in 0..Len(part) - Len(w)
    BY <1>4, <1>7, <2>0
  <2>2. At(part, p, w) <=> p = Len(part) - Len(w)
    BY <1>5, <1>6, <2>1 DEF ReadBy
  <2>3. At(Mid(o, i, j), p, w) <=> i + p + Len(w) <= j /\ Mid(o, i + p, i + p + Len(w)) = w
    BY <1>2, <1>3, <2>1, MidAt
  <2>a. i \in Int /\ j \in Int /\ n \in Int /\ q \in Int /\ p \in Int /\ q <= j - n
    <3>1. Len(o) \in Nat
      BY <1>3
    <3>2. i \in Int /\ j \in Int
      BY <3>1
    <3>3. n \in Int
      BY <3>2
    <3>4. q \in Int /\ q <= j - n
      BY <3>2, <3>3
    <3>5. p \in Int
      BY <3>2
    <3> QED
      BY <3>2, <3>3, <3>4, <3>5
  <2>4. q + n <= j /\ (p = (j - i) - n <=> q = j - n)
    <3>1. i + p = q
      BY <2>1
    <3> QED
      BY ONLY <2>a, <3>1
  <2> QED
    BY <1>4, <1>7, <2>1, <2>2, <2>3, <2>4
<1>9. ~has_value(x.escape)
  BY <1>5 DEF ReadBy
<1> QED
  BY <1>1, <1>2, <1>6, <1>7, <1>8, <1>9
-----------------------------------------------------------------------------
(* Where the text of a part ends.                                          *)
TextEnds(r, o, at, k, i, j, e, w) ==
  /\ i = at[k] /\ j = at[k + 1] /\ w = r.actions[k].terminator /\ e \in i..j - 1
  /\ e + Len(w) = j /\ e = j - Len(w) /\ Len(w) \in Nat
  /\ \A q \in i..e : Mid(o, q, q + Len(w)) = w <=> q = e

LEMMA EndOfText ==
  ASSUME NEW r, NEW o, NEW at, Divided(r, o, at), NEW k \in 1..Len(r.actions),
         r.actions[k].kind = "until"
  PROVE  \E i, j \in 0..Len(o), e \in Nat, w \in Seq(Octets) : TextEnds(r, o, at, k, i, j, e, w)
<1>1. PICK i \in 0..Len(o), j \in 0..Len(o) : i = at[k] /\ j = at[k + 1] /\ i < j
  BY Dividing
<1>2. PICK w \in Seq(Octets) : w = r.actions[k].terminator
  BY OnlyAtEnd
<1>3. PICK n \in Int : n = Len(w)
  BY <1>2
<1>4. i \in Int /\ j \in Int
  BY DEF Divided
<1>5. n \in 1..j - i
  BY <1>1, <1>2, <1>3, OnlyAtEnd
<1>6. PICK e \in Int : e = j - n
  BY <1>4, <1>3
<1>7. e \in i..j - 1 /\ e + n = j /\ n \in Nat /\ e \in Nat
  BY <1>4, <1>5, <1>6
<1>8. \A q \in i..e : Mid(o, q, q + n) = w <=> q = e
  BY <1>1, <1>2, <1>3, <1>6, OnlyAtEnd, SMTT(40)
<1>9. /\ i = at[k] /\ j = at[k + 1] /\ w = r.actions[k].terminator /\ e \in i..j - 1
      /\ e + Len(w) = j /\ e = j - Len(w) /\ Len(w) \in Nat
      /\ \A q \in i..e : Mid(o, q, q + Len(w)) = w <=> q = e
  BY <1>1, <1>2, <1>3, <1>6, <1>7, <1>8
<1>10. TextEnds(r, o, at, k, i, j, e, w)
  BY <1>9 DEF TextEnds
<1> QED
  BY <1>7, <1>10

(* A text that is shown up to its end or further is kept, and consumed     *)
(* with its terminator.                                                    *)
LEMMA AdvanceUntil ==
  ASSUME NEW r, NEW o, NEW at, Divided(r, o, at), NEW k \in 1..Len(r.actions),
         r.actions[k].kind = "until",
         NEW c \in at[k]..at[k + 1] - Len(r.actions[k].terminator), NEW m \in at[k + 1]..Len(o),
         NEW last, last = Staged("Complete", Partly(r, o, at, k, c), Mid(o, c, m))
  PROVE  Advance(r.actions[k], last)
           = Staged("Complete", Partly(r, o, at, k + 1, at[k + 1]), Mid(o, at[k + 1], m))
<1>1. PICK x : x = r.actions[k]
  OBVIOUS
<1>0. PICK i, j \in 0..Len(o), e \in Nat, w \in Seq(Octets) : TextEnds(r, o, at, k, i, j, e, w)
  BY EndOfText
<1>2. /\ i = at[k] /\ j = at[k + 1] /\ w = x.terminator /\ e \in i..j - 1
      /\ e + Len(w) = j /\ e = j - Len(w) /\ Len(w) \in Nat
      /\ \A q \in i..e : Mid(o, q, q + Len(w)) = w <=> q = e
  BY <1>0, <1>1 DEF TextEnds
<1>3. PICK n \in Nat : n = Len(w)
  BY <1>2
<1>4. o \in Seq(Octets) /\ Len(o) \in Nat
  BY DEF Divided
<1>5. /\ i \in Nat /\ j \in Nat /\ e \in Nat /\ c \in Nat /\ m \in Nat
      /\ i <= c /\ c <= e /\ e < j /\ e + n = j /\ j <= m /\ m <= Len(o)
  <2>1. i \in Nat /\ j \in Nat
    BY <1>4
  <2>2. e \in Nat /\ e < j
    BY <1>2, <2>1
  <2>3. c \in i..e /\ m \in j..Len(o)
    BY <1>1, <1>2
  <2>4. c \in Nat /\ m \in Nat
    BY <1>4, <2>1, <2>2, <2>3
  <2> QED
    BY <1>2, <1>3, <1>4, <2>1, <2>2, <2>3, <2>4
<1>6. m \in 0..Len(o) /\ c \in 0..m
  BY <1>4, <1>5
<1>7. PICK v \in Seq(Octets) : v = Mid(o, c, m) /\ Len(v) = m - c
  BY <1>4, <1>6, MidProperties
<1>8. PICK pos \in Nat : pos = e - c
  BY <1>5
<1>9. pos \in 0..Len(v) - n
  BY <1>5, <1>7, <1>8
<1>10. ASSUME NEW p \in 0..pos PROVE At(v, p, w) <=> p = pos
  <2>1. p \in 0..m - c /\ c + p \in i..e /\ c + p + n <= m /\ (c + p = e <=> p = pos)
    BY <1>5, <1>8
  <2>2. At(v, p, w) <=> c + p + n <= m /\ Mid(o, c + p, c + p + n) = w
    BY <1>3, <1>4, <1>6, <1>7, <2>1, MidAt, SMTT(40)
  <2>3. PICK q \in i..e : q = c + p
    BY <2>1
  <2>4. Mid(o, q, q + n) = w <=> q = e
    BY <1>2, <1>3
  <2> QED
    BY <2>1, <2>2, <2>3, <2>4
<1>11. Search(x, v) = [found |-> TRUE, text |-> Take(v, pos), rest |-> Drop(v, pos + n)]
  <2>1. ~has_value(x.escape)
    BY <1>1, OnlyAtEnd
  <2>2. pos \in 0..Len(v) - Len(w) /\ At(v, pos, w)
    BY <1>3, <1>9, <1>10
  <2>3. \A p \in 0..pos - 1 : p \in 0..pos /\ p # pos
    OBVIOUS
  <2>4. \A p \in 0..pos - 1 : ~At(v, p, w)
    BY <1>10, <2>3
  <2> QED
    BY <1>2, <1>3, <2>1, <2>2, <2>4, SearchFirst
<1>12. Take(v, pos) = Mid(o, c, e)
  <2>1. pos \in 0..m - c /\ c + pos = e
    BY <1>5, <1>8
  <2> QED
    BY <1>4, <1>6, <1>7, <2>1, MidTakeDrop
<1>13. Drop(v, pos + n) = Mid(o, j, m)
  <2>1. PICK l \in 0..m - c : l = pos + n /\ c + l = j
    <3>1. pos + n \in 0..m - c /\ c + (pos + n) = j
      BY <1>5, <1>8
    <3> QED
      BY <3>1
  <2> QED
    BY <1>4, <1>6, <1>7, <2>1, MidTakeDrop
<1>14. PICK s : /\ s = Search(x, v)
               /\ s.found = TRUE /\ s.text = Mid(o, c, e) /\ s.rest = Mid(o, j, m)
  BY <1>11, <1>12, <1>13, SMTT(40)
<1>15. PICK b : b = Buffer(r, o, at, k, c)
  OBVIOUS
<1>16. Keep(Parser(k, b), x.path[1], s.text) = Parser(k, Buffer(r, o, at, k, e))
  <2>1. Grown(b, x.path[1], Mid(o, c, e)) = Buffer(r, o, at, k, e)
    <3>1. e \in 0..Len(o) /\ c \in at[k]..e
      BY <1>2, <1>4, <1>5
    <3> QED
      BY <1>1, <1>15, <3>1, BufferGrows
  <2> QED
    BY <1>14, <2>1, KeepForm
<1>17. Buffer(r, o, at, k, e) = Buffer(r, o, at, k + 1, j)
  <2>1. e = at[k + 1] - Len(r.actions[k].terminator)
    BY <1>1, <1>2
  <2>2. Buffer(r, o, at, k, e) = Buffer(r, o, at, k + 1, at[k + 1])
    BY <2>1, BufferKept
  <2> QED
    BY <1>2, <2>2
<1>18. KeepText(x, Parser(k, b), s)
         = Staged("Complete", Parser(k + 1, Buffer(r, o, at, k + 1, j)), Mid(o, j, m))
  BY <1>14, <1>16, <1>17, NextStage, SMTT(40) DEF KeepText
<1>19. last = Staged("Complete", Parser(k, b), v)
  BY <1>7, <1>15, PartlyForm
<1>20. Advance(x, last) = KeepText(x, Parser(k, b), s)
  BY <1>1, <1>14, <1>19 DEF Advance, Staged, ParseUntil
<1> QED
  BY <1>1, <1>2, <1>18, <1>20, PartlyForm

(* One that is not shown to its end is kept and consumed as far as it is   *)
(* shown; the terminator is not begun yet.                                 *)
LEMMA AdvanceWaits ==
  ASSUME NEW r, NEW o, NEW at, Divided(r, o, at), NEW k \in 1..Len(r.actions),
         r.actions[k].kind = "until",
         NEW c \in Nat, NEW m \in Nat, at[k] <= c, c <= m,
         m <= at[k + 1] - Len(r.actions[k].terminator),
         NEW last, last = Staged("Complete", Partly(r, o, at, k, c), Mid(o, c, m))
  PROVE  Advance(r.actions[k], last)
           = Staged("NeedMoreData", Partly(r, o, at, k, m), Mid(o, m, m))
<1>1. PICK x : x = r.actions[k]
  OBVIOUS
<1>0. PICK i, j \in 0..Len(o), e \in Nat, w \in Seq(Octets) : TextEnds(r, o, at, k, i, j, e, w)
  BY EndOfText
<1>2. /\ i = at[k] /\ j = at[k + 1] /\ w = x.terminator /\ e \in i..j - 1
      /\ e + Len(w) = j /\ e = j - Len(w) /\ Len(w) \in Nat
      /\ \A q \in i..e : Mid(o, q, q + Len(w)) = w <=> q = e
  BY <1>0, <1>1 DEF TextEnds
<1>3. PICK n \in Nat : n = Len(w)
  BY <1>2
<1>4. o \in Seq(Octets) /\ Len(o) \in Nat
  BY DEF Divided
<1>5. /\ i \in Nat /\ j \in Nat /\ e \in Nat /\ c \in Nat /\ m \in Nat
      /\ i <= c /\ c <= e /\ e < j /\ e + n = j /\ j <= Len(o) /\ c <= m /\ m <= e
  <2>1. i \in Nat /\ j \in Nat /\ j <= Len(o)
    BY <1>4
  <2>2. e \in Nat /\ e < j
    BY <1>2, <2>1
  <2>3. i <= c /\ m <= e
    BY <1>1, <1>2
  <2>4. c <= e
    BY <2>1, <2>2, <2>3
  <2>5. c \in Nat
    BY <2>1, <2>2, <2>3
  <2> QED
    BY <1>2, <1>3, <1>4, <2>1, <2>2, <2>3, <2>4, <2>5
<1>6. m \in 0..Len(o) /\ c \in 0..m
  BY <1>4, <1>5
<1>7. PICK v \in Seq(Octets) : v = Mid(o, c, m) /\ Len(v) = m - c
  BY <1>4, <1>6, MidProperties
<1>8. ASSUME NEW p \in 0..Len(v) - n PROVE ~At(v, p, w)
  <2>1. p \in 0..m - c /\ c + p \in i..e /\ c + p # e
    <3>1. p \in 0..(m - c) - n
      BY <1>7
    <3>2. n > 0
      BY <1>5
    <3>3. p \in Nat /\ p + n <= m - c
      BY <1>5, <3>1
    <3> QED
      BY <1>5, <3>2, <3>3
  <2>2. At(v, p, w) => Mid(o, c + p, c + p + n) = w
    BY <1>3, <1>4, <1>6, <1>7, <2>1, MidAt
  <2>3. PICK q \in i..e : q = c + p
    BY <2>1
  <2>4. Mid(o, q, q + n) = w <=> q = e
    BY <1>2, <1>3
  <2> QED
    BY <2>1, <2>2, <2>3, <2>4
<1>9. Search(x, v) = [found |-> FALSE, text |-> v, rest |-> <<>>]
  <2>1. ~has_value(x.escape)
    BY <1>1, OnlyAtEnd
  <2>2. \A p \in 0..Len(v) - Len(w) : ~At(v, p, w)
    BY <1>3, <1>8
  <2> QED
    BY <1>2, <2>1, <2>2, SearchNone
<1>10. PICK s : s = Search(x, v) /\ s.found = FALSE /\ s.text = Mid(o, c, m)
  BY <1>7, <1>9
<1>11. PICK b : b = Buffer(r, o, at, k, c)
  OBVIOUS
<1>12. Keep(Parser(k, b), x.path[1], s.text) = Parser(k, Buffer(r, o, at, k, m))
  <2>1. Grown(b, x.path[1], Mid(o, c, m)) = Buffer(r, o, at, k, m)
    <3>1. c \in at[k]..m
      BY <1>2, <1>5
    <3> QED
      BY <1>1, <1>6, <1>11, <3>1, BufferGrows
  <2> QED
    BY <1>10, <2>1, KeepForm
<1>13. <<>> = Mid(o, m, m)
  BY <1>5, <1>6 DEF Mid
<1>14. KeepText(x, Parser(k, b), s)
         = Staged("NeedMoreData", Parser(k, Buffer(r, o, at, k, m)), Mid(o, m, m))
  BY <1>10, <1>12, <1>13 DEF KeepText
<1>15. last = Staged("Complete", Parser(k, b), v)
  BY <1>7, <1>11, PartlyForm
<1>16. Advance(x, last) = KeepText(x, Parser(k, b), s)
  BY <1>1, <1>10, <1>15 DEF Advance, Staged, ParseUntil
<1> QED
  BY <1>1, <1>14, <1>16, PartlyForm
-----------------------------------------------------------------------------
(* The parser waits in stage k for more than m octets, of which it has     *)
(* consumed c. No cut is within a terminator.                              *)
Waits(r, o, at, m, k, c) ==
  /\ k \in 1..Len(r.actions) /\ c \in Nat /\ at[k] <= c /\ c <= m /\ m < at[k + 1]
  /\ r.actions[k].kind = "static" => c = at[k]
  /\ r.actions[k].kind = "until" => c = m

Uncut(r, o, at, m) ==
  \A k \in 1..Len(r.actions) :
    r.actions[k].kind = "until" /\ m < at[k + 1]
      => m <= at[k + 1] - Len(r.actions[k].terminator)

(* Shown m octets, the parser is at stage i, or waits.                     *)
Gone(r, o, at, m, c, i, d, last) ==
  /\ d \in Nat /\ c <= d /\ d <= m /\ at[i] <= d
  /\ i \in DOMAIN r.actions /\ r.actions[i].kind = "static" => d = at[i]
  /\ i \in DOMAIN r.actions /\ r.actions[i].kind = "until"
       => d <= at[i + 1] - Len(r.actions[i].terminator)
  /\ last = Staged("Complete", Partly(r, o, at, i, d), Mid(o, d, m))

Stuck(r, o, at, m, c, k, d, last) ==
  /\ Waits(r, o, at, m, k, d) /\ c <= d
  /\ last = Staged("NeedMoreData", Partly(r, o, at, k, d), Mid(o, d, m))

Reached(r, o, at, m, c, i, last) ==
  \/ \E d \in Nat : Gone(r, o, at, m, c, i, d, last)
  \/ \E k, d \in Nat : Stuck(r, o, at, m, c, k, d, last)

(* A stage may begin with its part: no terminator begins before.           *)
LEMMA StageBegins ==
  ASSUME NEW r, NEW o, NEW at, Divided(r, o, at), NEW m \in 0..Len(o), NEW c \in Nat,
         NEW i \in 1..Len(r.actions) + 1, at[i] <= m, c <= at[i],
         NEW last, last = Staged("Complete", Partly(r, o, at, i, at[i]), Mid(o, at[i], m))
  PROVE  Reached(r, o, at, m, c, i, last)
<1>1. DOMAIN r.actions = 1..Len(r.actions) /\ Len(r.actions) \in Nat /\ o \in Seq(Octets)
      /\ at[i] \in 0..Len(o)
  BY DEF Divided, Divides
<1>2. PICK d \in Nat : d = at[i]
  BY <1>1
<1>3. i \in DOMAIN r.actions /\ r.actions[i].kind = "until"
        => d <= at[i + 1] - Len(r.actions[i].terminator)
  <2> SUFFICES ASSUME i \in 1..Len(r.actions), r.actions[i].kind = "until"
               PROVE  d <= at[i + 1] - Len(r.actions[i].terminator)
    BY <1>1
  <2>1. PICK i1, j1 \in 0..Len(o), e \in Nat, w \in Seq(Octets) : TextEnds(r, o, at, i, i1, j1, e, w)
    BY EndOfText
  <2>2. i1 = d /\ e \in i1..j1 - 1 /\ e = at[i + 1] - Len(r.actions[i].terminator)
    BY <1>2, <2>1 DEF TextEnds
  <2>3. d <= e
    BY <1>1, <2>2
  <2> QED
    BY <2>2, <2>3
<1>4. Gone(r, o, at, m, c, i, d, last)
  <2>1. d <= m /\ c <= d /\ at[i] <= d
    BY <1>2
  <2> QED
    BY <1>2, <1>3, <2>1 DEF Gone
<1> QED
  BY <1>4 DEF Reached

LEMMA StageGoesOn ==
  ASSUME NEW r, NEW o, NEW at, Divided(r, o, at), NEW m \in 0..Len(o), NEW c \in Nat,
         Uncut(r, o, at, m), NEW i \in 1..Len(r.actions), NEW last,
         Reached(r, o, at, m, c, i, last)
  PROVE  Reached(r, o, at, m, c, i + 1, Advance(r.actions[i], last))
<1>0. /\ DOMAIN r.actions = 1..Len(r.actions) /\ Len(r.actions) \in Nat
      /\ o \in Seq(Octets) /\ Len(o) \in Nat /\ m \in Nat /\ i \in Nat
      /\ i + 1 \in 1..Len(r.actions) + 1
  BY DEF Divided, Divides
<1>1. CASE \E k, d \in Nat : Stuck(r, o, at, m, c, k, d, last)
  <2>1. PICK k, d \in Nat : Stuck(r, o, at, m, c, k, d, last)
    BY <1>1
  <2>2. Advance(r.actions[i], last) = last
    BY <2>1 DEF Stuck, Advance, Staged
  <2> QED
    BY <2>1, <2>2 DEF Reached
<1>2. CASE \E d \in Nat : Gone(r, o, at, m, c, i, d, last)
  <2>1. PICK d \in Nat : Gone(r, o, at, m, c, i, d, last)
    BY <1>2
  <2>2. at[i] \in Nat /\ at[i + 1] \in Nat /\ at[i] < at[i + 1] /\ at[i + 1] <= Len(o)
    BY <1>0, Dividing
  <2>3. PICK next : next = Advance(r.actions[i], last)
    OBVIOUS
  <2>4. PICK b, n \in Nat : b = at[i] /\ n = at[i + 1]
    BY <2>2
  <2>5. /\ c <= d /\ d <= m /\ b <= d
        /\ last = Staged("Complete", Partly(r, o, at, i, d), Mid(o, d, m))
        /\ r.actions[i].kind = "static" => d = b
        /\ r.actions[i].kind = "until" => d <= n - Len(r.actions[i].terminator)
    BY <1>0, <2>1, <2>4 DEF Gone
  <2>6. CASE r.actions[i].kind = "static"
    <3>1. m \in at[i]..Len(o)
      BY <1>0, <2>4, <2>5, <2>6
    <3>2. next = IF n <= m
                   THEN Staged("Complete", Partly(r, o, at, i + 1, n), Mid(o, n, m))
                   ELSE Staged("NeedMoreData", Partly(r, o, at, i, b), Mid(o, b, m))
      BY <2>3, <2>4, <2>5, <2>6, <3>1, AdvanceStatic, SMTT(40)
    <3>3. CASE n <= m
      <4>1. c <= n
        BY <2>2, <2>4, <2>5, <2>6
      <4> QED
        BY <1>0, <2>3, <2>4, <3>2, <3>3, <4>1, StageBegins
    <3>4. CASE ~(n <= m)
      <4>1. m < n
        BY <1>0, <3>4
      <4>2. Waits(r, o, at, m, i, b)
        BY <2>4, <2>5, <2>6, <4>1 DEF Waits
      <4>3. Stuck(r, o, at, m, c, i, b, next)
        BY <2>5, <2>6, <3>2, <3>4, <4>2 DEF Stuck
      <4> QED
        BY <1>0, <2>3, <4>3 DEF Reached
    <3> QED
      BY <3>3, <3>4
  <2>7. CASE r.actions[i].kind = "until"
    <3>1. PICK i1, j1 \in 0..Len(o), e \in Nat, w \in Seq(Octets) :
            TextEnds(r, o, at, i, i1, j1, e, w)
      BY <2>7, EndOfText
    <3>2. e = at[i + 1] - Len(r.actions[i].terminator) /\ e \in b..n - 1
      BY <2>4, <3>1 DEF TextEnds
    <3>3. d \in at[i]..at[i + 1] - Len(r.actions[i].terminator) /\ d <= e
      BY <2>4, <2>5, <2>7, <3>2
    <3>4. CASE n <= m
      <4>1. m \in at[i + 1]..Len(o)
        BY <1>0, <2>4, <3>4
      <4>2. next = Staged("Complete", Partly(r, o, at, i + 1, n), Mid(o, n, m))
        BY <2>3, <2>4, <2>5, <2>7, <3>3, <4>1, AdvanceUntil, SMTT(40)
      <4>3. c <= n
        BY <2>5, <3>2, <3>3
      <4> QED
        BY <1>0, <2>3, <2>4, <3>4, <4>2, <4>3, StageBegins
    <3>5. CASE ~(n <= m)
      <4>1. m < n
        BY <1>0, <3>5
      <4>2. m <= e
        BY <2>4, <2>7, <3>2, <4>1 DEF Uncut
      <4>3. d <= m /\ at[i] <= d /\ m <= at[i + 1] - Len(r.actions[i].terminator)
        BY <2>4, <2>5, <3>2, <4>2
      <4>4. next = Staged("NeedMoreData", Partly(r, o, at, i, m), Mid(o, m, m))
        BY <1>0, <2>3, <2>5, <2>7, <4>3, AdvanceWaits, SMTT(40)
      <4>5. at[i] <= m /\ c <= m
        BY <1>0, <2>4, <2>5, SMTT(40)
      <4>6. Waits(r, o, at, m, i, m)
        BY <1>0, <2>4, <2>7, <4>1, <4>5 DEF Waits
      <4>7. Stuck(r, o, at, m, c, i, m, next)
        BY <4>4, <4>5, <4>6 DEF Stuck
      <4> QED
        BY <1>0, <2>3, <4>7 DEF Reached
    <3> QED
      BY <3>4, <3>5
  <2>8. r.actions[i].kind \in {"static", "until"}
    BY Dividing DEF ReadBy
  <2> QED
    BY <2>6, <2>7, <2>8
<1> QED
  BY <1>1, <1>2 DEF Reached
-----------------------------------------------------------------------------
(* What parse() returns.                                                   *)
Ended(p, done) == [p EXCEPT !.complete = done]

LEMMA ReturnedForm ==
  ASSUME NEW input, NEW p, NEW rest
  PROVE  /\ Returned(input, Staged("Complete", p, rest))
              = ParseResult("Complete", Len(input) - Len(rest), Ended(p, TRUE))
         /\ Returned(input, Staged("NeedMoreData", p, rest))
              = ParseResult("NeedMoreData", Len(input) - Len(rest), Ended(p, FALSE))
<1>1. ("Complete" = "Complete") = TRUE /\ ("NeedMoreData" = "Complete") = FALSE
  OBVIOUS
<1> QED
  BY <1>1 DEF Returned, Staged, Ended

LEMMA NotEnded ==
  ASSUME NEW k, NEW b
  PROVE  Ended(Parser(k, b), FALSE) = Parser(k, b)
<1> DEFINE P == {"stage", "complete", "buffer"}
<1>1. PICK x : x = Parser(k, b)
  OBVIOUS
<1>2. PICK y : y = Ended(x, FALSE)
  OBVIOUS
<1>3. x.stage = k /\ x.complete = FALSE /\ x.buffer = b /\ x = [f \in P |-> x[f]]
  BY <1>1 DEF Parser
<1>4. y.stage = k /\ y.complete = FALSE /\ y.buffer = b /\ y = [f \in P |-> y[f]]
  BY <1>2, <1>3 DEF Ended
<1>5. y = Parser(k, b)
  BY <1>4 DEF Parser
<1> QED
  BY <1>1, <1>2, <1>5

Whole(r, o, at) == Ended(Partly(r, o, at, Len(r.actions) + 1, Len(o)), TRUE)

Parsed(r, o, at, c, m, result) ==
  /\ m = Len(o) => result = ParseResult("Complete", m - c, Whole(r, o, at))
  /\ m # Len(o) =>
       \E h, d \in Nat :
         /\ Waits(r, o, at, m, h, d) /\ c <= d
         /\ result = ParseResult("NeedMoreData", d - c, Partly(r, o, at, h, d))

(* Shown more octets, a parser that waits waits again, or is done with the *)
(* last of them.                                                           *)
LEMMA ParsePlain ==
  ASSUME NEW r, NEW o, NEW at, Divided(r, o, at), NEW j \in Nat, NEW m \in Nat, j < m, m <= Len(o),
         NEW k \in Nat, NEW c \in Nat, Waits(r, o, at, j, k, c),
         Uncut(r, o, at, j), Uncut(r, o, at, m), NEW p, p = Partly(r, o, at, k, c),
         NEW v, v = Mid(o, c, m)
  PROVE  Parsed(r, o, at, c, m, parse(r, p, v))
<1> USE DEF Parsed
<1>0. /\ DOMAIN r.actions = 1..Len(r.actions) /\ Len(r.actions) \in Nat
      /\ o \in Seq(Octets) /\ Len(o) \in Nat /\ j \in Nat
      /\ k \in 1..Len(r.actions) /\ at[Len(r.actions) + 1] = Len(o)
  BY DEF Divided, Divides, Waits
<1>1. m \in Nat /\ m <= Len(o) /\ j < m /\ c <= j
  BY <1>0 DEF Waits
<1>2. PICK end \in Nat : end = Len(r.actions) + 1 /\ k < end
  BY <1>0
<1>4. p.stage = k
  BY DEF Partly
<1>5. m \in 0..Len(o) /\ c \in 0..m
  BY <1>1
<1>6. v \in Seq(Octets) /\ Len(v) = m - c
  BY <1>0, <1>5, MidProperties
<1>7. PICK S : S = Stages(r, p, v)
  OBVIOUS
<1>8. /\ S[k] = Staged("Complete", p, v)
      /\ \A i \in k + 1..end : S[i] = Advance(r.actions[i - 1], S[i - 1])
  BY <1>2, <1>4, <1>7, StagesDefined
<1>9. Reached(r, o, at, m, c, k, S[k])
  <2>1. r.actions[k].kind = "until" => c <= at[k + 1] - Len(r.actions[k].terminator)
    BY <1>0 DEF Waits, Uncut
  <2>2. Gone(r, o, at, m, c, k, c, S[k])
    BY <1>0, <1>1, <1>6, <1>8, <2>1 DEF Waits, Gone
  <2> QED
    BY <2>2 DEF Reached
<1>10. \A i \in k..end : Reached(r, o, at, m, c, i, S[i])
  <2> DEFINE Bad == {i \in k..end : ~Reached(r, o, at, m, c, i, S[i])}
  <2> SUFFICES ASSUME Bad # {} PROVE FALSE
    OBVIOUS
  <2>1. PICK i \in Bad : \A h \in Bad : i <= h
    <3>1. Bad \in SUBSET Nat
      OBVIOUS
    <3> HIDE DEF Bad
    <3> QED
      BY <3>1, LeastNatural
  <2>2. i \in k + 1..end
    BY <1>9, <2>1
  <2>3. PICK h \in Nat : h = i - 1 /\ h + 1 = i /\ h \in k..end /\ h \in 1..Len(r.actions)
    BY <1>0, <1>2, <2>2
  <2>4. Reached(r, o, at, m, c, h, S[h])
    BY <2>1, <2>3
  <2>5. Reached(r, o, at, m, c, h + 1, Advance(r.actions[h], S[h]))
    BY <1>5, <2>3, <2>4, StageGoesOn
  <2>6. S[i] = Advance(r.actions[h], S[h])
    BY <1>8, <2>2, <2>3
  <2> QED
    BY <2>1, <2>3, <2>5, <2>6
<1>11. Reached(r, o, at, m, c, end, S[end])
  BY <1>2, <1>10
<1>12. parse(r, p, v) = Returned(v, S[end])
  BY <1>2, <1>7 DEF parse
<1>13. CASE \E d \in Nat : Gone(r, o, at, m, c, end, d, S[end])
  <2>1. PICK d \in Nat : Gone(r, o, at, m, c, end, d, S[end])
    BY <1>13
  <2>2. d = Len(o) /\ m = Len(o) /\ S[end] = Staged("Complete", Partly(r, o, at, end, d), Mid(o, d, m))
    BY <1>0, <1>1, <1>2, <2>1 DEF Gone
  <2>3. Len(Mid(o, d, m)) = 0
    <3>1. m \in 0..Len(o) /\ m \in 0..m /\ m - m = 0
      BY <1>5
    <3>2. Len(Mid(o, m, m)) = m - m
      BY <1>0, <3>1, MidProperties
    <3> QED
      BY <2>2, <3>1, <3>2
  <2>4. Len(v) - Len(Mid(o, d, m)) = m - c
    BY <1>1, <1>6, <2>3
  <2>5. parse(r, p, v) = ParseResult("Complete", m - c, Whole(r, o, at))
    <3>1. PICK e, u : e = Partly(r, o, at, end, d) /\ u = Mid(o, d, m)
      OBVIOUS
    <3>2. Returned(v, Staged("Complete", e, u))
            = ParseResult("Complete", Len(v) - Len(u), Ended(e, TRUE))
      BY ReturnedForm
    <3>3. Ended(e, TRUE) = Whole(r, o, at)
      BY <1>2, <2>2, <3>1 DEF Whole
    <3>4. S[end] = Staged("Complete", e, u) /\ Len(v) - Len(u) = m - c
      BY <2>2, <2>4, <3>1
    <3>5. parse(r, p, v) = ParseResult("Complete", m - c, Ended(e, TRUE))
      BY <1>12, <3>2, <3>4
    <3> QED
      BY <3>3, <3>5
  <2> QED
    BY <2>2, <2>5
<1>14. CASE \E h, d \in Nat : Stuck(r, o, at, m, c, h, d, S[end])
  <2>1. PICK h, d \in Nat : Stuck(r, o, at, m, c, h, d, S[end])
    BY <1>14
  <2>2. /\ Waits(r, o, at, m, h, d) /\ c <= d
        /\ S[end] = Staged("NeedMoreData", Partly(r, o, at, h, d), Mid(o, d, m))
    BY <2>1 DEF Stuck
  <2>3. d <= m /\ m < at[h + 1] /\ h \in 1..Len(r.actions)
    BY <2>2 DEF Waits
  <2>4. m < Len(o)
    BY <1>0, <1>1, <2>3, Dividing
  <2>5. Len(Mid(o, d, m)) = m - d
    <3>1. d \in 0..m
      BY <1>1, <2>3
    <3> QED
      BY <1>0, <1>5, <3>1, MidProperties
  <2>6. Len(v) - Len(Mid(o, d, m)) = d - c
    BY <1>1, <1>6, <2>5
  <2>7. parse(r, p, v) = ParseResult("NeedMoreData", d - c, Ended(Partly(r, o, at, h, d), FALSE))
    BY <1>12, <2>2, <2>6, ReturnedForm
  <2>8. Ended(Partly(r, o, at, h, d), FALSE) = Partly(r, o, at, h, d)
    BY PartlyForm, NotEnded
  <2>9. parse(r, p, v) = ParseResult("NeedMoreData", d - c, Partly(r, o, at, h, d))
    BY <2>7, <2>8
  <2>10. m # Len(o)
    BY <1>1, <2>4
  <2> QED
    BY <2>2, <2>9, <2>10
<1> QED
  BY <1>11, <1>13, <1>14 DEF Reached
-----------------------------------------------------------------------------
(* No terminator of the octets is across their m-th.                       *)
Across(o, m, d, p) ==
  /\ d \in Delimiters /\ d \in Seq(Octets) /\ p \in Nat /\ p < m /\ m < p + Len(d)
  /\ p + Len(d) <= Len(o) /\ Mid(o, p, p + Len(d)) = d

Clean(o, m) == ~\E d, p : Across(o, m, d, p)

LEMMA CleanStarts ==
  ASSUME NEW o PROVE Clean(o, 0)
BY DEF Clean, Across

LEMMA CleanGoesOn ==
  ASSUME NEW o \in Seq(Octets), NEW j \in Nat, NEW m \in Nat, j < m, m <= Len(o),
         Clean(o, j), CutAllowed(Drop(o, j), m - j)
  PROVE  Clean(o, m)
<1> SUFFICES ASSUME NEW d, NEW p, Across(o, m, d, p) PROVE FALSE
  BY DEF Clean
<1>1. /\ d \in Delimiters /\ d \in Seq(Octets) /\ p \in Nat /\ p < m /\ m < p + Len(d)
      /\ p + Len(d) <= Len(o) /\ Mid(o, p, p + Len(d)) = d
  BY DEF Across
<1>2. PICK n \in Nat : n = Len(d)
  BY <1>1
<1>3. Len(o) \in Nat /\ Len(o) \in 0..Len(o) /\ j \in 0..Len(o)
  OBVIOUS
<1>4. CASE p < j
  <2>1. j < p + n
    BY <1>1, <1>2
  <2>2. Across(o, j, d, p)
    BY <1>1, <1>2, <1>4, <2>1 DEF Across
  <2> QED
    BY <2>2 DEF Clean
<1>5. CASE ~(p < j)
  <2>1. PICK h \in Nat : h = p - j /\ j + h = p
    BY <1>1, <1>5
  <2>2. h \in 0..(m - j) - 1 /\ h + n > m - j
    BY <1>1, <1>2, <2>1
  <2>3. h \in 0..Len(o) - j
    BY <1>1, <1>2, <1>3, <2>1
  <2>4. Drop(o, j) = Mid(o, j, Len(o))
    BY <1>3, TakeDrop
  <2>5. At(Mid(o, j, Len(o)), h, d)
    <3>1. j + h + Len(d) <= Len(o) /\ Mid(o, j + h, j + h + Len(d)) = d
      BY <1>1, <2>1
    <3> QED
      BY <1>1, <1>3, <2>3, <3>1, MidAt
  <2> QED
    BY <1>1, <1>2, <2>2, <2>4, <2>5 DEF CutAllowed
<1> QED
  BY <1>4, <1>5

LEMMA CleanUncut ==
  ASSUME NEW r, NEW o, NEW at, Divided(r, o, at), NEW m \in 0..Len(o), Clean(o, m),
         \A k \in 1..Len(r.actions) :
           r.actions[k].kind = "until" => r.actions[k].terminator \in Delimiters
  PROVE  Uncut(r, o, at, m)
<1> SUFFICES ASSUME NEW k \in 1..Len(r.actions), r.actions[k].kind = "until", m < at[k + 1],
                    ~(m <= at[k + 1] - Len(r.actions[k].terminator))
             PROVE  FALSE
  BY DEF Uncut
<1>1. PICK i, j \in 0..Len(o), e \in Nat, w \in Seq(Octets) : TextEnds(r, o, at, k, i, j, e, w)
  BY EndOfText
<1>2. /\ w = r.actions[k].terminator /\ j = at[k + 1] /\ e = j - Len(w) /\ e \in i..j - 1
      /\ e + Len(w) = j /\ i \in 0..Len(o)
      /\ \A q \in i..e : Mid(o, q, q + Len(w)) = w <=> q = e
  BY <1>1 DEF TextEnds
<1>3. PICK n \in Nat : n = Len(w)
  BY <1>2
<1>4. Mid(o, e, e + Len(w)) = w
  BY <1>2, SMTT(40)
<1>5. e < m /\ m < e + Len(w) /\ e + Len(w) <= Len(o)
  <2>1. Len(o) \in Nat /\ m \in Nat
    BY DEF Divided
  <2>2. ~(m <= e) /\ m < j
    BY <1>2
  <2> QED
    BY <1>2, <2>1, <2>2
<1>6. Across(o, m, w, e)
  BY <1>2, <1>4, <1>5 DEF Across
<1> QED
  BY <1>6 DEF Clean
-----------------------------------------------------------------------------
(* The parser of a message that begins with an octet that is not shown.    *)
LEMMA OtherFails ==
  ASSUME NEW r, NEW o, Unlike(r, o), NEW v \in Seq(Octets), v # <<>>, v[1] \in Range(o)
  PROVE  parse(r, NewParser(r), v).status = "Error"
<1>0. /\ r.actions \in Seq(Range(r.actions)) /\ r.actions # <<>> /\ r.actions[1].kind = "static"
      /\ Len(r.actions) \in Nat
  BY DEF Unlike
<1>1. PICK b \in Octets : r.actions[1].octets = <<b>> /\ b \notin Range(o)
  BY DEF Unlike
<1>2. PICK p : p = NewParser(r)
  OBVIOUS
<1>3. p.stage = 1
  BY <1>2 DEF NewParser
<1>4. PICK end \in Nat : end = Len(r.actions) + 1 /\ 2 <= end
  BY <1>0
<1>5. PICK S : S = Stages(r, p, v)
  OBVIOUS
<1>6. /\ S[1] = Staged("Complete", p, v)
      /\ \A i \in 1 + 1..end : S[i] = Advance(r.actions[i - 1], S[i - 1])
  BY <1>3, <1>4, <1>5, StagesDefined
<1>7. S[2] = Staged("Error", p, v)
  <2>1. 2 \in 1 + 1..end /\ 2 - 1 = 1
    BY <1>4
  <2>2. S[2] = Advance(r.actions[1], S[1])
    BY <1>6, <2>1
  <2>3. S[2] = ParseStatic(r.actions[1], p, v)
    BY <1>0, <1>6, <2>2 DEF Advance, Staged
  <2>4. ~TooShort(v, <<b>>)
    BY DEF TooShort
  <2>5. v[1] # b
    BY <1>1
  <2>6. ~StartsWith(v, <<b>>)
    <3>1. Take(v, Len(<<b>>)) = Mid(v, 0, 1)
      BY DEF Take, Mid
    <3>2. 1 \in 0..Len(v) /\ 0 \in 0..1 /\ 1 \in 1..1 - 0
      OBVIOUS
    <3>3. Mid(v, 0, 1)[1] = v[0 + 1]
      BY <3>2, MidProperties
    <3>4. Mid(v, 0, 1)[1] # b
      BY <2>5, <3>3
    <3>5. <<b>>[1] = b
      OBVIOUS
    <3> QED
      BY <3>1, <3>4, <3>5 DEF StartsWith
  <2> QED
    BY <1>1, <2>3, <2>4, <2>6 DEF ParseStatic
<1>8. \A i \in 2..end : S[i].status = "Error"
  <2> DEFINE Bad == {i \in 2..end : S[i].status # "Error"}
  <2> SUFFICES ASSUME Bad # {} PROVE FALSE
    OBVIOUS
  <2>1. PICK i \in Bad : \A h \in Bad : i <= h
    <3>1. Bad \in SUBSET Nat
      OBVIOUS
    <3> HIDE DEF Bad
    <3> QED
      BY <3>1, LeastNatural
  <2>2. i # 2
    BY <1>7, <2>1 DEF Staged
  <2>3. PICK h \in Nat : h = i - 1 /\ h \in 2..end /\ h < i
    BY <2>1, <2>2
  <2>4. S[h].status = "Error"
    BY <2>1, <2>3
  <2>5. S[i] = Advance(r.actions[h], S[h])
    BY <1>6, <2>1, <2>2, <2>3
  <2>6. S[i] = S[h]
    BY <2>4, <2>5 DEF Advance
  <2> QED
    BY <2>1, <2>4, <2>6
<1>9. S[end].status = "Error"
  BY <1>4, <1>8
<1>10. parse(r, p, v) = Returned(v, S[end])
  BY <1>4, <1>5 DEF parse
<1> QED
  BY <1>2, <1>9, <1>10 DEF Returned, ParseResult
-----------------------------------------------------------------------------
(* An order of the reading transitions has each of them once.              *)
LEMMA OrderOfAll ==
  ASSUME NamesDiffer, NEW a \in Agents, NEW s \in DOMAIN States[a], NEW q \in OrdersIn(States[a], s)
  PROVE  /\ Len(q) \in Nat /\ q \in [1..Len(q) -> Incoming(a, s)]
         /\ \A r \in Incoming(a, s) : \E k \in 1..Len(q) : q[k] = r
         /\ \A i, j \in 1..Len(q) : q[i] = q[j] => i = j
<1>1. PICK S : S = Incoming(a, s)
  OBVIOUS
<1>2. PICK f : f = States[a][s]
  OBVIOUS
<1>3. f \in Seq(Range(f))
  BY <1>2 DEF NamesDiffer
<1>4. PICK N \in Nat : DOMAIN f = 1..N
  BY <1>3
<1>5. IsFiniteSet(Range(f))
  <2>1. f \in Surjection(1..N, Range(f))
    BY <1>3, <1>4 DEF Surjection, Range
  <2>2. IsFiniteSet(1..N)
    BY FS_Interval
  <2> QED
    BY <2>1, <2>2, FS_Surjection
<1>6. IsFiniteSet(S)
  <2>1. S \in SUBSET Range(f)
    BY <1>1, <1>2 DEF Incoming
  <2> QED
    BY <1>5, <2>1, FS_Subset
<1>7. PICK n \in Nat : n = Cardinality(S)
  BY <1>6, FS_CardinalityType
<1>8. q \in [1..n -> S] /\ \A i, j \in 1..n : i # j => q[i] # q[j]
  BY <1>1, <1>7 DEF OrdersIn, Incoming, SetToSeqs
<1>9. Len(q) = n
  BY <1>8
<1>10. q \in Injection(1..n, S)
  BY <1>8 DEF Injection, IsInjective
<1>11. Cardinality(1..n) = n
  <2>1. Cardinality(1..n) = IF 1 > n THEN 0 ELSE n - 1 + 1
    BY FS_Interval
  <2> QED
    BY <2>1
<1>12. q \in Surjection(1..n, S)
  BY <1>6, <1>7, <1>10, <1>11, FS_Injection
<1> QED
  BY <1>1, <1>7, <1>8, <1>9, <1>12 DEF Surjection
-----------------------------------------------------------------------------
(* The parsers of a machine that has a part of the message r.              *)
With(a, r, p) == [NewParsers(a) EXCEPT ![r.name] = p]

LEMMA NewParserOf ==
  ASSUME NamesDiffer, NEW a \in Agents, NEW s \in DOMAIN States[a], NEW r \in Incoming(a, s)
  PROVE  r.name \in DOMAIN NewParsers(a) /\ NewParsers(a)[r.name] = NewParser(r)
<1>1. PICK all : all = {t \in UNION {Range(States[a][x]) : x \in DOMAIN States[a]} : ~t.writes}
  OBVIOUS
<1>2. NewParsers(a) = [n \in {t.name : t \in all} |-> NewParser(CHOOSE t \in all : t.name = n)]
  BY <1>1 DEF NewParsers, StateMachine
<1>3. r \in all
  BY <1>1 DEF Incoming
<1>4. \A t \in all : t \in UNION {Incoming(a, x) : x \in DOMAIN States[a]}
  BY <1>1 DEF Incoming
<1>5. \A t \in all : t.name = r.name => t = r
  BY <1>3, <1>4 DEF NamesDiffer
<1>6. (CHOOSE t \in all : t.name = r.name) = r
  BY <1>3, <1>5
<1> QED
  BY <1>2, <1>3, <1>6

(* A reset leaves new parsers.                                             *)
LEMMA ResetOf ==
  ASSUME NamesDiffer, NEW a \in Agents, NEW s \in DOMAIN States[a], NEW q \in OrdersIn(States[a], s),
         NEW x, DOMAIN x = DOMAIN NewParsers(a),
         NEW i, NEW j, i..j \in SUBSET (1..Len(q))
  PROVE  Reset(x, q, i, j)
           = [n \in DOMAIN NewParsers(a) |->
                IF \E h \in i..j : q[h].name = n THEN NewParsers(a)[n] ELSE x[n]]
<1>1. PICK N \in Nat : N = Len(q) /\ q \in [1..N -> Incoming(a, s)]
  BY OrderOfAll
<1>2. PICK I \in SUBSET (1..N) : I = i..j
  BY <1>1
<1>3. PICK names : names = {q[h].name : h \in I}
  OBVIOUS
<1>4. Reset(x, q, i, j) = [n \in DOMAIN x |->
         IF n \in names THEN NewParser(CHOOSE t \in Range(q) : t.name = n) ELSE x[n]]
  BY <1>2, <1>3 DEF Reset
<1>5. ASSUME NEW h \in I
      PROVE  NewParser(CHOOSE t \in Range(q) : t.name = q[h].name) = NewParsers(a)[q[h].name]
  <2>1. q[h] \in Range(q) /\ q[h] \in Incoming(a, s)
    BY <1>1 DEF Range
  <2>2. \A t \in Range(q) : t \in UNION {Incoming(a, y) : y \in DOMAIN States[a]}
    BY <1>1 DEF Range
  <2>3. \A t \in Range(q) : t.name = q[h].name => t = q[h]
    BY <2>1, <2>2 DEF NamesDiffer
  <2>4. (CHOOSE t \in Range(q) : t.name = q[h].name) = q[h]
    BY <2>1, <2>3
  <2> QED
    BY <2>1, <2>4, NewParserOf
<1>6. ASSUME NEW n
      PROVE  (IF n \in names THEN NewParser(CHOOSE t \in Range(q) : t.name = n) ELSE x[n])
               = IF \E h \in I : q[h].name = n THEN NewParsers(a)[n] ELSE x[n]
  <2>1. CASE n \in names
    BY <1>3, <1>5, <2>1
  <2>2. CASE n \notin names
    BY <1>3, <2>2
  <2> QED
    BY <2>1, <2>2
<1> QED
  BY <1>2, <1>4, <1>6

(* The parser of r is the only one that is not new.                        *)
ReadsBy(a, s, q, g, r) ==
  /\ a \in Agents /\ s \in DOMAIN States[a] /\ q \in OrdersIn(States[a], s)
  /\ g \in 1..Len(q) /\ r = q[g]

Excludes(q, i, j, g) == g \in 1..Len(q) /\ i..j \in SUBSET (1..Len(q)) /\ g \notin i..j

LEMMA ResetBefore ==
  ASSUME NamesDiffer, NEW a, NEW s, NEW q, NEW g, NEW r, ReadsBy(a, s, q, g, r),
         NEW p, NEW i, NEW j, Excludes(q, i, j, g)
  PROVE  Reset(With(a, r, p), q, i, j) = With(a, r, p)
<1>0. /\ a \in Agents /\ s \in DOMAIN States[a] /\ q \in OrdersIn(States[a], s) /\ r = q[g]
      /\ g \in 1..Len(q) /\ i..j \in SUBSET (1..Len(q)) /\ g \notin i..j
  BY DEF Excludes, ReadsBy
<1>1. PICK x : x = With(a, q[g], p)
  OBVIOUS
<1>2. DOMAIN x = DOMAIN NewParsers(a) /\ x = [n \in DOMAIN NewParsers(a) |-> x[n]]
      /\ \A n \in DOMAIN NewParsers(a) : n # q[g].name => x[n] = NewParsers(a)[n]
  <2>1. NewParsers(a) = [n \in DOMAIN NewParsers(a) |-> NewParsers(a)[n]]
    BY DEF NewParsers, StateMachine
  <2>2. PICK b, f : b = NewParsers(a) /\ f = q[g].name
    OBVIOUS
  <2>3. x = [b EXCEPT ![f] = p]
    BY <1>1, <2>2 DEF With
  <2>4. b = [n \in DOMAIN b |-> b[n]]
    BY <2>1, <2>2
  <2>5. DOMAIN x = DOMAIN b /\ \A n \in DOMAIN b : n # f => x[n] = b[n]
    BY <2>3
  <2>6. x = [n \in DOMAIN b |-> x[n]]
    BY <2>3, <2>4
  <2> QED
    BY <2>2, <2>5, <2>6
<1>3. PICK I \in SUBSET (1..Len(q)) : I = i..j
  BY <1>0
<1>4. \A h \in I : q[h].name # q[g].name
  <2>1. /\ q \in [1..Len(q) -> Incoming(a, s)]
        /\ \A k \in 1..Len(q) : q[k] = q[g] => k = g
    BY <1>0, OrderOfAll
  <2>2. \A h \in 1..Len(q) : q[h] \in UNION {Incoming(a, y) : y \in DOMAIN States[a]}
    BY <1>0, <2>1
  <2>3. \A h \in 1..Len(q) : q[h].name = q[g].name => q[h] = q[g]
    BY <1>0, <2>2 DEF NamesDiffer
  <2> QED
    BY <1>0, <1>3, <2>1, <2>3
<1>5. Reset(x, q, i, j) = [n \in DOMAIN NewParsers(a) |->
                IF \E h \in I : q[h].name = n THEN NewParsers(a)[n] ELSE x[n]]
  BY <1>0, <1>2, <1>3, ResetOf
<1>6. \A n \in DOMAIN NewParsers(a) :
        (IF \E h \in I : q[h].name = n THEN NewParsers(a)[n] ELSE x[n]) = x[n]
  BY <1>2, <1>4
<1>7. Reset(x, q, i, j) = [n \in DOMAIN NewParsers(a) |-> x[n]]
  BY <1>5, <1>6
<1> QED
  BY <1>0, <1>1, <1>2, <1>7

LEMMA ResetAll ==
  ASSUME NamesDiffer, NEW a, NEW s, NEW q, NEW g, NEW r, ReadsBy(a, s, q, g, r), NEW p
  PROVE  Reset(With(a, r, p), q, 1, Len(q)) = NewParsers(a)
<1>0. /\ a \in Agents /\ s \in DOMAIN States[a] /\ q \in OrdersIn(States[a], s) /\ r = q[g]
      /\ g \in 1..Len(q)
  BY DEF ReadsBy
<1>1. PICK x : x = With(a, q[g], p)
  OBVIOUS
<1>2. DOMAIN x = DOMAIN NewParsers(a)
      /\ NewParsers(a) = [n \in DOMAIN NewParsers(a) |-> NewParsers(a)[n]]
      /\ \A n \in DOMAIN NewParsers(a) : n # q[g].name => x[n] = NewParsers(a)[n]
  BY <1>1 DEF With, NewParsers, StateMachine
<1>3. Reset(x, q, 1, Len(q)) = [n \in DOMAIN NewParsers(a) |->
         IF \E h \in 1..Len(q) : q[h].name = n THEN NewParsers(a)[n] ELSE x[n]]
  BY <1>0, <1>2, OrderOfAll, ResetOf
<1>4. \A n \in DOMAIN NewParsers(a) :
        (IF \E h \in 1..Len(q) : q[h].name = n THEN NewParsers(a)[n] ELSE x[n]) = NewParsers(a)[n]
  BY <1>0, <1>2
<1>5. Reset(x, q, 1, Len(q)) = [n \in DOMAIN NewParsers(a) |-> NewParsers(a)[n]]
  BY <1>3, <1>4
<1> QED
  BY <1>0, <1>1, <1>2, <1>5
-----------------------------------------------------------------------------
(* What the machine is after it tried its parsers.                         *)
Taken(sm, consumed) == Received(sm, consumed, TRUE)
Idle(s, last, pending, parsers) == Machine(s, FALSE, last, <<>>, pending, parsers)
Filled(to, pending, parsers) == Machine(to, TRUE, to, <<>>, pending, parsers)
Parsing(x, parsers) == [x EXCEPT !.parsers = parsers]

LEMMA WithParsers ==
  ASSUME NEW s, NEW last, NEW pending, NEW old, NEW new, NEW x, NEW y,
         x = Idle(s, last, pending, old), y = Parsing(x, new)
  PROVE  y = Idle(s, last, pending, new)
<1>2. y = [x EXCEPT !.parsers = new]
  BY DEF Parsing
<1>3. x.current_state = s /\ x.has_message = FALSE /\ x.message_state = last
      /\ x.output_buffer = <<>> /\ x.pending = pending
      /\ x.parsers = old /\ x.has_error = FALSE /\ x.thrown = FALSE
  BY DEF Idle, Machine
<1>4. x = [f \in MachineFields |-> x[f]]
  BY DEF Idle, Machine, MachineFields
<1>5. y = [f \in MachineFields |-> y[f]]
  BY <1>2, <1>4 DEF Idle, MachineFields
<1>6. y.current_state = x.current_state /\ y.has_message = x.has_message
      /\ y.message_state = x.message_state /\ y.output_buffer = x.output_buffer
      /\ y.pending = x.pending /\ y.parsers = new
      /\ y.has_error = x.has_error /\ y.thrown = x.thrown
  BY <1>2, <1>4 DEF Idle, MachineFields
<1>7. y = Idle(s, last, pending, new)
  BY <1>3, <1>5, <1>6 DEF Idle, Machine, MachineFields
<1> QED
  BY <1>7

WaitingParsers(x, q, g, p, failed, tried, rest) ==
  /\ failed = Reset(x, q, 1, g - 1) /\ tried = [failed EXCEPT ![q[g].name] = p]
  /\ rest = Reset(tried, q, g + 1, Len(q))

DoneParsers(x, q, g, failed, rest) ==
  failed = Reset(x, q, 1, g - 1) /\ rest = Reset(failed, q, 1, Len(q))

Held(pending, t, data) == [pending EXCEPT ![t.target] = Just([name |-> t.name, data |-> data])]

LEMMA SettleWaits ==
  ASSUME NEW s, NEW last, NEW pending, NEW x, NEW q, NEW g, NEW d, NEW p, NEW failed, NEW tried,
         NEW rest, WaitingParsers(x, q, g, p, failed, tried, rest)
  PROVE  Settle(Idle(s, last, pending, x), q,
                ParseResult("NeedMoreData", d, p), g)
           = Taken(Idle(s, last, pending, rest), d)
<1>0. /\ failed = Reset(x, q, 1, g - 1) /\ tried = [failed EXCEPT ![q[g].name] = p]
      /\ rest = Reset(tried, q, g + 1, Len(q))
  BY DEF WaitingParsers
<1>1. PICK sm : sm = Idle(s, last, pending, x)
  OBVIOUS
<1>2. PICK y : y = Parsing(sm, failed)
  OBVIOUS
<1>3. PICK z : z = Parsing(y, tried)
  OBVIOUS
<1>4. PICK e : e = Parsing(z, rest)
  OBVIOUS
<1>5. y = Idle(s, last, pending, failed)
  BY <1>1, <1>2, WithParsers
<1>6. z = Idle(s, last, pending, tried)
  BY <1>3, <1>5, WithParsers
<1>7. e = Idle(s, last, pending, rest)
  BY <1>4, <1>6, WithParsers
<1>8. sm.parsers = x /\ y.parsers = failed /\ z.parsers = tried
  BY <1>1, <1>5, <1>6 DEF Idle, Machine
<1>9. y = [sm EXCEPT !.parsers = Reset(@, q, 1, g - 1)]
  BY <1>0, <1>2, <1>8 DEF Parsing
<1>10. PICK n : n = q[g].name
  OBVIOUS
<1>11. z = [y EXCEPT !.parsers[n] = p]
  <2>1. [y EXCEPT !.parsers[n] = p] = [y EXCEPT !.parsers = [y.parsers EXCEPT ![n] = p]]
    OBVIOUS
  <2> QED
    BY <1>0, <1>3, <1>8, <1>10, <2>1 DEF Parsing
<1>12. e = [z EXCEPT !.parsers = Reset(@, q, g + 1, Len(q))]
  BY <1>0, <1>4, <1>8 DEF Parsing
<1>13. PICK result : result = ParseResult("NeedMoreData", d, p)
  OBVIOUS
<1>14. result.status = "NeedMoreData" /\ result.consumed = d /\ result.parser = p
  BY <1>13 DEF ParseResult
<1>15. Settle(sm, q, result, g) = Taken(e, d)
  BY <1>9, <1>10, <1>11, <1>12, <1>14 DEF Settle, Taken
<1> QED
  BY <1>1, <1>7, <1>13, <1>15

LEMMA SettleCompletes ==
  ASSUME NEW s, NEW last, NEW pending, NEW x, NEW q, NEW g, NEW d, NEW p, NEW failed, NEW rest,
         DoneParsers(x, q, g, failed, rest),
         NEW t, t = q[g], NEW data, take_data(t, p) = Just(data), NEW held,
         held = Held(pending, t, data)
  PROVE  Settle(Idle(s, last, pending, x), q, ParseResult("Complete", d, p), g)
           = Taken(Filled(t.target, held, rest), d)
<1>0. failed = Reset(x, q, 1, g - 1) /\ rest = Reset(failed, q, 1, Len(q))
  BY DEF DoneParsers
<1>1. PICK sm : sm = Idle(s, last, pending, x)
  OBVIOUS
<1>2. PICK y : y = Parsing(sm, failed)
  OBVIOUS
<1>3. PICK to, name : to = t.target /\ name = t.name
  OBVIOUS
<1>4. PICK z : z = [y EXCEPT !.pending[to] = Just([name |-> name, data |-> data]),
                             !.has_message = TRUE, !.message_state = to, !.current_state = to,
                             !.parsers = Reset(@, q, 1, Len(q))]
  OBVIOUS
<1>5. y = Idle(s, last, pending, failed)
  BY <1>1, <1>2, WithParsers
<1>6. y.current_state = s /\ y.has_message = FALSE /\ y.message_state = last
      /\ y.output_buffer = <<>> /\ y.pending = pending
      /\ y.parsers = failed /\ y.has_error = FALSE /\ y.thrown = FALSE
  BY <1>5 DEF Idle, Machine
<1>7. y = [f \in MachineFields |-> y[f]]
  BY <1>5 DEF Idle, Machine, MachineFields
<1>8. z = [f \in MachineFields |-> z[f]]
  BY <1>4, <1>7 DEF Idle, MachineFields
<1>9. z.current_state = to /\ z.has_message = TRUE
      /\ z.message_state = to /\ z.output_buffer = y.output_buffer
      /\ z.pending = [y.pending EXCEPT ![to] = Just([name |-> name, data |-> data])]
      /\ z.parsers = Reset(y.parsers, q, 1, Len(q))
      /\ z.has_error = y.has_error /\ z.thrown = y.thrown
  BY <1>4, <1>7 DEF Idle, MachineFields
<1>10. z = Filled(to, held, rest)
  <2>1. [y.pending EXCEPT ![to] = Just([name |-> name, data |-> data])] = held
    BY <1>3, <1>6 DEF Held
  <2>2. Reset(y.parsers, q, 1, Len(q)) = rest
    BY <1>0, <1>6
  <2> QED
    BY <1>6, <1>8, <1>9, <2>1, <2>2 DEF Filled, Machine, MachineFields
<1>11. sm.parsers = x
  BY <1>1 DEF Idle, Machine
<1>12. y = [sm EXCEPT !.parsers = Reset(@, q, 1, g - 1)]
  BY <1>0, <1>2, <1>11 DEF Parsing
<1>13. PICK result : result = ParseResult("Complete", d, p)
  OBVIOUS
<1>14. result.status = "Complete" /\ result.consumed = d /\ result.parser = p
  BY <1>13 DEF ParseResult
<1>15. Settle(sm, q, result, g) = Completed(y, q, g, result)
  BY <1>12, <1>14 DEF Settle
<1>16. has_value(take_data(t, p)) /\ take_data(t, p)[1] = data
  BY DEF Just, has_value, nullopt
<1>17. Completed(y, q, g, result) = Taken(z, d)
  BY <1>3, <1>4, <1>14, <1>16 DEF Completed, Taken
<1> QED
  BY <1>1, <1>3, <1>10, <1>13, <1>15, <1>17
-----------------------------------------------------------------------------
(* Of the parsers only one does not fail.                                  *)
LEMMA OneAnswers ==
  ASSUME NEW n \in Nat, NEW results, DOMAIN results = 1..n, NEW g \in 1..n,
         results[g].status # "Error",
         \A k \in 1..n : k # g => results[k].status = "Error", Len(results) = n
  PROVE  FirstNotFailed(results) = g
<1> DEFINE S == {k \in 1..n : results[k].status # "Error"} \cup {n}
<1>1. g \in S /\ \A k \in S : g <= k /\ k \in 1..n
  OBVIOUS
<1>2. \A k \in S : (\A h \in S : k <= h) => k = g
  BY <1>1
<1>3. Min(S) = g
  BY <1>1, <1>2 DEF Min
<1> QED
  BY <1>3 DEF FirstNotFailed

(* The machine a reads by q in s. Of its messages only r, the g-th, begins *)
(* like the octets.                                                        *)
Distinct(a, s, q, g, r, o) ==
  /\ ReadsBy(a, s, q, g, r) /\ s # "Closed"
  /\ \A other \in Incoming(a, s) \ {r} : Unlike(other, o)

Partial(a, s, last, r, p) == Idle(s, last, NonePending(a), With(a, r, p))

(* The octets that are shown are some of the message's.                    *)
Shows(v, o) == v \in Seq(Octets) /\ v # <<>> /\ v[1] \in Range(o)

LEMMA WithAt ==
  ASSUME NamesDiffer, NEW a, NEW s, NEW q, NEW g, NEW r, NEW o, Distinct(a, s, q, g, r, o), NEW p
  PROVE  /\ With(a, r, p)[r.name] = p
         /\ \A k \in 1..Len(q) : k # g => With(a, r, p)[q[k].name] = NewParser(q[k])
<1>1. /\ a \in Agents /\ s \in DOMAIN States[a] /\ q \in OrdersIn(States[a], s)
      /\ g \in 1..Len(q) /\ r = q[g]
  BY DEF Distinct, ReadsBy
<1>2. /\ q \in [1..Len(q) -> Incoming(a, s)]
      /\ \A i, j \in 1..Len(q) : q[i] = q[j] => i = j
  BY <1>1, OrderOfAll
<1>3. PICK b, f : b = NewParsers(a) /\ f = r.name
  OBVIOUS
<1>4. PICK x : x = [b EXCEPT ![f] = p]
  OBVIOUS
<1>5. With(a, r, p) = x
  BY <1>3, <1>4 DEF With
<1>6. f \in DOMAIN b
  BY <1>1, <1>2, <1>3, NewParserOf
<1>7. x[f] = p
  BY <1>4, <1>6
<1>8. ASSUME NEW k \in 1..Len(q), k # g PROVE x[q[k].name] = NewParser(q[k])
  <2>1. PICK t \in Incoming(a, s) : t = q[k]
    BY <1>2
  <2>2. t # r
    BY <1>1, <1>2, <1>8, <2>1
  <2>3. t.name # f
    <3>1. r \in Incoming(a, s)
      BY <1>1, <1>2
    <3> QED
      BY <1>1, <1>3, <2>2, <3>1 DEF NamesDiffer
  <2>4. t.name \in DOMAIN b /\ b[t.name] = NewParser(t)
    BY <1>1, <1>3, NewParserOf
  <2>5. x[t.name] = b[t.name]
    BY <1>4, <2>3, <2>4
  <2> QED
    BY <2>1, <2>4, <2>5
<1> QED
  BY <1>3, <1>5, <1>7, <1>8

LEMMA TryOne ==
  ASSUME NamesDiffer, NEW a, NEW s, NEW q, NEW g, NEW r, NEW o, Distinct(a, s, q, g, r, o),
         NEW v, Shows(v, o), NEW last, NEW p, parse(r, p, v).status # "Error"
  PROVE  TryParsers(Partial(a, s, last, r, p), q, v)
           = Settle(Partial(a, s, last, r, p), q, parse(r, p, v), g)
<1>1. /\ a \in Agents /\ s \in DOMAIN States[a] /\ q \in OrdersIn(States[a], s)
      /\ g \in 1..Len(q) /\ r = q[g]
  BY DEF Distinct, ReadsBy
<1>2. PICK n \in Nat : n = Len(q)
  BY <1>1, OrderOfAll
<1>3. /\ q \in [1..n -> Incoming(a, s)]
      /\ \A i, j \in 1..n : q[i] = q[j] => i = j
  BY <1>1, <1>2, OrderOfAll
<1>4. PICK sm : sm = Partial(a, s, last, r, p)
  OBVIOUS
<1>5. sm.parsers = With(a, r, p)
  BY <1>4 DEF Partial, Idle, Machine
<1>6. PICK results : results = [k \in 1..n |-> parse(q[k], sm.parsers[q[k].name], v)]
  OBVIOUS
<1>7. results[g] = parse(r, p, v)
  <2>1. With(a, r, p)[r.name] = p
    BY WithAt
  <2> QED
    BY <1>1, <1>2, <1>5, <1>6, <2>1
<1>8. ASSUME NEW k \in 1..n, k # g PROVE results[k].status = "Error"
  <2>1. sm.parsers[q[k].name] = NewParser(q[k])
    BY <1>2, <1>5, <1>8, WithAt
  <2>2. results[k] = parse(q[k], NewParser(q[k]), v)
    BY <1>6, <2>1
  <2>3. q[k] \in Incoming(a, s) \ {r}
    BY <1>1, <1>2, <1>3, <1>8
  <2>4. Unlike(q[k], o)
    BY <2>3 DEF Distinct
  <2> QED
    BY <2>2, <2>4, OtherFails DEF Shows
<1>9. FirstNotFailed(results) = g
  <2>1. Len(results) = n /\ DOMAIN results = 1..n
    BY <1>6
  <2>2. g \in 1..n
    BY <1>1, <1>2
  <2> QED
    BY <1>7, <1>8, <2>1, <2>2, OneAnswers
<1>10. q # <<>> /\ DOMAIN q = 1..n
  BY <1>1, <1>2, <1>3
<1>11. TryParsers(sm, q, v) = Settle(sm, q, results[g], g)
  BY <1>6, <1>9, <1>10 DEF TryParsers
<1> QED
  BY <1>4, <1>7, <1>11

LEMMA ReceivesIt ==
  ASSUME NEW a, NEW s, s # "Closed", NEW v, v # <<>>, NEW last, NEW r, NEW p, NEW q, NEW m, NEW d,
         TryParsers(Partial(a, s, last, r, p), q, v) = Taken(m, d)
  PROVE  on_bytes_received(q, Partial(a, s, last, r, p), v) = Taken(m, d)
<1>1. PICK sm : sm = Partial(a, s, last, r, p)
  OBVIOUS
<1>2. ~is_closed(sm) /\ ~sm.has_error
  BY <1>1 DEF Partial, Idle, Machine, is_closed
<1>3. PICK y : y = Taken(m, d) /\ y.progressed
  BY DEF Taken, Received
<1> QED
  BY <1>1, <1>2, <1>3 DEF on_bytes_received
-----------------------------------------------------------------------------
LEMMA WithTwice ==
  ASSUME NEW a, NEW r, NEW p, NEW p2
  PROVE  [With(a, r, p) EXCEPT ![r.name] = p2] = With(a, r, p2)
<1>1. NewParsers(a) = [n \in DOMAIN NewParsers(a) |-> NewParsers(a)[n]]
  BY DEF NewParsers, StateMachine
<1>2. PICK b, f : b = NewParsers(a) /\ f = r.name
  OBVIOUS
<1>3. [[b EXCEPT ![f] = p] EXCEPT ![f] = p2] = [b EXCEPT ![f] = p2]
  BY <1>1, <1>2
<1> QED
  BY <1>2, <1>3 DEF With

(* It has more of the message.                                             *)
LEMMA TakesPart ==
  ASSUME NamesDiffer, NEW a, NEW s, NEW q, NEW g, NEW r, NEW o, Distinct(a, s, q, g, r, o),
         NEW v, Shows(v, o), NEW last, NEW p, NEW d, NEW p2,
         parse(r, p, v) = ParseResult("NeedMoreData", d, p2)
  PROVE  on_bytes_received(q, Partial(a, s, last, r, p), v)
           = Taken(Partial(a, s, last, r, p2), d)
<1>1. /\ a \in Agents /\ s \in DOMAIN States[a] /\ q \in OrdersIn(States[a], s)
      /\ g \in 1..Len(q) /\ r = q[g] /\ s # "Closed"
  BY DEF Distinct, ReadsBy
<1>2. PICK n \in Nat : n = Len(q) /\ g \in 1..n
  BY <1>1, OrderOfAll
<1>3. PICK result : result = parse(r, p, v)
  OBVIOUS
<1>4. result.status = "NeedMoreData"
  BY <1>3 DEF ParseResult
<1>5. TryParsers(Partial(a, s, last, r, p), q, v)
        = Settle(Partial(a, s, last, r, p), q, result, g)
  BY <1>3, <1>4, TryOne
<1>6. PICK x, failed, tried, rest :
        /\ x = With(a, r, p) /\ failed = Reset(x, q, 1, g - 1)
        /\ tried = [failed EXCEPT ![r.name] = p2] /\ rest = Reset(tried, q, g + 1, Len(q))
  OBVIOUS
<1>7. failed = With(a, r, p)
  <2>1. PICK i, j : i = 1 /\ j = g - 1
    OBVIOUS
  <2>2. Excludes(q, i, j, g)
    BY <1>2, <2>1 DEF Excludes
  <2>3. Reset(With(a, r, p), q, i, j) = With(a, r, p)
    BY <1>1, <2>2, ResetBefore DEF Distinct
  <2> QED
    BY <1>6, <2>1, <2>3
<1>8. tried = With(a, r, p2)
  BY <1>6, <1>7, WithTwice
<1>9. rest = With(a, r, p2)
  <2>1. PICK i, j : i = g + 1 /\ j = Len(q)
    OBVIOUS
  <2>2. Excludes(q, i, j, g)
    BY <1>2, <2>1 DEF Excludes
  <2>3. Reset(With(a, r, p2), q, i, j) = With(a, r, p2)
    BY <1>1, <2>2, ResetBefore DEF Distinct
  <2> QED
    BY <1>6, <1>8, <2>1, <2>3
<1>10. Settle(Idle(s, last, NonePending(a), x), q, ParseResult("NeedMoreData", d, p2), g)
         = Taken(Idle(s, last, NonePending(a), rest), d)
  <2>1. WaitingParsers(x, q, g, p2, failed, tried, rest)
    BY <1>1, <1>6 DEF WaitingParsers
  <2> QED
    BY <2>1, SettleWaits
<1>11. TryParsers(Partial(a, s, last, r, p), q, v) = Taken(Partial(a, s, last, r, p2), d)
  BY <1>3, <1>5, <1>6, <1>9, <1>10 DEF Partial
<1> QED
  BY <1>1, <1>11, ReceivesIt DEF Shows

(* It has all of the message.                                              *)
LEMMA TakesAll ==
  ASSUME NamesDiffer, NEW a, NEW s, NEW q, NEW g, NEW r, NEW o, Distinct(a, s, q, g, r, o),
         NEW v, Shows(v, o), NEW last, NEW p, NEW d, NEW p2,
         parse(r, p, v) = ParseResult("Complete", d, p2),
         NEW data, take_data(r, p2) = Just(data)
  PROVE  on_bytes_received(q, Partial(a, s, last, r, p), v)
           = Taken(Holding(a, r.target, [name |-> r.name, data |-> data]), d)
<1>1. /\ a \in Agents /\ s \in DOMAIN States[a] /\ q \in OrdersIn(States[a], s)
      /\ g \in 1..Len(q) /\ r = q[g] /\ s # "Closed"
  BY DEF Distinct, ReadsBy
<1>2. PICK n \in Nat : n = Len(q) /\ g \in 1..n
  BY <1>1, OrderOfAll
<1>3. PICK result : result = parse(r, p, v)
  OBVIOUS
<1>4. result.status = "Complete"
  BY <1>3 DEF ParseResult
<1>5. TryParsers(Partial(a, s, last, r, p), q, v)
        = Settle(Partial(a, s, last, r, p), q, result, g)
  BY <1>3, <1>4, TryOne
<1>6. PICK x, failed, rest, held :
        /\ x = With(a, r, p) /\ failed = Reset(x, q, 1, g - 1)
        /\ rest = Reset(failed, q, 1, Len(q))
        /\ held = Held(NonePending(a), r, data)
  OBVIOUS
<1>7. failed = With(a, r, p)
  <2>1. PICK i, j : i = 1 /\ j = g - 1
    OBVIOUS
  <2>2. Excludes(q, i, j, g)
    BY <1>2, <2>1 DEF Excludes
  <2>3. Reset(With(a, r, p), q, i, j) = With(a, r, p)
    BY <1>1, <2>2, ResetBefore DEF Distinct
  <2> QED
    BY <1>6, <2>1, <2>3
<1>8. rest = NewParsers(a)
  BY <1>1, <1>6, <1>7, ResetAll DEF Distinct
<1>9. PICK m : m = Filled(r.target, held, rest)
  OBVIOUS
<1>10. Settle(Idle(s, last, NonePending(a), x), q, ParseResult("Complete", d, p2), g)
         = Taken(m, d)
  <2>1. DoneParsers(x, q, g, failed, rest)
    BY <1>6 DEF DoneParsers
  <2> QED
    BY <1>1, <1>6, <1>9, <2>1, SettleCompletes
<1>11. m = Holding(a, r.target, [name |-> r.name, data |-> data])
  BY <1>6, <1>8, <1>9, HoldingForm DEF Held, Filled
<1>12. TryParsers(Partial(a, s, last, r, p), q, v) = Taken(m, d)
  BY <1>3, <1>5, <1>6, <1>10 DEF Partial
<1> QED
  BY <1>1, <1>11, <1>12, ReceivesIt DEF Shows
-----------------------------------------------------------------------------
(* The machines that m octets of the message may have made.                *)
AfterShowing(sm, kept) == [machine |-> sm, unread |-> kept]

HasPart(a, s, last, r, o, at, m, k, c, x) ==
  /\ Waits(r, o, at, m, k, c)
  /\ x = AfterShowing(Partial(a, s, last, r, Partly(r, o, at, k, c)), Mid(o, c, m))

HasAll(a, r, data, x) == x = AfterShowing(Holding(a, r.target, [name |-> r.name, data |-> data]), <<>>)

MayBecome(a, s, last, r, o, at, data, m, x) ==
  /\ Clean(o, m)
  /\ IF m = Len(o) THEN HasAll(a, r, data, x)
                   ELSE \E k, c \in Nat : HasPart(a, s, last, r, o, at, m, k, c, x)

Terminated(r) ==
  \A k \in 1..Len(r.actions) :
    r.actions[k].kind = "until" => r.actions[k].terminator \in Delimiters

(* It is shown the octets from the j-th to the m-th.                       *)
LEMMA ShowsMore ==
  ASSUME NamesDiffer, NEW a, NEW s, NEW q, NEW g, NEW r, NEW o, Distinct(a, s, q, g, r, o),
         NEW at, Divided(r, o, at), Terminated(r), NEW last,
         NEW data, take_data(r, Whole(r, o, at)) = Just(data),
         NEW j \in Nat, NEW m \in Nat, j < m, m <= Len(o), CutAllowed(Drop(o, j), m - j),
         NEW x, MayBecome(a, s, last, r, o, at, data, j, x)
  PROVE  MayBecome(a, s, last, r, o, at, data, m, ShownNext(q, x, SubSeq(o, j + 1, m)))
<1>1. o \in Seq(Octets) /\ Len(o) \in Nat /\ j # Len(o)
      /\ j \in 0..Len(o) /\ m \in j + 1..Len(o) /\ m \in 0..Len(o) /\ j \in 0..m
  BY DEF Divided
<1>2. Clean(o, j) /\ Clean(o, m)
  BY <1>1, CleanGoesOn DEF MayBecome
<1>3. Uncut(r, o, at, j) /\ Uncut(r, o, at, m)
  BY <1>1, <1>2, CleanUncut DEF Terminated
<1>4. PICK k, c \in Nat : HasPart(a, s, last, r, o, at, j, k, c, x)
  BY <1>1 DEF MayBecome
<1>5. Waits(r, o, at, j, k, c) /\ c <= j
  BY <1>4 DEF HasPart, Waits
<1>6. PICK p : p = Partly(r, o, at, k, c)
  OBVIOUS
<1>7. x.machine = Partial(a, s, last, r, p) /\ x.unread = Mid(o, c, j)
  BY <1>4, <1>6 DEF HasPart, AfterShowing
<1>8. PICK v : v = Mid(o, c, m)
  OBVIOUS
<1>9. x.unread \o SubSeq(o, j + 1, m) = v
  <2>1. c \in 0..j
    BY <1>1, <1>5
  <2>2. Mid(o, c, j) \o Mid(o, j, m) = Mid(o, c, m)
    BY <1>1, <2>1, MidConcat
  <2> QED
    BY <1>7, <1>8, <2>2 DEF Mid
<1>10. v \in Seq(Octets) /\ Len(v) = m - c /\ c \in 0..m
  <2>1. c \in 0..m
    BY <1>1, <1>5
  <2> QED
    BY <1>1, <1>8, <2>1, MidProperties
<1>11. Shows(v, o)
  <2>1. 1 \in 1..m - c /\ c + 1 \in 1..Len(o)
    BY <1>1, <1>5
  <2>2. v[1] = o[c + 1]
    BY <1>1, <1>8, <1>10, <2>1, MidProperties
  <2>3. o[c + 1] \in Range(o)
    BY <1>1, <2>1 DEF Range
  <2>4. v # <<>>
    BY <1>10, <2>1
  <2> QED
    BY <1>10, <2>2, <2>3, <2>4 DEF Shows
<1>12. PICK y : y = on_bytes_received(q, Partial(a, s, last, r, p), v)
  OBVIOUS
<1>13. PICK n : n = ShownNext(q, x, SubSeq(o, j + 1, m))
  OBVIOUS
<1>14. n = AfterShowing(y.machine, Drop(v, y.consumed))
  BY <1>7, <1>9, <1>12, <1>13 DEF ShownNext, AfterShowing
<1>17. Parsed(r, o, at, c, m, parse(r, p, v))
  BY <1>1, <1>3, <1>5, <1>6, <1>8, ParsePlain
<1>15. CASE m = Len(o)
  <2>1. parse(r, p, v) = ParseResult("Complete", m - c, Whole(r, o, at))
    BY <1>15, <1>17 DEF Parsed
  <2>2. y = Taken(Holding(a, r.target, [name |-> r.name, data |-> data]), m - c)
    BY <1>11, <1>12, <2>1, TakesAll
  <2>3. y.machine = Holding(a, r.target, [name |-> r.name, data |-> data]) /\ y.consumed = m - c
    BY <2>2 DEF Taken, Received
  <2>4. Drop(v, m - c) = <<>>
    BY <1>10 DEF Drop
  <2>5. HasAll(a, r, data, n)
    BY <1>14, <2>3, <2>4 DEF HasAll
  <2> QED
    BY <1>2, <1>13, <1>15, <2>5 DEF MayBecome
<1>16. CASE m # Len(o)
  <2>1. PICK h, d \in Nat :
          /\ Waits(r, o, at, m, h, d) /\ c <= d
          /\ parse(r, p, v) = ParseResult("NeedMoreData", d - c, Partly(r, o, at, h, d))
    BY <1>16, <1>17 DEF Parsed
  <2>2. PICK p2 : p2 = Partly(r, o, at, h, d)
    OBVIOUS
  <2>3. y = Taken(Partial(a, s, last, r, p2), d - c)
    BY <1>11, <1>12, <2>1, <2>2, TakesPart
  <2>4. y.machine = Partial(a, s, last, r, p2) /\ y.consumed = d - c
    BY <2>3 DEF Taken, Received
  <2>5. Drop(v, d - c) = Mid(o, d, m)
    <3>1. d <= m
      BY <2>1 DEF Waits
    <3>2. d - c \in 0..m - c /\ c + (d - c) = d
      BY <1>10, <2>1, <3>1
    <3> QED
      BY <1>1, <1>8, <1>10, <3>2, MidTakeDrop
  <2>6. HasPart(a, s, last, r, o, at, m, h, d, n)
    BY <1>14, <2>1, <2>2, <2>4, <2>5 DEF HasPart
  <2> QED
    BY <1>2, <1>13, <1>16, <2>6 DEF MayBecome
<1> QED
  BY <1>15, <1>16
-----------------------------------------------------------------------------
LEMMA PartlyNone ==
  ASSUME NEW r, NEW o, NEW at, Divided(r, o, at)
  PROVE  Partly(r, o, at, 1, 0) = NewParser(r)
<1>1. Buffer(r, o, at, 1, 0) = [f \in Fields(r) |-> <<>>]
  <2>1. ASSUME NEW f \in Fields(r) PROVE Text(r, o, at, 1, 0, Reader(r, f)) = <<>>
    <3>1. PICK j \in 1..Len(r.actions) : j = Reader(r, f)
      BY ReaderOf
    <3>2. /\ Len(r.actions) \in Nat /\ at[1] = 0
          /\ at \in [1..Len(r.actions) + 1 -> 0..Len(o)] /\ o \in Seq(Octets)
      BY DEF Divided, Divides
    <3>3. at[j] \in 0..Len(o)
      BY <3>2
    <3>4. TextEnd(r, o, at, 1, 0, j) = at[j]
      BY <3>2 DEF TextEnd
    <3>5. Text(r, o, at, 1, 0, j) = SubSeq(o, at[j] + 1, at[j])
      BY <3>4 DEF Text
    <3>6. PICK n \in 0..Len(o) : n = at[j]
      BY <3>3
    <3>7. SubSeq(o, n + 1, n) = <<>>
      BY <3>2
    <3> QED
      BY <3>1, <3>5, <3>6, <3>7
  <2> QED
    BY <2>1 DEF Buffer
<1> QED
  BY <1>1, PartlyForm DEF Parser, NewParser

LEMMA WithNone ==
  ASSUME NamesDiffer, NEW a \in Agents, NEW s \in DOMAIN States[a], NEW r \in Incoming(a, s)
  PROVE  With(a, r, NewParser(r)) = NewParsers(a)
<1>1. NewParsers(a) = [n \in DOMAIN NewParsers(a) |-> NewParsers(a)[n]]
  BY DEF NewParsers, StateMachine
<1>2. r.name \in DOMAIN NewParsers(a) /\ NewParsers(a)[r.name] = NewParser(r)
  BY NewParserOf
<1>3. PICK b, f, p : b = NewParsers(a) /\ f = r.name /\ p = NewParser(r)
  OBVIOUS
<1>4. [b EXCEPT ![f] = p] = b
  BY <1>1, <1>2, <1>3
<1> QED
  BY <1>3, <1>4 DEF With

(* Nothing was shown.                                                      *)
LEMMA ShowsNone ==
  ASSUME NamesDiffer, NEW a, NEW s, NEW q, NEW g, NEW r, NEW o, Distinct(a, s, q, g, r, o),
         NEW at, Divided(r, o, at), o # <<>>, NEW last, NEW data
  PROVE  MayBecome(a, s, last, r, o, at, data, 0, AfterShowing(Fresh(a, s, last), <<>>))
<1>1. /\ o \in Seq(Octets) /\ Len(o) \in Nat /\ Len(r.actions) \in Nat
      /\ at[1] = 0 /\ at[Len(r.actions) + 1] = Len(o) /\ Len(o) # 0
  BY DEF Divided, Divides
<1>2. 1 \in 1..Len(r.actions)
  BY <1>1
<1>3. at[1] < at[1 + 1]
  BY <1>2, Dividing
<1>4. Waits(r, o, at, 0, 1, 0)
  BY <1>1, <1>2, <1>3 DEF Waits
<1>5. Partly(r, o, at, 1, 0) = NewParser(r)
  BY PartlyNone
<1>6. With(a, r, NewParser(r)) = NewParsers(a)
  <2>1. /\ a \in Agents /\ s \in DOMAIN States[a] /\ q \in OrdersIn(States[a], s)
        /\ g \in 1..Len(q) /\ r = q[g]
    BY DEF Distinct, ReadsBy
  <2>2. q \in [1..Len(q) -> Incoming(a, s)]
    BY <2>1, OrderOfAll
  <2>3. r \in Incoming(a, s)
    BY <2>1, <2>2
  <2> QED
    BY <2>1, <2>3, WithNone
<1>7. Fresh(a, s, last) = Partial(a, s, last, r, Partly(r, o, at, 1, 0))
  BY <1>5, <1>6, FreshForm DEF Partial, Idle
<1>8. Mid(o, 0, 0) = <<>>
  BY <1>1 DEF Mid
<1>9. HasPart(a, s, last, r, o, at, 0, 1, 0, AfterShowing(Fresh(a, s, last), <<>>))
  BY <1>4, <1>7, <1>8 DEF HasPart
<1>10. Clean(o, 0)
  BY CleanStarts
<1> QED
  BY <1>1, <1>9, <1>10 DEF MayBecome

LEMMA ReadingOfPlain ==
  ASSUME NamesDiffer, NEW a, NEW s, NEW q, NEW g, NEW r, NEW o, Distinct(a, s, q, g, r, o),
         NEW at, Divided(r, o, at), Terminated(r), o # <<>>, NEW last,
         NEW data, take_data(r, Whole(r, o, at)) = Just(data),
         NEW m \in 0..Len(o), NEW x \in Reading(q, Fresh(a, s, last), o)[m]
  PROVE  MayBecome(a, s, last, r, o, at, data, m, x)
<1> DEFINE R == Reading(q, Fresh(a, s, last), o)
           Bad == {n \in 0..Len(o) : \E y \in R[n] : ~MayBecome(a, s, last, r, o, at, data, n, y)}
<1> SUFFICES ASSUME Bad # {} PROVE FALSE
  OBVIOUS
<1>1. Len(o) \in Nat
  BY DEF Divided
<1>2. PICK n \in Bad : \A h \in Bad : n <= h
  <2>1. Bad \in SUBSET Nat
    BY <1>1
  <2> HIDE DEF Bad
  <2> QED
    BY <2>1, LeastNatural
<1>3. n \in 0..Len(o)
  OBVIOUS
<1>4. PICK y \in R[n] : ~MayBecome(a, s, last, r, o, at, data, n, y)
  OBVIOUS
<1>5. R[n] = IF n = 0 THEN {[machine |-> Fresh(a, s, last), unread |-> <<>>]}
             ELSE UNION {{ShownNext(q, z, SubSeq(o, j + 1, n)) : z \in R[j]} :
                           j \in {i \in 0..n - 1 : CutAllowed(Drop(o, i), n - i)}}
  <2> HIDE DEF R, Bad
  <2>1. R = [h \in 0..Len(o) |->
              IF h = 0 THEN {[machine |-> Fresh(a, s, last), unread |-> <<>>]}
              ELSE UNION {{ShownNext(q, z, SubSeq(o, j + 1, h)) : z \in R[j]} :
                            j \in {i \in 0..h - 1 : CutAllowed(Drop(o, i), h - i)}}]
    BY <1>1, ReadingDefined DEF R
  <2> QED
    BY <1>3, <2>1
<1> HIDE DEF R
<1>6. n # 0
  <2> SUFFICES ASSUME n = 0 PROVE FALSE
    OBVIOUS
  <2>1. y = AfterShowing(Fresh(a, s, last), <<>>)
    BY <1>4, <1>5 DEF AfterShowing
  <2> QED
    BY <1>4, <2>1, ShowsNone
<1>7. PICK j \in 0..n - 1 : /\ CutAllowed(Drop(o, j), n - j)
                            /\ \E z \in R[j] : y = ShownNext(q, z, SubSeq(o, j + 1, n))
  BY <1>4, <1>5, <1>6
<1>8. PICK z \in R[j] : y = ShownNext(q, z, SubSeq(o, j + 1, n))
  BY <1>7
<1>9. j \in Nat /\ n \in Nat /\ j < n /\ n <= Len(o) /\ j \in 0..Len(o)
  BY <1>1, <1>3
<1>10. j \notin Bad
  BY <1>2, <1>9
<1>11. MayBecome(a, s, last, r, o, at, data, j, z)
  BY <1>8, <1>9, <1>10
<1> HIDE DEF Bad
<1>12. MayBecome(a, s, last, r, o, at, data, n, ShownNext(q, z, SubSeq(o, j + 1, n)))
  BY <1>7, <1>9, <1>11, ShowsMore
<1> QED
  BY <1>4, <1>8, <1>12
-----------------------------------------------------------------------------
LEMMA MayIsSoFar ==
  ASSUME NEW a, NEW s, NEW last, NEW r, NEW o, NEW at, Divided(r, o, at), NEW data,
         NEW m \in 0..Len(o), NEW x, MayBecome(a, s, last, r, o, at, data, m, x)
  PROVE  ReadSoFar(a, s, last, r.target, [name |-> r.name, data |-> data], m = Len(o), x)
<1>1. PICK message : message = [name |-> r.name, data |-> data]
  OBVIOUS
<1>2. o \in Seq(Octets) /\ Len(o) \in Nat
  BY DEF Divided
<1>3. CASE m = Len(o)
  <2>1. x.machine = Holding(a, r.target, message) /\ x.unread = <<>>
    BY <1>1, <1>3 DEF MayBecome, HasAll, AfterShowing
  <2>2. x.machine.has_message
    BY <2>1, HoldingForm DEF Machine
  <2> QED
    BY <1>1, <1>3, <2>1, <2>2 DEF ReadSoFar
<1>4. CASE m # Len(o)
  <2>1. PICK k, c \in Nat : HasPart(a, s, last, r, o, at, m, k, c, x)
    BY <1>4 DEF MayBecome
  <2>2. PICK p : p = Partly(r, o, at, k, c)
    OBVIOUS
  <2>3. x.machine = Partial(a, s, last, r, p) /\ x.unread = Mid(o, c, m) /\ c <= m
    BY <2>1, <2>2 DEF HasPart, AfterShowing, Waits
  <2>4. x.machine = Machine(s, FALSE, last, <<>>, NonePending(a), With(a, r, p))
    BY <2>3 DEF Partial, Idle
  <2>5. ~x.machine.has_message /\ x.machine.parsers = With(a, r, p)
    BY <2>4 DEF Machine
  <2>6. x.machine = Expecting(a, s, last, x.machine.parsers)
    BY <2>4, <2>5, ExpectingForm
  <2>7. x.unread \in Seq(Octets)
    <3>1. c \in 0..m
      BY <1>2, <2>3
    <3> QED
      BY <1>2, <2>3, <3>1, MidProperties
  <2> QED
    BY <1>4, <2>5, <2>6, <2>7 DEF ReadSoFar
<1> QED
  BY <1>3, <1>4

LEMMA ActionTerminated ==
  ASSUME NEW a \in Agents, NEW s \in DOMAIN States[a], NEW r \in Incoming(a, s), NEW o, NEW at,
         Divided(r, o, at)
  PROVE  Terminated(r)
<1> SUFFICES ASSUME NEW k \in 1..Len(r.actions), r.actions[k].kind = "until"
             PROVE  r.actions[k].terminator \in Delimiters
  BY DEF Terminated
<1>1. DOMAIN r.actions = 1..Len(r.actions)
  BY DEF Divided, Divides
<1>2. PICK x : x = r.actions[k]
  OBVIOUS
<1>3. x \in Range(r.actions)
  BY <1>1, <1>2 DEF Range
<1>4. r \in Range(States[a][s])
  BY DEF Incoming
<1>5. x \in Actions
  BY <1>3, <1>4 DEF Actions
<1> QED
  BY <1>2, <1>5 DEF Delimiters

(* A plain message, sent to a machine in its state, is read as it was      *)
(* sent, at every cut that CutAllowed allows.                              *)
LEMMA PlainIsRead ==
  ASSUME NamesDiffer, NEW a \in Agents, NEW s \in DOMAIN States[a], NEW last,
         NEW q \in OrdersIn(States[a], s), NEW t, NEW data, PlainMessage(a, s, t, data)
  PROVE  MessageRead(a, s, last, q, t, data)
<1>1. PICK o : o = Serialized(t, data)
  OBVIOUS
<1>2. s # "Closed" /\ o \in Seq(Octets) /\ o # <<>>
  BY <1>1 DEF PlainMessage
<1>3. PICK r \in Incoming(a, s) :
        /\ r.name = t.name /\ r.target = t.target
        /\ \E at \in [1..Len(r.actions) + 1 -> 0..Len(o)] :
             /\ Divides(r, o, at)
             /\ take_data(r, [Partly(r, o, at, Len(r.actions) + 1, Len(o))
                                EXCEPT !.complete = TRUE]) = Just(data)
        /\ \A other \in Incoming(a, s) \ {r} : Unlike(other, o)
  BY <1>1 DEF PlainMessage
<1>4. PICK at \in [1..Len(r.actions) + 1 -> 0..Len(o)] :
        /\ Divides(r, o, at)
        /\ take_data(r, [Partly(r, o, at, Len(r.actions) + 1, Len(o))
                           EXCEPT !.complete = TRUE]) = Just(data)
  BY <1>3
<1>5. Divided(r, o, at)
  <2>1. Len(r.actions) \in Nat
    BY <1>4 DEF Divides
  <2> QED
    BY <1>2, <1>4, <2>1 DEF Divided
<1>6. take_data(r, Whole(r, o, at)) = Just(data)
  BY <1>4 DEF Whole, Ended
<1>7. Terminated(r)
  BY <1>5, ActionTerminated
<1>8. PICK g \in 1..Len(q) : q[g] = r
  BY OrderOfAll
<1>9. Distinct(a, s, q, g, r, o)
  BY <1>2, <1>3, <1>8 DEF Distinct, ReadsBy
<1>10. PICK R : R = Reading(q, Fresh(a, s, last), o)
  OBVIOUS
<1>11. ASSUME NEW m \in 0..Len(o), NEW x \in R[m]
       PROVE  ReadSoFar(a, s, last, t.target, [name |-> t.name, data |-> data], m = Len(o), x)
  <2>1. MayBecome(a, s, last, r, o, at, data, m, x)
    BY <1>2, <1>5, <1>6, <1>7, <1>9, <1>10, <1>11, ReadingOfPlain
  <2>2. ReadSoFar(a, s, last, r.target, [name |-> r.name, data |-> data], m = Len(o), x)
    BY <1>5, <2>1, MayIsSoFar
  <2> QED
    BY <1>3, <2>2
<1> QED
  BY <1>1, <1>2, <1>10, <1>11 DEF MessageRead

(* Each message on its own is read as it was sent, at every cut that       *)
(* CutAllowed allows, if it is plain or known to be read so.               *)
THEOREM PlainMessagesRead ==
  ASSUME NamesDiffer, PlainOrRead
  PROVE  MessagesRead
<1> SUFFICES ASSUME NEW a \in Agents, NEW s \in DOMAIN States[a], NEW last \in DOMAIN States[a],
                    NEW q \in OrdersIn(States[a], s), NEW t \in OutputsOf(Other(a), s),
                    NEW data \in Payloads[t.name]
             PROVE  MessageRead(a, s, last, q, t, data)
  BY DEF MessagesRead
<1>1. CASE PlainMessage(a, s, t, data)
  BY <1>1, PlainIsRead
<1>2. CASE ~PlainMessage(a, s, t, data)
  BY <1>2 DEF PlainOrRead
<1> QED
  BY <1>1, <1>2

(* A conversation in plain messages is received as it was sent, each       *)
(* message as soon as its last octet was shown, the states agree and there *)
(* is no false alarm, for the cuts of MayCut; nothing is assumed of what   *)
(* the parsers and the machines do with such messages.                     *)
THEOREM PlainConversation ==
  ASSUME TurnsAlternate, NamesDiffer, PlainOrRead
  PROVE  Spec => [](ReceivedAsSent /\ NothingHeldBack /\ StatesAgree /\ NoFalseAlarm)
<1>1. MessagesRead
  BY PlainMessagesRead
<1>2. IInv => ReceivedAsSent /\ NothingHeldBack /\ StatesAgree /\ NoFalseAlarm
  BY <1>1, IInvReceived, IInvHeldBack, IInvStates, IInvAlarm
<1>3. Spec => []IInv
  BY <1>1, Invariance
<1> QED
  BY <1>2, <1>3, PTL
=============================================================================
