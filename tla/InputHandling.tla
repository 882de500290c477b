--------------------------- MODULE InputHandling ----------------------------
(***************************************************************************)
(* One interpreter that executes read operations on a connection: what the *)
(* peer sends arrives cut into buffers in any way, the runner's            *)
(* handle_read shows them to the current operation, joining buffers until  *)
(* it consumes something, and operator() decides (module ReadOperations).  *)
(*                                                                         *)
(* That the queue is empty and what follows from it (push_front, or a look *)
(* at eof) is one step here: what happens between is the subject of module *)
(* InterpreterRunner. (Data and eof that both arrive there make an         *)
(* operation fail early; here they do not.)                                *)
(* The loop's wait for wake_up_interpreter is the flag `waiting`.          *)
(***************************************************************************)
EXTENDS ReadOperations

CONSTANTS Programs,   \* sequences of read operations
          Streams     \* what the peer may send on the connection

ASSUME StreamsAssumption == Streams \subseteq Seq(Octets)

VARIABLES
  program, stream,    \* chosen initially
  sent,               \* octets of the stream pushed to input_buffer so far
  eof,                \* InterpreterContext::eof
  input_buffer,
  joined, did_join,   \* locals of handle_read (<<>>: it is not running)
  ip, ctx,            \* the current operation and its context
  results,            \* what the operations returned, each with the octets
                      \* consumed up to then
  consumed,           \* octets consumed so far
  waiting             \* interpreter_loop waits for wake_up_interpreter

vars == <<program, stream, sent, eof, input_buffer, joined, did_join, ip, ctx, results,
          consumed, waiting>>

AtEnd == ip > Len(program)
Op == program[ip]
Blocked == ~AtEnd /\ Evaluate(Op, ctx) = WaitingForRead

Init ==
  /\ program \in Programs /\ stream \in Streams
  /\ sent = 0 /\ eof = FALSE /\ input_buffer = <<>>
  /\ joined = <<>> /\ did_join = FALSE
  /\ ip = 1 /\ ctx = NewCtx
  /\ results = <<>> /\ consumed = 0
  /\ waiting = FALSE
-----------------------------------------------------------------------------
(* The read callback: a buffer of n octets, and wake_up_interpreter.       *)
Receive(n) ==
  /\ sent + n <= Len(stream)
  /\ sent' = sent + n
  /\ input_buffer' = Append(input_buffer, SubSeq(stream, sent + 1, sent + n))
  /\ waiting' = FALSE
  /\ UNCHANGED <<program, stream, eof, joined, did_join, ip, ctx, results, consumed>>

ReceiveEof ==
  /\ sent = Len(stream) /\ ~eof
  /\ eof' = TRUE
  /\ waiting' = FALSE
  /\ UNCHANGED <<program, stream, sent, input_buffer, joined, did_join, ip, ctx, results, consumed>>

(* Another connection or thread notifies wake_up_interpreter.              *)
NotifiedByOthers ==
  /\ waiting
  /\ waiting' = FALSE
  /\ UNCHANGED <<program, stream, sent, eof, input_buffer, joined, did_join, ip, ctx,
                 results, consumed>>
-----------------------------------------------------------------------------
(* interpreter_loop: step() returns Ready.                                 *)
StepReady ==
  /\ ~waiting /\ joined = <<>> /\ ~AtEnd /\ ~Blocked
  /\ LET r == Evaluate(Op, ctx)
     IN  /\ results' = Append(results, [value |-> r, upto |-> consumed])
         /\ ip' = IF r = ProtocolMismatchError THEN Len(program) + 1 ELSE ip + 1
  /\ ctx' = NewCtx
  /\ UNCHANGED <<program, stream, sent, eof, input_buffer, joined, did_join, consumed,
                 waiting>>

(* The operation is shown data, and the rest of what it consumes goes back *)
(* to the front of the queue; if it consumes nothing, handle_read goes on. *)
Show(data, queue, joining) ==
  \E shown \in {handle_read(Op, ctx, data)} :
    /\ ctx' = shown.ctx
    /\ consumed' = consumed + shown.consumed
    /\ IF shown.consumed = 0
         THEN joined' = data /\ did_join' = joining /\ input_buffer' = queue
         ELSE /\ joined' = <<>> /\ did_join' = FALSE
              /\ input_buffer' = IF shown.consumed = Len(data) THEN queue
                                 ELSE <<Drop(data, shown.consumed)>> \o queue
    /\ UNCHANGED <<program, stream, sent, eof, ip, results, waiting>>

(* handle_read: pop a buffer, then join the following ones to it.          *)
HandleRead ==
  /\ ~waiting /\ joined = <<>> /\ Blocked
  /\ input_buffer # <<>>
  /\ Show(Head(input_buffer), Tail(input_buffer), FALSE)

HandleReadJoin ==
  /\ joined # <<>>
  /\ input_buffer # <<>>
  /\ Show(joined \o Head(input_buffer), Tail(input_buffer), TRUE)

(* Mutant: an operation that consumed nothing stays blocked.               *)
StillBlockedAlways == TRUE

(* Blocked: nothing was joined, and the operation can't tell yet.          *)
StillBlocked == ~ready_to_evaluate(Op, ctx) /\ ~did_join

(* No more buffers: push back what there is.                               *)
HandleReadPushFront ==
  /\ joined # <<>>
  /\ input_buffer = <<>>
  /\ input_buffer' = <<joined>>
  /\ joined' = <<>> /\ did_join' = FALSE
  /\ waiting' = StillBlocked
  /\ UNCHANGED <<program, stream, sent, eof, ip, ctx, results, consumed>>

(* handle_read when the queue is empty: handle_eof, or blocked.            *)
HandleEof ==
  /\ ~waiting /\ joined = <<>> /\ Blocked
  /\ input_buffer = <<>>
  /\ IF eof THEN ctx' = [ctx EXCEPT !.eof = TRUE] /\ UNCHANGED waiting
            ELSE waiting' = TRUE /\ UNCHANGED ctx
  /\ UNCHANGED <<program, stream, sent, eof, input_buffer, joined, did_join, ip, results,
                 consumed>>
-----------------------------------------------------------------------------
Interpreter == StepReady \/ HandleRead \/ HandleReadJoin \/ HandleReadPushFront \/ HandleEof

Next ==
  \/ \E n \in 1..Len(stream) : Receive(n)
  \/ ReceiveEof \/ NotifiedByOthers \/ Interpreter

(* The interpreter loop keeps running; the peer and the others owe nothing.*)
Spec == Init /\ [][Next]_vars /\ WF_vars(Interpreter)
-----------------------------------------------------------------------------
(* The reference: what an operation means on the text s that follows on    *)
(* the connection, with no regard to how it arrives. Decided(op, s): s is  *)
(* enough to tell; Meaning(op, s): the value and the octets it covers.     *)
TerminatedAt(t, s) == {k \in 0..Len(s) : StartsWith(Drop(s, k), t)}
NonDigits(s) == {k \in 1..Len(s) : ~IsDigit(s[k])}

(* op.escape_sequence stands for op.escape_char; the terminator ends it.   *)
Unescape(op, s) ==
  LET text[k \in 0..Len(s)] ==
        LET here == Drop(s, k)
        IN  IF here = <<>> THEN [value |-> <<>>, ends |-> -1]
            ELSE IF StartsWith(here, op.escape_sequence)
              THEN LET more == text[k + Len(op.escape_sequence)]
                   IN  [more EXCEPT !.value = op.escape_char \o @]
            ELSE IF StartsWith(here, op.terminator)
              THEN [value |-> <<>>, ends |-> k + Len(op.terminator)]
            ELSE [text[k + 1] EXCEPT !.value = <<s[k + 1]>> \o @]
  IN  text[0]

HoldsFor(c, s, ended) ==
  CASE c.kind = "eof" -> s = <<>> /\ ended
    [] c.kind = "until" -> TerminatedAt(c.octets, s) # {}
    [] c.kind = "literal" -> StartsWith(s, c.octets)
Excluded(c, s, ended) ==
  CASE c.kind = "eof" -> s # <<>>
    [] c.kind = "until" -> ended
    [] c.kind = "literal" -> ended \/ Take(s, Min({Len(s), Len(c.octets)})) #
                                        Take(c.octets, Min({Len(s), Len(c.octets)}))

Decided(op, s, ended) ==
  CASE op.kind = "static" -> Len(s) >= Len(op.contents)
    [] op.kind = "int32"  -> Len(s) >= 4
    [] op.kind = "int"    -> NonDigits(s) # {}
    [] op.kind = "until"  -> TerminatedAt(op.terminator, s) # {}
    [] op.kind = "escape" -> Unescape(op, s).ends # -1
    [] op.kind = "ahead"  -> ~IsStrictPrefix(s, op.terminator)
    [] op.kind = "look"   ->
         \/ \E k \in DOMAIN op.conditions : HoldsFor(op.conditions[k], s, ended)
         \/ \A k \in DOMAIN op.conditions : Excluded(op.conditions[k], s, ended)

Covers(value, length) == [value |-> value, length |-> length]

Meaning(op, s, ended) ==
  IF ~Decided(op, s, ended) THEN Covers(ProtocolMismatchError, 0) ELSE
  CASE op.kind = "static" ->
         Covers(IF IsPrefix(op.contents, s) THEN Bool(TRUE) ELSE ProtocolMismatchError,
                Len(op.contents))
    [] op.kind = "int32" -> Covers(Int32(NativeInt32(s)), 4)
    [] op.kind = "int" ->
         LET digits == Take(s, Min(NonDigits(s)) - 1)
         IN  Covers(IF digits = <<48>> THEN Int32(0)
                    ELSE IF Decimal(digits) = 0 \/ Decimal(digits) > INT_MAX
                      THEN ProtocolMismatchError
                    ELSE Int32(Decimal(digits)),
                    Len(digits))
    [] op.kind = "until" ->
         LET k == Min(TerminatedAt(op.terminator, s))
         IN  Covers(OctetsValue(Take(s, k)), k + Len(op.terminator))
    [] op.kind = "escape" ->
         Covers(OctetsValue(Unescape(op, s).value), Unescape(op, s).ends)
    [] op.kind = "ahead" ->
         IF IsPrefix(op.terminator, s) THEN Covers(InterruptGenerator, Len(op.terminator))
                                       ELSE Covers(Bool(FALSE), 0)
    [] op.kind = "look" ->
         LET holds == {k \in DOMAIN op.conditions : HoldsFor(op.conditions[k], s, ended)}
         IN  Covers(IF holds = {} THEN ProtocolMismatchError
                    ELSE Result("target", <<op.conditions[Min(holds)].target>>), 0)

(* How the network cuts the stream into buffers, and when, makes no        *)
(* difference: every operation that returned has returned what it means on *)
(* the whole stream, from where the previous one ended, and has consumed   *)
(* just that. (An operation that eof makes fail may have taken octets.)    *)
FramingIndependent ==
  \A k \in DOMAIN results :
    LET from  == IF k = 1 THEN 0 ELSE results[k - 1].upto
        means == Meaning(program[k], Drop(stream, from), TRUE)
    IN  /\ results[k].value = means.value
        /\ results[k].value # ProtocolMismatchError =>
             results[k].upto = from + means.length

(* No operation waits for what it does not need: when what was received    *)
(* decides the current operation, it returns, without more data or eof.    *)
(* (transitionlookahead.hpp:41 says that of the lookahead: it is ready     *)
(* "when any condition can be definitively matched or rejected".)          *)
DecidedIsEvaluated ==
  \A k \in 1..Max({Len(p) : p \in Programs}) :
    (ip = k /\ ~AtEnd /\ Decided(Op, SubSeq(stream, consumed + 1, sent), FALSE))
      ~> (ip # k)
-----------------------------------------------------------------------------
(* The reads for which FramingIndependent holds in general. An escaped     *)
(* read takes octets again; static octets are compared as far as a NUL; an *)
(* empty terminator is only seen once there is an octet; and of two        *)
(* conditions of a lookahead that can both hold of one text, the one that  *)
(* arrives first decides.                                                  *)
CannotBothHold(c, d) ==
  /\ c.kind = "literal" /\ d.kind = "literal"
  /\ ~IsPrefix(c.octets, d.octets) /\ ~IsPrefix(d.octets, c.octets)

PlainRead(op) ==
  \/ /\ op.kind = "static" /\ op.contents \in Seq(Octets)
     /\ \A k \in DOMAIN op.contents : op.contents[k] # 0
  \/ op.kind \in {"int32", "int"}
  \/ op.kind \in {"until", "ahead"} /\ op.terminator \in Seq(Octets) \ {<<>>}
  \/ /\ op.kind = "look"
     /\ DOMAIN op.conditions \subseteq Nat
     /\ \A k \in DOMAIN op.conditions :
          \/ op.conditions[k].kind = "eof"
          \/ /\ op.conditions[k].kind \in {"until", "literal"}
             /\ op.conditions[k].octets \in Seq(Octets) \ {<<>>}
     /\ \A j, k \in DOMAIN op.conditions :
          op.conditions[j].kind # "eof" /\ op.conditions[k].kind # "eof" =>
            \/ /\ op.conditions[j].kind = op.conditions[k].kind
               /\ op.conditions[j].octets = op.conditions[k].octets
            \/ CannotBothHold(op.conditions[j], op.conditions[k])
PlainPrograms ==
  \A p \in Programs : Len(p) \in Nat /\ \A k \in 1..Len(p) : PlainRead(p[k])

(* The inductive invariant. A buffer is what follows a position of the     *)
(* stream; a queue is what lies between two positions, cut somewhere.      *)
Follows(buffer, from) ==
  /\ from + Len(buffer) <= Len(stream)
  /\ \A k \in 1..Len(buffer) : buffer[k] = stream[from + k]
Cut(queue, from, to) ==
  \E cut \in [1..(Len(queue) + 1) -> 0..Len(stream)] :
    /\ cut[1] = from /\ cut[Len(queue) + 1] = to
    /\ \A k \in 1..Len(queue) :
         queue[k] # <<>> /\ Follows(queue[k], cut[k]) /\ cut[k + 1] = cut[k] + Len(queue[k])

(* Where the current operation began.                                      *)
Began == IF results = <<>> THEN 0 ELSE results[Len(results)].upto

Contexts == [buffer : Seq(Octets), ready : BOOLEAN, eof : BOOLEAN]

TypeOK ==
  /\ program \in Programs /\ stream \in Streams
  /\ sent \in 0..Len(stream) /\ consumed \in 0..Len(stream)
  /\ eof \in BOOLEAN /\ did_join \in BOOLEAN /\ waiting \in BOOLEAN
  /\ input_buffer \in Seq(Seq(Octets)) /\ joined \in Seq(Octets)
  /\ ip \in Nat /\ ctx \in Contexts

(* Nothing that was sent and not consumed is lost or out of place; an      *)
(* operation that is being shown more has not consumed anything.           *)
FrameInv ==
  /\ Follows(joined, consumed) /\ Cut(input_buffer, consumed + Len(joined), sent)
  /\ joined # <<>> => ~AtEnd /\ Op.kind # "int32" /\ consumed = Began
  /\ eof => sent = Len(stream)
  /\ ctx.eof => consumed = Len(stream)
  /\ ~AtEnd => ip = Len(results) + 1

(* What the context c of an operation that has consumed the stream up to a *)
(* position has to do with the stream.                                     *)
EndsAt(t, k) ==
  k + Len(t) <= Len(stream) /\ \A j \in 1..Len(t) : stream[k + j] = t[j]
Kept(op, c, upto) ==
  CASE op.kind = "static" ->
         /\ c.buffer = <<>> \/ Len(c.buffer) = Len(op.contents)
         /\ Follows(c.buffer, Began) /\ upto = Began + Len(c.buffer)
    [] op.kind = "int32" ->
         /\ Len(c.buffer) <= 4
         /\ Follows(c.buffer, Began) /\ upto = Began + Len(c.buffer)
    [] op.kind = "int" ->
         IF c.ready
           THEN /\ Follows(c.buffer, Began) /\ upto = Began + Len(c.buffer)
                /\ \A k \in 1..Len(c.buffer) : IsDigit(c.buffer[k])
                /\ upto < Len(stream) /\ ~IsDigit(stream[upto + 1])
           ELSE upto = Began
    [] op.kind = "until" ->
         IF c.ready
           THEN /\ Follows(c.buffer, Began)
                /\ upto = Began + Len(c.buffer) + Len(op.terminator)
                /\ EndsAt(op.terminator, Began + Len(c.buffer))
                /\ \A k \in 0..(Len(c.buffer) - 1) : ~EndsAt(op.terminator, Began + k)
           ELSE upto = Began
    [] op.kind = "ahead" ->
         /\ Follows(c.buffer, Began)
         /\ upto = Began + IF StartsWith(c.buffer, op.terminator)
                                 THEN Len(op.terminator) ELSE 0
    [] op.kind = "look" -> Follows(c.buffer, Began) /\ upto = Began
KeptInv == ~AtEnd => Kept(Op, ctx, consumed)

IInv == TypeOK /\ FrameInv /\ KeptInv /\ FramingIndependent
=============================================================================
