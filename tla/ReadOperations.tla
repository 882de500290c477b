--------------------------- MODULE ReadOperations ---------------------------
(***************************************************************************)
(* The operations that read from a connection, as functions of their       *)
(* InputOutputOperationContext: handle_read (what the operation keeps of   *)
(* the data it is shown, and how much of it it consumes),                  *)
(* ready_to_evaluate and operator(). An octet is its number; a buffer is a *)
(* sequence of octets.                                                     *)
(***************************************************************************)
EXTENDS Integers, Sequences, SequencesExt, FiniteSetsExt

Octets == 0..255
NewCtx == [buffer |-> <<>>, ready |-> FALSE, eof |-> FALSE]

(* What operator() returns: a value, an error or the reason it is blocked. *)
Result(tag, data) == [tag |-> tag, data |-> data]
ProtocolMismatchError == Result("ProtocolMismatchError", <<>>)
WaitingForRead        == Result("WaitingForRead", <<>>)
InterruptGenerator    == Result("InterruptGenerator", <<>>)
Bool(b)   == Result("bool", <<b>>)
Int32(n)  == Result("int", <<n>>)
OctetsValue(s) == Result("octets", s)

(* What handle_read leaves and returns.                                    *)
Shown(ctx, consumed) == [ctx |-> ctx, consumed |-> consumed]

Take(s, n) == SubSeq(s, 1, n)
Drop(s, n) == SubSeq(s, n + 1, Len(s))

(* std::string::find, with npos = -1.                                      *)
NPos == -1
Find(s, t, from) ==
  LET found == {p \in from..Len(s) - Len(t) : SubSeq(s, p + 1, p + Len(t)) = t}
  IN  IF found = {} THEN NPos ELSE Min(found)

StartsWith(s, t) == Len(s) >= Len(t) /\ Take(s, Len(t)) = t
-----------------------------------------------------------------------------
(* ReadStaticOctets: op.contents.                                          *)
StaticRead(op, ctx, in) ==
  IF Len(in) < Len(op.contents)
    THEN Shown(ctx, 0)
    ELSE Shown([ctx EXCEPT !.buffer = Take(in, Len(op.contents))], Len(op.contents))

StaticReady(op, ctx) == Len(ctx.buffer) >= Len(op.contents) \/ ctx.eof

(* strncmp of two texts, t no longer than s: it stops behind a NUL.        *)
EqualTexts(s, t) ==
  \A k \in DOMAIN t : s[k] = t[k] \/ \E j \in 1..k - 1 : t[j] = 0

StaticEval(op, ctx) ==
  IF Len(ctx.buffer) < Len(op.contents)
    THEN IF ctx.eof THEN ProtocolMismatchError ELSE WaitingForRead
    ELSE IF EqualTexts(ctx.buffer, op.contents) THEN Bool(TRUE) ELSE ProtocolMismatchError
-----------------------------------------------------------------------------
(* ReadInt32Native: the four octets may come one handle_read at a time.    *)
(* The host is little-endian.                                              *)
Int32Read(op, ctx, in) ==
  LET expecting == 4 - Len(ctx.buffer)
      n == IF Len(in) > expecting THEN expecting ELSE Len(in)
  IN  Shown([ctx EXCEPT !.buffer = @ \o Take(in, n)], n)

Int32Ready(op, ctx) == Len(ctx.buffer) >= 4 \/ ctx.eof

NativeInt32(b) ==
  b[1] + 2^8 * b[2] + 2^16 * b[3] + 2^24 * (IF b[4] < 128 THEN b[4] ELSE b[4] - 256)

Int32Eval(op, ctx) ==
  IF Len(ctx.buffer) < 4
    THEN IF ctx.eof THEN ProtocolMismatchError ELSE WaitingForRead
    ELSE Int32(NativeInt32(ctx.buffer))
-----------------------------------------------------------------------------
(* ReadIntFromAscii: digits up to an octet that is not one, which is left. *)
(* What the loop takes for a digit is '0'..'8'.                            *)
IsDigit(o) == o >= 48 /\ o < 57

DigitCount(in) == LET stops == {k \in 1..Len(in) : ~IsDigit(in[k])}
                  IN  IF stops = {} THEN Len(in) ELSE Min(stops) - 1

(* Mutant: the end of the buffer ends the number.                          *)
IntReadEager(op, ctx, in) ==
  Shown([ctx EXCEPT !.buffer = Take(in, DigitCount(in)), !.ready = TRUE], DigitCount(in))

IntRead(op, ctx, in) ==
  IF DigitCount(in) = Len(in)
    THEN Shown(ctx, 0)
    ELSE Shown([ctx EXCEPT !.buffer = Take(in, DigitCount(in)), !.ready = TRUE],
               DigitCount(in))

IntReady(op, ctx) == ctx.ready \/ ctx.eof

(* strtol of digits, in a thread whose errno is not ERANGE. "0" is 0; any  *)
(* other text that converts to 0 ("00", or nothing at all) is a mismatch.  *)
INT_MAX == 2147483647
Decimal(digits) == FoldLeft(LAMBDA n, o : 10 * n + (o - 48), 0, digits)

IntEval(op, ctx) ==
  LET converted == Decimal(ctx.buffer)
  IN  IF ctx.ready
        THEN IF ctx.buffer = <<48>> THEN Int32(0)
             ELSE IF converted = 0 \/ converted > INT_MAX THEN ProtocolMismatchError
             ELSE Int32(converted)
        ELSE IF ctx.eof THEN ProtocolMismatchError ELSE WaitingForRead
-----------------------------------------------------------------------------
(* ReadOctetsUntilTerminator without escape_sequence: op.terminator.       *)
UntilRead(op, ctx, in) ==
  LET pos == Find(in, op.terminator, 0)
  IN  IF pos = NPos
        THEN Shown(ctx, 0)
        ELSE Shown([ctx EXCEPT !.buffer = Take(in, pos), !.ready = TRUE],
                   pos + Len(op.terminator))

(* With op.escape_sequence, which becomes op.escape_char: the escapes and  *)
(* what precedes them go to the buffer as the loop meets them, whether or  *)
(* not the terminator follows.                                             *)
EscapeRead(op, ctx, in) ==
  LET scan[pos \in 0..Len(in)] ==
        LET term == Find(in, op.terminator, pos)
            esc  == Find(in, op.escape_sequence, pos)
            rest == scan[esc + Len(op.escape_sequence)]
        IN  IF pos = Len(in) \/ (term = NPos /\ esc = NPos)
              THEN [text |-> <<>>, consumed |-> 0]
            ELSE IF esc # NPos /\ (term = NPos \/ esc <= term)
              THEN [rest EXCEPT !.text = SubSeq(in, pos + 1, esc) \o op.escape_char \o @]
            ELSE [text |-> SubSeq(in, pos + 1, term),
                  consumed |-> term + Len(op.terminator)]
  IN  Shown([ctx EXCEPT !.buffer = @ \o scan[0].text, !.ready = scan[0].consumed > 0],
            scan[0].consumed)

UntilReady(op, ctx) == ctx.ready \/ ctx.eof

UntilEval(op, ctx) ==
  IF ctx.ready THEN OctetsValue(ctx.buffer)
  ELSE IF ctx.eof THEN ProtocolMismatchError ELSE WaitingForRead
-----------------------------------------------------------------------------
(* TerminateListIfReadAhead: op.terminator. It keeps what it is shown and  *)
(* consumes only the terminator.                                           *)
(* Mutant: it only looks, and leaves the terminator.                       *)
AheadReadPeeks(op, ctx, in) == Shown([ctx EXCEPT !.buffer = in], 0)

AheadRead(op, ctx, in) ==
  Shown([ctx EXCEPT !.buffer = in],
        IF StartsWith(in, op.terminator) THEN Len(op.terminator) ELSE 0)

MayStillMatch(buffer, t) ==
  buffer = <<>> \/ (Len(buffer) < Len(t) /\ Take(t, Len(buffer)) = buffer)

AheadReady(op, ctx) == MayStillMatch(ctx.buffer, op.terminator) => ctx.eof

AheadEval(op, ctx) ==
  IF MayStillMatch(ctx.buffer, op.terminator)
    THEN IF ctx.eof THEN ProtocolMismatchError ELSE WaitingForRead
    ELSE IF StartsWith(ctx.buffer, op.terminator) THEN InterruptGenerator ELSE Bool(FALSE)
-----------------------------------------------------------------------------
(* TransitionLookahead: op.conditions, a sequence of conditions, each with *)
(* its target. match_condition says whether a condition is valid and       *)
(* whether it is permanently invalid.                                      *)
LookRead(op, ctx, in) == Shown([ctx EXCEPT !.buffer = in], 0)

Match(valid, never) == [valid |-> valid, never |-> never]

MatchEOF(ctx) ==
  IF ctx.buffer = <<>> THEN Match(ctx.eof, ctx.eof) ELSE Match(FALSE, TRUE)

MatchUntilTerminator(ctx, terminator) ==
  IF Find(ctx.buffer, terminator, 0) # NPos THEN Match(TRUE, FALSE) ELSE Match(FALSE, ctx.eof)

(* A literal is only valid when the buffer holds more than the literal.    *)
MatchLiteral(ctx, c) ==
  IF Len(ctx.buffer) <= Len(c)
    THEN Match(FALSE, IF Take(c, Len(ctx.buffer)) = ctx.buffer THEN ctx.eof ELSE TRUE)
    ELSE IF StartsWith(ctx.buffer, c) THEN Match(TRUE, FALSE) ELSE Match(FALSE, TRUE)

match_condition(ctx, c) ==
  CASE c.kind = "eof"     -> MatchEOF(ctx)
    [] c.kind = "until"   -> MatchUntilTerminator(ctx, c.octets)
    [] c.kind = "literal" -> MatchLiteral(ctx, c.octets)

ValidConditions(op, ctx) ==
  {k \in DOMAIN op.conditions : match_condition(ctx, op.conditions[k]).valid}
AllPermanentlyInvalid(op, ctx) ==
  \A k \in DOMAIN op.conditions : match_condition(ctx, op.conditions[k]).never

LookReady(op, ctx) == ValidConditions(op, ctx) # {} \/ AllPermanentlyInvalid(op, ctx)

LookEval(op, ctx) ==
  IF ValidConditions(op, ctx) # {}
    THEN Result("target", <<op.conditions[Min(ValidConditions(op, ctx))].target>>)
  ELSE IF AllPermanentlyInvalid(op, ctx) THEN ProtocolMismatchError
  ELSE WaitingForRead
-----------------------------------------------------------------------------
(* The dispatch of Interpreter over the operation's variant.               *)
handle_read(op, ctx, in) ==
  CASE op.kind = "static" -> StaticRead(op, ctx, in)
    [] op.kind = "int32"  -> Int32Read(op, ctx, in)
    [] op.kind = "int"    -> IntRead(op, ctx, in)
    [] op.kind = "until"  -> UntilRead(op, ctx, in)
    [] op.kind = "escape" -> EscapeRead(op, ctx, in)
    [] op.kind = "ahead"  -> AheadRead(op, ctx, in)
    [] op.kind = "look"   -> LookRead(op, ctx, in)

ready_to_evaluate(op, ctx) ==
  CASE op.kind = "static" -> StaticReady(op, ctx)
    [] op.kind = "int32"  -> Int32Ready(op, ctx)
    [] op.kind = "int"    -> IntReady(op, ctx)
    [] op.kind \in {"until", "escape"} -> UntilReady(op, ctx)
    [] op.kind = "ahead"  -> AheadReady(op, ctx)
    [] op.kind = "look"   -> LookReady(op, ctx)

Evaluate(op, ctx) ==
  CASE op.kind = "static" -> StaticEval(op, ctx)
    [] op.kind = "int32"  -> Int32Eval(op, ctx)
    [] op.kind = "int"    -> IntEval(op, ctx)
    [] op.kind \in {"until", "escape"} -> UntilEval(op, ctx)
    [] op.kind = "ahead"  -> AheadEval(op, ctx)
    [] op.kind = "look"   -> LookEval(op, ctx)
=============================================================================
