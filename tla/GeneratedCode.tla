---------------------------- MODULE GeneratedCode ----------------------------
(***************************************************************************)
(* The C++ the code generator writes for a protocol: a parser for each     *)
(* message an agent reads, a serializer for each it writes, the sans-IO    *)
(* state machine that owns them, and what the generated runner asks of it. *)
(*                                                                         *)
(* A transition is what the analysis makes of a message (Protocol): [name, *)
(* writes, data, actions, target]. Loops and members of tuples are left    *)
(* out: what is generated for them names members that the generated types  *)
(* do not have, and does not compile.                                      *)
(***************************************************************************)
EXTENDS Values

(* ProtocolInfo takes the transitions of a state from an unordered_map:    *)
(* an agent reads with its parsers in any order.                           *)
OrdersIn(states, s) == SetToSeqs({t \in Range(states[s]) : ~t.writes})
Orders(states) ==
  {o \in [DOMAIN states -> UNION {OrdersIn(states, s) : s \in DOMAIN states}] :
     \A s \in DOMAIN states : o[s] \in OrdersIn(states, s)}

(* An int field is a C++ integer of that many bits, 32 unless it says.     *)
map_int_type(type) ==
  LET Param(p, default) == IF p \in DOMAIN type.params THEN type.params[p] ELSE default
      bits == Param("bits", 32)
  IN  [unsigned |-> Param("unsigned", FALSE), bits |-> IF bits \in {8, 16, 32, 64} THEN bits ELSE 32]
-----------------------------------------------------------------------------
(* The parser of one message: how far it is, and a buffer for each field.  *)
Fields(t) == {t.actions[k].path[1] : k \in {j \in DOMAIN t.actions : t.actions[j].kind = "until"}}

NewParser(t) == [stage |-> 1, complete |-> FALSE,
                 buffer |-> [f \in Fields(t) |-> <<>>]]

ParseResult(status, consumed, parser) ==
  [status |-> status, consumed |-> consumed, parser |-> parser]

At(input, p, octets) == StartsWith(Drop(input, p), octets)

(* The text up to the terminator, with escapes replaced. Only this input   *)
(* is searched: what is kept of an earlier one is not.                     *)
Search(a, input) ==
  LET Escape(p)  == has_value(a.escape) /\ At(input, p, a.escape[1].sequence)
      Hits(from) == {p \in from..Len(input) - Len(a.terminator) :
                       Escape(p) \/ At(input, p, a.terminator)}
      after[from \in 0..Len(input)] ==
        LET pos  == Min(Hits(from))
            upto == SubSeq(input, from + 1, pos)
            rest == after[pos + Len(a.escape[1].sequence)]
        IN  IF Hits(from) = {}
              THEN [found |-> FALSE, text |-> Drop(input, from), rest |-> <<>>]
            ELSE IF Escape(pos)
              THEN [rest EXCEPT !.text = upto \o a.escape[1].character \o @]
            ELSE [found |-> TRUE, text |-> upto, rest |-> Drop(input, pos + Len(a.terminator))]
  IN  after[0]

Keep(p, field, text) == [p EXCEPT !.buffer[field] = @ \o text]

(* Whether the input cannot hold the static octets yet.                    *)
TooShort(input, octets) == Len(input) < Len(octets)

(* A stage, and how far it gets: a parser that completes it goes on with   *)
(* the next one.                                                           *)
Staged(status, p, rest) == [status |-> status, parser |-> p, rest |-> rest]

ParseStatic(a, p, input) ==
  IF TooShort(input, a.octets) THEN Staged("NeedMoreData", p, input)
  ELSE IF ~StartsWith(input, a.octets) THEN Staged("Error", p, input)
  ELSE Staged("Complete", [p EXCEPT !.stage = @ + 1], Drop(input, Len(a.octets)))

KeepText(a, p, s) ==
  LET kept == Keep(p, a.path[1], s.text)
  IN  IF s.found THEN Staged("Complete", [kept EXCEPT !.stage = @ + 1], s.rest)
                 ELSE Staged("NeedMoreData", kept, <<>>)

ParseUntil(a, p, input) == KeepText(a, p, Search(a, input))

(* What parse() returns after the last stage it came to.                   *)
Returned(input, end) ==
  ParseResult(end.status, Len(input) - Len(end.rest),
              [end.parser EXCEPT !.complete = end.status = "Complete"])

Advance(a, last) ==
  IF last.status # "Complete" THEN last
  ELSE IF a.kind = "static" THEN ParseStatic(a, last.parser, last.rest)
  ELSE ParseUntil(a, last.parser, last.rest)

Stages(t, p, input) ==
  LET upto[k \in p.stage..Len(t.actions) + 1] ==
        IF k = p.stage THEN Staged("Complete", p, input)
        ELSE Advance(t.actions[k - 1], upto[k - 1])
  IN  upto

parse(t, p, input) == Returned(input, Stages(t, p, input)[Len(t.actions) + 1])

(* std::stoul and std::stol of white space, a sign and digits, with        *)
(* anything behind them, then the cast to the field's type. nullopt: they  *)
(* throw, for there are no digits, or more than a long of 64 bits holds.   *)
(* (Up to nine digits fit any type of 32 bits, and TLC's integers.)        *)
White == (9..13) \cup {32}
Leading(text, set) ==
  Take(text, Min({k \in DOMAIN text : text[k] \notin set} \cup {Len(text) + 1}) - 1)

NumberOf(type, text) ==
  LET c        == map_int_type(type)
      rest     == Drop(text, Len(Leading(text, White)))
      negative == rest # <<>> /\ rest[1] = 45
      digits   == Leading(IF rest # <<>> /\ rest[1] \in {43, 45} THEN Tail(rest) ELSE rest,
                          48..57)
      short    == Len(digits) <= 9
      most     == IF c.unsigned THEN 2^64 - 1 ELSE IF negative THEN 2^63 ELSE 2^63 - 1
      value    == (IF negative THEN -1 ELSE 1) * Decimal(digits)
      wrapped  == value % 2^c.bits
  IN  IF digits = <<>> \/ (~short /\ Decimal(digits) > most) THEN nullopt
      ELSE IF short /\ c.bits >= 32 /\ (negative => ~c.unsigned) THEN Just(value)
      ELSE IF c.unsigned \/ wrapped < 2^(c.bits - 1) THEN Just(wrapped)
      ELSE Just(wrapped - 2^c.bits)

take_field(t, p, f) ==
  LET text == p.buffer[f]  number == NumberOf(t.data[f], text)
  IN  IF t.data[f].name # "int" THEN Just(OctetsValue(text))
      ELSE IF text = <<>> THEN Just(Int32(0))
      ELSE IF ~has_value(number) THEN nullopt
      ELSE Just(Int32(number[1]))

take_data(t, p) == AllOf([f \in Fields(t) |-> take_field(t, p, f)])
-----------------------------------------------------------------------------
(* The serializer: a chunk for each action, as far as the first empty one. *)
Chunk(a, data) ==
  IF a.kind = "static" THEN a.octets
  ELSE LET v    == data[a.path[1]]
           text == IF v.tag = "int" THEN _inttoascii(v).data ELSE v.data
       IN  IF has_value(a.escape) THEN apply_escape_replacement(text, a.escape[1]) ELSE text

Serialized(t, data) ==
  LET chunks == [k \in DOMAIN t.actions |-> Chunk(t.actions[k], data)]
      last   == Min({k \in DOMAIN chunks : chunks[k] = <<>>} \cup {Len(chunks) + 1}) - 1
  IN  FlattenSeq(Take(chunks, last))
-----------------------------------------------------------------------------
(* The state machine of an agent. reads: the transitions by which it reads *)
(* in its current state.                                                   *)
StateMachine(states) ==
  LET all == {t \in UNION {Range(states[s]) : s \in DOMAIN states} : ~t.writes}
  IN  [current_state |-> "Open", has_message |-> FALSE, message_state |-> "Open",
       has_error |-> FALSE, thrown |-> FALSE, output_buffer |-> <<>>,
       pending |-> [s \in DOMAIN states |-> nullopt],
       parsers |-> [n \in {t.name : t \in all} |->
                      NewParser(CHOOSE t \in all : t.name = n)]]

is_closed(sm) == sm.current_state = "Closed"

Reset(parsers, reads, from, to) ==
  LET names == {reads[k].name : k \in from..to}
  IN  [n \in DOMAIN parsers |->
         IF n \in names THEN NewParser(CHOOSE t \in Range(reads) : t.name = n) ELSE parsers[n]]

Received(sm, consumed, progressed) ==
  [machine |-> sm, consumed |-> consumed, progressed |-> progressed]

(* A parser is done: its message waits for take_<state>_message().         *)
Completed(sm, reads, k, result) ==
  LET t == reads[k]  data == take_data(t, result.parser)
  IN  IF ~has_value(data) THEN Received([sm EXCEPT !.thrown = TRUE], 0, TRUE)
      ELSE Received(
             [sm EXCEPT !.pending[t.target] = Just([name |-> t.name, data |-> data[1]]),
                        !.has_message = TRUE, !.message_state = t.target,
                        !.current_state = t.target, !.parsers = Reset(@, reads, 1, Len(reads))],
             result.consumed, TRUE)

(* The parsers of the state in order: the first, the k-th, that completes  *)
(* or asks for more is the one; those that fail are reset, except the last.*)
FirstNotFailed(results) ==
  Min({k \in DOMAIN results : results[k].status # "Error"} \cup {Len(results)})

Settle(sm, reads, result, k) ==
  LET failed == [sm EXCEPT !.parsers = Reset(@, reads, 1, k - 1)]
      tried  == [failed EXCEPT !.parsers[reads[k].name] = result.parser]
  IN  IF result.status = "Complete" THEN Completed(failed, reads, k, result)
      ELSE IF result.status = "NeedMoreData"
        THEN Received([tried EXCEPT !.parsers = Reset(@, reads, k + 1, Len(reads))],
                      result.consumed, TRUE)
      ELSE Received(tried, IF k = 1 THEN result.consumed ELSE 0, FALSE)

TryParsers(sm, reads, data) ==
  LET results == [k \in DOMAIN reads |-> parse(reads[k], sm.parsers[reads[k].name], data)]
      first   == FirstNotFailed(results)
  IN  IF reads = <<>> THEN Received(sm, 0, FALSE)
      ELSE Settle(sm, reads, results[first], first)

on_bytes_received(reads, sm, data) ==
  LET r == TryParsers(sm, reads, data)
  IN  IF data = <<>> \/ is_closed(sm) \/ sm.has_error THEN Received(sm, 0, FALSE)
      ELSE IF ~r.progressed /\ r.consumed = 0
        THEN [r EXCEPT !.machine.has_error = TRUE]
      ELSE r

take_message(sm, s) == [sm EXCEPT !.has_message = FALSE, !.pending[s] = nullopt]

(* Mutants: a partial write takes one octet too many from the buffer; any  *)
(* write clears it.                                                        *)
bytes_writtenOneMore(sm, count) ==
  [sm EXCEPT !.output_buffer = IF count >= Len(@) THEN <<>> ELSE Drop(@, count + 1)]
bytes_writtenAll(sm, count) == [sm EXCEPT !.output_buffer = <<>>]

bytes_written(sm, count) ==
  [sm EXCEPT !.output_buffer = IF count >= Len(@) THEN <<>> ELSE Drop(@, count)]

(* Mutant: sending does not move the machine.                              *)
sendStays(sm, t, data) == [sm EXCEPT !.output_buffer = @ \o Serialized(t, data)]

send(sm, t, data) ==
  [sm EXCEPT !.output_buffer = @ \o Serialized(t, data), !.current_state = t.target]
=============================================================================
