-------------------------- MODULE MCInputHandling ---------------------------
(* Programs of read operations and streams for TLC: texts made of '\r',    *)
(* '\n' and '1'.                                                           *)
EXTENDS InputHandling

CONSTANTS Alphabet, MaxStream
CR == 13
LF == 10
ONE == 49
CRLF == <<CR, LF>>

TextsUpTo(n) == UNION {[1..k -> Alphabet] : k \in 0..n}
AllStreams == TextsUpTo(MaxStream)

Static(s) == [kind |-> "static", contents |-> s]
Until(t)  == [kind |-> "until", terminator |-> t]
Ahead(t)  == [kind |-> "ahead", terminator |-> t]
ReadInt32 == [kind |-> "int32"]
ReadInt   == [kind |-> "int"]
Look(conditions) == [kind |-> "look", conditions |-> conditions]
Cond(k, octets, target) == [kind |-> k, octets |-> octets, target |-> target]

(* A line, a number in a line, a list of lines, a request or the end.      *)
LinePrograms ==
  { <<Static(<<ONE>>), Until(CRLF)>>,
    <<ReadInt, Static(CRLF)>>,
    <<ReadInt32, Ahead(<<LF>>)>>,
    <<Ahead(CRLF), Until(CRLF), Ahead(CRLF)>>,
    <<Look(<<Cond("until", CRLF, "Line"), Cond("eof", <<>>, "Closed")>>), Until(CRLF)>> }
=============================================================================
