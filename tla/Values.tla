------------------------------- MODULE Values --------------------------------
(***************************************************************************)
(* What the interpreter and the generated code have in common: the errors  *)
(* among the values, optional values, and how a value is written. An       *)
(* std::optional is a sequence of at most one element.                     *)
(***************************************************************************)
EXTENDS ReadOperations, TLC

TypeError == Result("TypeError", <<>>)
IsError(v)   == v.tag \in {"TypeError", "NameError", "ProtocolMismatchError"}
IsControl(v) == v.tag = "InterruptGenerator"

nullopt == <<>>
Just(x) == <<x>>
has_value(m) == m # nullopt

(* The results in order, unless one of them is nullopt.                    *)
AllOf(maybes) == IF \A k \in DOMAIN maybes : has_value(maybes[k])
                   THEN Just([k \in DOMAIN maybes |-> maybes[k][1]]) ELSE nullopt
-----------------------------------------------------------------------------
Decimals(n) ==
  LET digits[k \in 0..n] == IF k < 10 THEN <<48 + k>>
                            ELSE Append(digits[k \div 10], 48 + (k % 10))
  IN  digits[n]

_inttoascii(v) ==
  IF v.tag = "int"
    THEN OctetsValue(IF v.data[1] < 0 THEN <<45>> \o Decimals(-v.data[1])
                                      ELSE Decimals(v.data[1]))
  ELSE IF IsError(v) \/ IsControl(v) THEN v ELSE TypeError

(* What the escape stands for is replaced by the escape.                   *)
apply_escape_replacement(text, e) ==
  LET from[k \in 0..Len(text)] ==
        IF k = Len(text) THEN <<>>
        ELSE IF StartsWith(Drop(text, k), e.character)
          THEN e.sequence \o from[k + Len(e.character)]
          ELSE <<text[k + 1]>> \o from[k + 1]
  IN  from[0]
==============================================================================
