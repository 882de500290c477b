------------------------- MODULE MCGeneratedSession -------------------------
(* The shape of examples/smtpserver/smtp.networkprotocoldsl: a greeting, a *)
(* mail whose content is dot-stuffed, two answers, and the end.            *)
EXTENDS GeneratedSession, Protocol

CRLF == <<13, 10>>
DOT  == 46
Lit(s) == StringLiteral(s)
Id(name) == IdentifierReference(<<name>>)
Tokens(tokens) == TokenSequence(tokens, nullopt, nullopt)
Msg(name, agent, when, then, data, parts) ==
  [name |-> name, agent |-> agent, when |-> when, then |-> then, data |-> data,
   parts |-> parts]

Uint8 == [name |-> "int", params |-> [unsigned |-> TRUE, bits |-> 8]]
Line(tokens) == <<Tokens(tokens), Terminator(CRLF)>>
Escape(character, sequence) == Just([character |-> character, sequence |-> sequence])

SmtpLike(terminator, escape) ==
  << Msg("Greeting", "Server", "Open", "Command", [code |-> Uint8, msg |-> StrType],
         <<Tokens(<<Lit(<<50>>), Id("code")>>), Terminator(<<32>>)>> \o Line(<<Id("msg")>>)),
     Msg("Mail", "Client", "Command", "MailSent", [content |-> StrType],
         <<TokenSequence(<<Lit(<<77>>), Lit(<<65, 58>>), Id("content")>>, Just(terminator), escape)>>),
     Msg("Quit", "Client", "Command", "Quitting", <<>>, Line(<<Lit(<<81>>)>>)),
     Msg("Accepted", "Server", "MailSent", "Command", [msg |-> StrType],
         Line(<<Lit(<<50>>), Id("msg")>>)),
     Msg("Refused", "Server", "MailSent", "Command", [msg |-> StrType],
         Line(<<Lit(<<53>>), Id("msg")>>)),
     Msg("Goodbye", "Server", "Quitting", "Closed", [code |-> Uint8],
         Line(<<Lit(<<50>>), Id("code")>>)) >>

(* Content that ends at a line's end, with line ends in it marked; and the *)
(* example's content, that ends at a line with a dot, with dots stuffed.   *)
FoldedMessages  == SmtpLike(CRLF, Escape(CRLF, <<13, DOT, 10>>))
StuffedMessages == SmtpLike(CRLF \o <<DOT>> \o CRLF,
                            Escape(CRLF \o <<DOT>>, CRLF \o <<DOT, DOT>>))

(* The analysis accepts both protocols, for both agents.                   *)
ASSUME ProtocolsAnalyzed ==
  \A a \in Agents : /\ has_value(analyze_agent(FoldedMessages, a))
                    /\ has_value(analyze_agent(StuffedMessages, a))

FoldedStates == [a \in Agents |-> collect_transitions(FoldedMessages, a)]
SmtpFinal == {"Quitting", "Closed"}

SmtpPayloads ==
  [Greeting |-> {[code |-> Int32(250), msg |-> OctetsValue(<<13>>)]},
   Mail     |-> {[content |-> OctetsValue(<<65>> \o CRLF \o <<DOT>>)],
                 [content |-> OctetsValue(CRLF \o CRLF)]},
   Quit     |-> {<<>>},
   Accepted |-> {[msg |-> OctetsValue(<<10, 65>>)]},
   Refused  |-> {[msg |-> OctetsValue(<<13, 32>>)]},
   Goodbye  |-> {[code |-> Int32(0)]}]

(* A whole message read at once is the message written, for every content. *)
ASSUME StuffingUndone ==
  LET w == collect_transitions(StuffedMessages, "Client")["Command"][1]
      r == collect_transitions(StuffedMessages, "Server")["Command"][1]
  IN  \A n \in 1..5 : \A content \in [1..n -> {13, 10, DOT}] :
        LET octets == Serialized(w, [content |-> OctetsValue(content)])
            result == parse(r, NewParser(r), octets)
        IN  /\ result.status = "Complete" /\ result.consumed = Len(octets)
            /\ result.parser.buffer["content"] = content

(* What the theorems on GeneratedSession assume of a protocol holds here.  *)
ASSUME MessagesReadAlone == TurnsAlternate /\ NamesDiffer /\ PlainOrRead
=============================================================================
