------------------------------ MODULE MCSession ------------------------------
(* A request with headers, two responses told apart by their first octet,  *)
(* and the end: the shape of tests/data/023-source-code-http-client-server.*)
EXTENDS Session

CRLF == <<13, 10>>
Lit(s) == StringLiteral(s)
Id(path) == IdentifierReference(path)
Line(tokens) == <<TokenSequence(tokens, nullopt, nullopt), Terminator(CRLF)>>
Msg(name, agent, when, then, data, parts) ==
  [name |-> name, agent |-> agent, when |-> when, then |-> then, data |-> data,
   parts |-> parts]

Headers == ArrayType(TupleType([value |-> StrType]))
HeaderLoop ==
  <<MessageForLoop("header", "headers",
      <<TokenSequence(<<Lit(<<72>>), Id(<<"header", "value">>)>>, Just(CRLF), nullopt)>>),
    Terminator(CRLF)>>
HttpMessages ==
  << Msg("Request", "Client", "Open", "AwaitResponse",
         [target |-> StrType, headers |-> Headers],
         <<TokenSequence(<<Id(<<"target">>)>>, nullopt, nullopt), Terminator(<<32>>)>>
           \o HeaderLoop),
     Msg("Ok", "Server", "AwaitResponse", "Open", [reason |-> StrType],
         Line(<<Lit(<<50>>), Id(<<"reason">>)>>)),
     Msg("Failed", "Server", "AwaitResponse", "Open", [reason |-> StrType],
         Line(<<Lit(<<53>>), Id(<<"reason">>)>>)),
     Msg("Close", "Client", "Open", "Closed", <<>>, <<>>) >>

Header(s) == Dictionary([value |-> OctetsValue(s)])
HttpPayloads ==
  [Request |-> {[target |-> OctetsValue(<<>>), headers |-> DynamicList(<<Header(<<10>>)>>)],
                [target |-> OctetsValue(<<65, 13>>),
                 headers |-> DynamicList(<<Header(<<>>), Header(<<66>>)>>)]},
   Ok      |-> {[reason |-> OctetsValue(<<13>>)]},
   Failed  |-> {[reason |-> OctetsValue(<<>>)]},
   Close   |-> {<<>>}]

(* The same request with version numbers behind its headers, and the end:  *)
(* a list and a second number in one message.                              *)
VersionMessages ==
  << Msg("Request", "Client", "Open", "AwaitResponse",
         [target |-> StrType, headers |-> Headers, major |-> IntType, minor |-> IntType],
         HttpMessages[1].parts
           \o Line(<<Lit(<<86>>), Id(<<"major">>), Lit(<<46>>), Id(<<"minor">>)>>)),
     HttpMessages[2],
     HttpMessages[4] >>
VersionPayloads ==
  [Request |-> {[target |-> OctetsValue(<<65>>), headers |-> DynamicList(<<Header(<<66>>)>>),
                 major |-> Int32(1), minor |-> Int32(1)]},
   Ok      |-> {[reason |-> OctetsValue(<<>>)]},
   Close   |-> {<<>>}]

(* The factorial of tests/009-recursive-factorial.cpp: calls, conditions   *)
(* and pads of the interpreter alone.                                      *)
Op(op, children) == Node(op, <<>>, children)
Get(name) == Node("LexicalPadGet", name, <<>>)
Literal(v) == Node("Int32Literal", v, <<>>)
Block(tree, names, inherits) == Node("StaticCallable", Callable(tree, names, inherits), <<>>)
FactorialOf(i) == Op("FunctionCall", <<Get("factorial"), Op("DynamicList", <<i>>)>>)
FactorialTree ==
  Op("If", <<Op("LesserEqual", <<Get("i"), Literal(Int32(1))>>),
             Block(Get("i"), <<>>, TRUE),
             Block(Op("Multiply", <<Get("i"),
                     FactorialOf(Op("Subtract", <<Get("i"), Literal(Int32(1))>>))>>),
                   <<>>, TRUE)>>)
FactorialProgram(n) ==
  Op("OpSequence", <<Node("LexicalPadInitializeGlobal", "factorial",
                          <<Block(FactorialTree, <<"i">>, FALSE)>>),
                     FactorialOf(Literal(Int32(n)))>>)
Factorial[n \in 0..10] == IF n <= 1 THEN n ELSE n * Factorial[n - 1]

ASSUME RecursionComputesFactorial ==
  \A n \in 0..10 :
    LET i == Run(NewInterpreter(FactorialProgram(n)))
    IN  i.state = "Exited" /\ i.result = Int32(Factorial[n])
=============================================================================
