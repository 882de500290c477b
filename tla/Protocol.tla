------------------------------ MODULE Protocol ------------------------------
(***************************************************************************)
(* From a protocol description to the two programs that speak it: semantic *)
(* analysis (what the parts of a message make each agent read or write)    *)
(* and the generation of operation trees.                                  *)
(*                                                                         *)
(* A protocol is a sequence of messages, in the order in which the maps    *)
(* of the code yield them: [name, agent, when, then, data, parts]. A type  *)
(* is [name, params]; parts are tokens (with their terminator and escape   *)
(* options), terminators and loops.                                        *)
(***************************************************************************)
EXTENDS Interpreter

StrType == [name |-> "str", params |-> <<>>]
IntType == [name |-> "int", params |-> <<>>]
TupleType(members) == [name |-> "tuple", params |-> members]
ArrayType(type) == [name |-> "array", params |-> [element_type |-> type]]

StringLiteral(octets) == [kind |-> "lit", octets |-> octets]
IdentifierReference(path) == [kind |-> "id", path |-> path]
TokenSequence(tokens, terminator, escape) ==
  [kind |-> "tokens", tokens |-> tokens, terminator |-> terminator, escape |-> escape]
Terminator(octets) == [kind |-> "terminator", octets |-> octets]
MessageForLoop(variable, collection, block) ==
  [kind |-> "loop", variable |-> variable, collection |-> collection, block |-> block]

-----------------------------------------------------------------------------
(* Actions on the wire.                                                    *)
StaticAction(octets) == [kind |-> "static", octets |-> octets]
ReadOctetsUntilTerminator(terminator, id, escape) ==
  [kind |-> "until", terminator |-> terminator, path |-> id.path, escape |-> escape]
WriteFromIdentifier(id, escape) ==
  [kind |-> "identifier", path |-> id.path, escape |-> escape]
Loop(part, terminator, actions) ==
  [kind |-> "loop", variable |-> part.variable, collection |-> part.collection,
   terminator |-> terminator, actions |-> actions]

(* The reader takes a field up to the literal that follows it.             *)
RECURSIVE TokensToReadActions(_, _)
TokensToReadActions(tokens, escape) ==
  LET field == tokens[1].kind = "id"
      size  == IF field THEN 2 ELSE 1
      rest  == TokensToReadActions(Drop(tokens, size), escape)
  IN  IF tokens = <<>> THEN Just(<<>>)
      ELSE IF field /\ (Len(tokens) < 2 \/ tokens[2].kind # "lit") THEN nullopt
      ELSE IF ~has_value(rest) THEN nullopt
      ELSE Just(<<IF field THEN ReadOctetsUntilTerminator(tokens[2].octets, tokens[1], escape)
                           ELSE StaticAction(tokens[1].octets)>> \o rest[1])

(* Tokens end at a terminator of their own, at the terminator that follows *)
(* (not both) or at the end of the parts; a loop needs a terminator.       *)
RECURSIVE parts_to_read_actions(_)
parts_to_read_actions(parts) ==
  LET part   == parts[1]
      closed == Len(parts) >= 2 /\ parts[2].kind = "terminator"
      full   == part.tokens \o (IF closed THEN <<StringLiteral(parts[2].octets)>>
                                ELSE IF has_value(part.terminator)
                                  THEN <<StringLiteral(part.terminator[1])>> ELSE <<>>)
      inner  == parts_to_read_actions(part.block)
      here   == IF part.kind = "tokens"
                  THEN IF full = <<>> \/ (closed /\ has_value(part.terminator))
                            \/ (~closed /\ Len(parts) > 1)
                         THEN nullopt ELSE TokensToReadActions(full, part.escape)
                ELSE IF part.kind = "loop" /\ closed /\ has_value(inner)
                  THEN Just(<<Loop(part, parts[2].octets, inner[1])>>)
                ELSE nullopt
      rest   == parts_to_read_actions(Drop(parts, IF closed THEN 2 ELSE 1))
  IN  IF parts = <<>> THEN Just(<<>>)
      ELSE IF has_value(here) /\ has_value(rest) THEN Just(here[1] \o rest[1]) ELSE nullopt

TokensToWriteActions(tokens, escape) ==
  [k \in DOMAIN tokens |-> IF tokens[k].kind = "lit" THEN StaticAction(tokens[k].octets)
                           ELSE WriteFromIdentifier(tokens[k], escape)]

RECURSIVE parts_to_write_actions(_)
parts_to_write_actions(parts) ==
  LET part   == parts[1]
      closed == Len(parts) >= 2 /\ parts[2].kind = "terminator"
      full   == part.tokens \o (IF has_value(part.terminator)
                                  THEN <<StringLiteral(part.terminator[1])>> ELSE <<>>)
      inner  == parts_to_write_actions(part.block)
      here   == CASE part.kind = "tokens" ->
                       IF full = <<>> THEN nullopt
                       ELSE Just(TokensToWriteActions(full, part.escape))
                  [] part.kind = "terminator" -> Just(<<StaticAction(part.octets)>>)
                  [] part.kind = "loop" ->
                       IF closed /\ has_value(inner)
                         THEN Just(<<Loop(part, parts[2].octets, inner[1])>>) ELSE nullopt
      rest   == parts_to_write_actions(Drop(parts, IF part.kind = "loop" THEN 2 ELSE 1))
  IN  IF parts = <<>> THEN Just(<<>>)
      ELSE IF has_value(here) /\ has_value(rest) THEN Just(here[1] \o rest[1]) ELSE nullopt

(* What an agent does with a message: writes its own, reads the other's.   *)
analyze_transition(message, agent) ==
  LET writes  == message.agent = agent
      actions == IF writes THEN parts_to_write_actions(message.parts)
                           ELSE parts_to_read_actions(message.parts)
  IN  IF ~has_value(actions) THEN nullopt
      ELSE Just([name |-> message.name, writes |-> writes, data |-> message.data,
                 actions |-> actions[1], target |-> message.then])

StateNames(protocol) ==
  {protocol[k].when : k \in DOMAIN protocol} \cup {protocol[k].then : k \in DOMAIN protocol}

(* For each state, the transitions of the messages sent in it.             *)
analyze_agent(protocol, agent) ==
  LET From(s) == SelectSeq(protocol, LAMBDA m : m.when = s)
      Of(s)   == [k \in DOMAIN From(s) |-> analyze_transition(From(s)[k], agent)]
  IN  IF \E s \in StateNames(protocol) : ~has_value(AllOf(Of(s))) THEN nullopt
      ELSE Just([s \in StateNames(protocol) |-> AllOf(Of(s))[1]])

(* What the code generator starts from: an agent's states, analyzed.       *)
collect_transitions(protocol, agent) == analyze_agent(protocol, agent)[1]
-----------------------------------------------------------------------------
(* Operation trees for the actions. types: what get_type answers.          *)
create_get_type_wrapper(types, variable, collection) ==
  IF collection \notin DOMAIN types \/ "element_type" \notin DOMAIN types[collection].params
    THEN nullopt
    ELSE Just((variable :> types[collection].params["element_type"]) @@ types)

ReadUntil(terminator, escape) ==
  Node("Read", IF has_value(escape)
                 THEN [kind |-> "escape", terminator |-> terminator,
                       escape_char |-> escape[1].character,
                       escape_sequence |-> escape[1].sequence]
                 ELSE [kind |-> "until", terminator |-> terminator], <<>>)

read_value_from_octets(type, action) ==
  LET until == ReadUntil(action.terminator, action.escape)
  IN  CASE type.name = "int" -> Just(Node("Read", [kind |-> "int"], <<until>>))
        [] type.name = "str" -> Just(until)
        [] OTHER -> nullopt

write_octets_from_value(type, value, escape) ==
  LET Write(v) == IF has_value(escape) THEN Node("WriteOctetsWithEscape", escape[1], <<v>>)
                                       ELSE Node("WriteOctets", <<>>, <<v>>)
  IN  CASE type.name = "int" -> Just(Write(Node("IntToAscii", <<>>, <<value>>)))
        [] type.name = "str" -> Just(Write(value))
        [] OTHER -> nullopt

(* The type at the end of a path into tuples, and the access to it.        *)
RECURSIVE recursive_variable_access(_, _, _)
recursive_variable_access(type, path, access) ==
  LET member == type.params[path[1]]
  IN  IF path[1] \notin DOMAIN type.params THEN nullopt
      ELSE IF Len(path) = 1
        THEN Just([type |-> member, member |-> path[1], access |-> access])
      ELSE IF member.name # "tuple" THEN nullopt
      ELSE recursive_variable_access(member, Tail(path),
                                     Node("DictionaryGet", path[1], <<access>>))

visit_read(types, action) ==
  LET id    == action.path[1]
      Set(v) == Just(Node("LexicalPadSet", id, <<v>>))
      found == recursive_variable_access(types[id], Tail(action.path),
                                         Node("LexicalPadGet", id, <<>>))
      value == read_value_from_octets(IF Len(action.path) = 1 THEN types[id]
                                      ELSE found[1].type, action)
  IN  IF id \notin DOMAIN types THEN nullopt
      ELSE IF Len(action.path) > 1 /\ ~has_value(found) THEN nullopt
      ELSE IF ~has_value(value) THEN nullopt
      ELSE IF Len(action.path) = 1 THEN Set(value[1])
      ELSE Set(Node("DictionarySet", found[1].member, <<found[1].access, value[1]>>))

visit_write(types, action) ==
  LET id    == action.path[1]
      pad   == Node("LexicalPadGet", id, <<>>)
      found == recursive_variable_access(types[id], Tail(action.path), pad)
  IN  IF id \notin DOMAIN types THEN nullopt
      ELSE IF Len(action.path) = 1 THEN write_octets_from_value(types[id], pad, action.escape)
      ELSE IF ~has_value(found) THEN nullopt
      ELSE write_octets_from_value(found[1].type,
             Node("DictionaryGet", found[1].member, <<found[1].access>>), action.escape)

(* Mutant: nothing ends the list.                                          *)
WriteLoopOpen(action, ops) ==
  Node("FunctionCallForEach", TRUE,
    <<Node("StaticCallable",
           Callable(Node("OpSequence", <<>>, ops), <<action.variable>>, TRUE), <<>>),
      Node("LexicalPadGet", action.collection, <<>>)>>)

WriteLoop(action, ops) ==
  Node("OpSequence", <<>>,
    <<Node("FunctionCallForEach", TRUE,
        <<Node("StaticCallable",
               Callable(Node("OpSequence", <<>>, ops), <<action.variable>>, TRUE), <<>>),
          Node("LexicalPadGet", action.collection, <<>>)>>),
      Node("WriteStaticOctets", action.terminator, <<>>)>>)

(* The loop variable is made for elements that are tuples, and for no      *)
(* others.                                                                 *)
initialize_loop_variable(types, action) ==
  LET type == types[action.collection]
  IN  IF type.name = "array" /\ type.params["element_type"].name = "tuple"
        THEN Just(Node("LexicalPadInitialize", action.variable,
                       <<Node("DictionaryInitialize", <<>>, <<>>)>>))
        ELSE nullopt

LoopBody(action, initialize, ops) ==
  <<initialize, Node("OpSequence", <<>>, ops),
    Node("Read", [kind |-> "ahead", terminator |-> action.terminator], <<>>),
    Node("LexicalPadGet", action.variable, <<>>)>>

ReadLoop(action, initialize, ops) ==
  Node("LexicalPadSet", action.collection,
    <<Node("GenerateList", <<>>,
        <<Node("StaticCallable",
               Callable(Node("OpSequence", <<>>, LoopBody(action, initialize, ops)), <<>>, TRUE),
               <<>>)>>)>>)

RECURSIVE actions_to_optreenodes(_, _, _)
visit_action(writes, types, action) ==
  LET inner == create_get_type_wrapper(types, action.variable, action.collection)
      ops   == actions_to_optreenodes(writes, inner[1], action.actions)
      init  == initialize_loop_variable(inner[1], action)
  IN  CASE action.kind = "static" ->
             Just(IF writes THEN Node("WriteStaticOctets", action.octets, <<>>)
                  ELSE Node("Read", [kind |-> "static", contents |-> action.octets], <<>>))
        [] action.kind = "until" -> visit_read(types, action)
        [] action.kind = "identifier" -> visit_write(types, action)
        [] action.kind = "loop" ->
             IF ~has_value(inner) THEN nullopt
             ELSE IF ~has_value(ops) THEN nullopt
             ELSE IF writes THEN Just(WriteLoop(action, ops[1]))
             ELSE IF ~has_value(init) THEN nullopt
             ELSE Just(ReadLoop(action, init[1], ops[1]))

actions_to_optreenodes(writes, types, actions) ==
  AllOf([k \in DOMAIN actions |-> visit_action(writes, types, actions[k])])

generate_transition_info(t) ==
  LET ops == actions_to_optreenodes(t.writes, t.data, t.actions)
  IN  IF ~has_value(ops) THEN nullopt
      ELSE Just([tree |-> Node("OpSequence", <<>>,
                   <<Node("OpSequence", <<>>, ops[1]),
                     Node("DynamicList", <<>>, <<Node("LexicalPadAsDict", <<>>, <<>>)>>)>>),
                 names |-> SetToSeq(DOMAIN t.data), target |-> t.target])
-----------------------------------------------------------------------------
(* How a reader recognises a message: by its first action.                 *)
Condition(kind, octets, target) == [kind |-> kind, octets |-> octets, target |-> target]

RECURSIVE get_transition_condition(_, _)
get_transition_condition(actions, target) ==
  IF actions = <<>> THEN nullopt
  ELSE CASE actions[1].kind = "until" ->
              Just(Condition("until", actions[1].terminator, target))
         [] actions[1].kind = "static" -> Just(Condition("literal", actions[1].octets, target))
         [] actions[1].kind = "loop" -> get_transition_condition(actions[1].actions, target)
         [] OTHER -> nullopt

(* A message that leads to Closed is recognised by the end of the input.   *)
TransitionCondition(t) ==
  IF t.target = "Closed" THEN Just(Condition("eof", <<>>, t.name))
  ELSE IF t.writes THEN nullopt
  ELSE get_transition_condition(t.actions, t.name)

generate_read_state_callback(transitions) ==
  LET conditions == AllOf([k \in DOMAIN transitions |-> TransitionCondition(transitions[k])])
  IN  IF transitions = <<>> \/ ~has_value(conditions) THEN nullopt
      ELSE Just(Node("DynamicList", <<>>,
             <<Node("Read", [kind |-> "look", conditions |-> conditions[1]], <<>>),
               Node("LexicalPadGet", "dictionary", <<>>)>>))

StateCallback(name, transitions) ==
  IF name = "Closed" \/ (transitions # <<>> /\ transitions[1].writes)
    THEN Just(Node("UnaryCallback", name, <<Node("LexicalPadGet", "dictionary", <<>>)>>))
    ELSE generate_read_state_callback(transitions)

(* One agent sends in a state.                                             *)
StateInfo(name, transitions) ==
  LET infos == AllOf([k \in DOMAIN transitions |-> generate_transition_info(transitions[k])])
      callback == StateCallback(name, transitions)
      mixed == \E j, k \in DOMAIN transitions : transitions[j].writes # transitions[k].writes
      Named(n) == CHOOSE k \in DOMAIN transitions : transitions[k].name = n
  IN  IF ~has_value(infos) \/ mixed THEN nullopt
      ELSE IF ~has_value(callback) THEN nullopt
      ELSE Just([callback |-> callback[1],
                 transitions |-> [n \in {transitions[k].name : k \in DOMAIN transitions} |->
                                    infos[1][Named(n)]]])

construct_state_map(states) ==
  LET infos == [s \in DOMAIN states |-> StateInfo(s, states[s])]
  IN  IF infos = <<>> \/ \E s \in DOMAIN states : ~has_value(infos[s]) THEN nullopt
      ELSE Just([s \in DOMAIN states |-> infos[s][1]])

(* InterpretedProgram::generate_client and generate_server: both agents    *)
(* must be analyzed for either to have a program.                          *)
generate_program(protocol, agent) ==
  LET other  == IF agent = "Client" THEN "Server" ELSE "Client"
      states == analyze_agent(protocol, agent)
      map    == construct_state_map(states[1])
  IN  IF ~has_value(states) \/ ~has_value(analyze_agent(protocol, other)) THEN nullopt
      ELSE IF ~has_value(map) THEN nullopt
      ELSE Just(Node("StateMachineOperation", map[1], <<>>))
=============================================================================
