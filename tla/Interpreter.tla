----------------------------- MODULE Interpreter -----------------------------
(***************************************************************************)
(* The interpreter of one connection as a function on its state: a stack   *)
(* of continuations, each with a lexical pad and a stack of frames, and    *)
(* the operations a frame executes. What it reads is module                *)
(* ReadOperations. A node of an operation tree is [op, arg, children]; the *)
(* arguments of an operation's constructor are its arg.                    *)
(*                                                                         *)
(* A pad's parent is the pad of a continuation below it, so a pad is kept  *)
(* with its continuation and `parent` is a position in the stack (0: none).*)
(***************************************************************************)
EXTENDS Values

Node(op, arg, children) == [op |-> op, arg |-> arg, children |-> children]

(* Value, RuntimeError and ReasonForBlockedOperation.                      *)
None      == Result("none", <<>>)
NameError == Result("NameError", <<>>)
Dictionary(members) == Result("dict", members)
DynamicList(values) == Result("list", values)
Callable(tree, names, inherits) ==
  Result("callable", [tree |-> tree, names |-> names, inherits |-> inherits])

WaitingForWrite     == Result("WaitingForWrite", <<>>)
WaitingForCallback  == Result("WaitingForCallback", <<>>)
WaitingCallbackData == Result("WaitingCallbackData", <<>>)
WaitingForCallableInvocation == Result("WaitingForCallableInvocation", <<>>)
WaitingForCallableResult     == Result("WaitingForCallableResult", <<>>)
(* The thread that executes the operation does not come back.              *)
NeverReturns == Result("NeverReturns", <<>>)

IsBlocked(r) == r.tag \in {"WaitingForRead", "WaitingForWrite", "WaitingForCallback",
  "WaitingCallbackData", "WaitingForCallableInvocation", "WaitingForCallableResult",
  "NeverReturns"}
-----------------------------------------------------------------------------
(* How many values an operation takes: its Arguments tuple. (A read        *)
(* operation takes none, whatever children the tree gives it.)             *)
Dynamic == {"OpSequence", "DynamicList"}
Arity(op) ==
  CASE op \in {"Read", "WriteStaticOctets", "LexicalPadGet", "LexicalPadAsDict",
               "DictionaryInitialize", "StaticCallable", "Int32Literal",
               "StateMachineOperation"} -> 0
    [] op \in {"WriteOctets", "WriteOctetsWithEscape", "WriteInt32Native", "IntToAscii",
               "LexicalPadSet", "LexicalPadInitialize", "LexicalPadInitializeGlobal",
               "DictionaryGet", "GenerateList", "UnaryCallback"} -> 1
    [] op \in {"Add", "Subtract", "Multiply", "Eq", "LesserEqual", "DictionarySet",
               "FunctionCall", "FunctionCallForEach"} -> 2
    [] op = "If" -> 3

Reads    == {"Read"}
Writes   == {"WriteStaticOctets", "WriteOctets", "WriteOctetsWithEscape", "WriteInt32Native"}
Controls == {"If", "FunctionCall", "FunctionCallForEach", "GenerateList",
             "StateMachineOperation"}
Pads     == {"LexicalPadGet", "LexicalPadSet", "LexicalPadInitialize",
             "LexicalPadInitializeGlobal", "LexicalPadAsDict"}

initialize_context(op) ==
  CASE op \in Reads \cup Writes -> NewCtx @@ [it |-> 0]
    [] op = "UnaryCallback" -> [called |-> FALSE, value |-> None]
    [] op \in Controls ->
         [callable |-> None, invoked |-> FALSE, value |-> None,
          arglist |-> <<>>, accumulator |-> <<>>, info |-> None]
    [] OTHER -> None

ExecutionStackFrame(node) ==
  [node |-> node, acc |-> <<>>, ctx |-> initialize_context(node.op)]

(* A sequence ends early at an error or at an InterruptGenerator.          *)
has_arguments_ready(f) ==
  IF f.node.op \in Dynamic
    THEN \/ f.acc # <<>> /\ (IsError(Last(f.acc)) \/ IsControl(Last(f.acc)))
         \/ Len(f.acc) >= Len(f.node.children)
    ELSE Len(f.acc) >= Arity(f.node.op)
-----------------------------------------------------------------------------
(* The continuations.                                                      *)
Continuation(tree, pad, parent) ==
  [frames |-> <<ExecutionStackFrame(tree)>>, pad |-> pad, parent |-> parent]

TopFrame(stack) == Last(Last(stack).frames)
SetTopFrame(stack, f) ==
  [stack EXCEPT ![Len(stack)].frames[Len(stack[Len(stack)].frames)] = f]

RECURSIVE prepare(_)
prepare(stack) ==
  LET f == TopFrame(stack)
  IN  IF has_arguments_ready(f) THEN stack
      ELSE prepare([stack EXCEPT ![Len(stack)].frames =
                      Append(@, ExecutionStackFrame(f.node.children[Len(f.acc) + 1]))])
-----------------------------------------------------------------------------
(* Values of their arguments only.                                         *)
(* The left operand's error comes first.                                   *)
OnInts(l, r, result) ==
  IF IsError(l) \/ IsControl(l) THEN l
  ELSE IF l.tag # "int" THEN TypeError
  ELSE IF IsError(r) \/ IsControl(r) THEN r
  ELSE IF r.tag # "int" THEN TypeError ELSE result

Add(l, r)         == OnInts(l, r, Int32(l.data[1] + r.data[1]))
Subtract(l, r)    == OnInts(l, r, Int32(l.data[1] - r.data[1]))
Multiply(l, r)    == OnInts(l, r, Int32(l.data[1] * r.data[1]))
Eq(l, r)          == OnInts(l, r, Bool(l.data[1] = r.data[1]))
LesserEqual(l, r) == OnInts(l, r, Bool(l.data[1] <= r.data[1]))

OpSequence(args) == IF args = <<>> THEN Bool(FALSE) ELSE Last(args)

DictionaryInitialize == Dictionary(<<>>)

(* The overload that returns an error takes it by a reference that is not  *)
(* const, and the arguments are const: an error becomes a TypeError.       *)
DictionaryGet(key, d) ==
  IF d.tag # "dict" THEN TypeError
  ELSE IF key \in DOMAIN d.data THEN d.data[key] ELSE NameError

DictionarySet(key, d, v) ==
  IF IsError(d) THEN d
  ELSE IF d.tag # "dict" THEN TypeError
  ELSE IF IsError(v) THEN v ELSE Dictionary((key :> v) @@ d.data)

Interpreted(node, a) ==
  CASE node.op = "OpSequence"  -> OpSequence(a)
    [] node.op = "DynamicList" -> DynamicList(a)
    [] node.op \in {"StaticCallable", "Int32Literal"} -> node.arg
    [] node.op = "DictionaryInitialize" -> DictionaryInitialize
    [] node.op = "DictionaryGet" -> DictionaryGet(node.arg, a[1])
    [] node.op = "DictionarySet" -> DictionarySet(node.arg, a[1], a[2])
    [] node.op = "IntToAscii"  -> _inttoascii(a[1])
    [] node.op = "Add"         -> Add(a[1], a[2])
    [] node.op = "Subtract"    -> Subtract(a[1], a[2])
    [] node.op = "Multiply"    -> Multiply(a[1], a[2])
    [] node.op = "Eq"          -> Eq(a[1], a[2])
    [] node.op = "LesserEqual" -> LesserEqual(a[1], a[2])
-----------------------------------------------------------------------------
(* LexicalPad: names resolve outwards.                                     *)
PadWith(stack, name) ==
  LET found[k \in 0..Len(stack)] ==
        IF k = 0 \/ name \in DOMAIN stack[k].pad THEN k ELSE found[stack[k].parent]
  IN  found[Len(stack)]

Done(stack, result) == [stack |-> stack, result |-> result]

LexicalPadGet(stack, name) ==
  LET k == PadWith(stack, name)
  IN  Done(stack, IF k = 0 THEN NameError ELSE stack[k].pad[name])

(* Setting a name returns what it held before.                             *)
LexicalPadSet(stack, name, v) ==
  LET k == PadWith(stack, name)
  IN  IF k = 0 THEN Done(stack, NameError)
      ELSE Done([stack EXCEPT ![k].pad[name] = v], stack[k].pad[name])

(* Initializing a name that is there leaves it. Every chain of parents     *)
(* ends at the root pad.                                                   *)
LexicalPadInitialize(stack, name, v) ==
  Done([stack EXCEPT ![Len(stack)].pad = @ @@ (name :> v)], v)

LexicalPadInitializeGlobal(stack, name, v) ==
  Done([stack EXCEPT ![1].pad = @ @@ (name :> v)], v)

LexicalPadAsDict(stack) == Done(stack, Dictionary(Last(stack).pad))

LexicalPadOp(stack, node, a) ==
  CASE node.op = "LexicalPadGet" -> LexicalPadGet(stack, node.arg)
    [] node.op = "LexicalPadSet" -> LexicalPadSet(stack, node.arg, a[1])
    [] node.op = "LexicalPadInitialize" -> LexicalPadInitialize(stack, node.arg, a[1])
    [] node.op = "LexicalPadInitializeGlobal" ->
         LexicalPadInitializeGlobal(stack, node.arg, a[1])
    [] node.op = "LexicalPadAsDict" -> LexicalPadAsDict(stack)
-----------------------------------------------------------------------------
(* The operations that write: the octets, and how far they are written.    *)
Int32Octets(n) == LET u == IF n < 0 THEN n + INT_MAX + 1 ELSE n
                  IN  <<u % 2^8, (u \div 2^8) % 2^8, (u \div 2^16) % 2^8,
                        (u \div 2^24) + (IF n < 0 THEN 128 ELSE 0)>>

(* A context starts with the octets to write, and completes when they are. *)
(* At eof what is left cannot be written.                                  *)
Writing(ctx, octets) ==
  LET c == IF ctx.buffer = <<>> THEN [ctx EXCEPT !.buffer = octets] ELSE ctx
  IN  [ctx |-> c,
       result |-> IF c.it = Len(c.buffer) THEN Int32(0)
                  ELSE IF c.eof THEN ProtocolMismatchError ELSE WaitingForWrite]

NotOctets(ctx, v) ==
  [ctx |-> ctx, result |-> IF IsError(v) \/ IsControl(v) THEN v ELSE TypeError]

WriteStaticOctets(ctx, contents) == Writing(ctx, contents)
WriteOctets(ctx, v) ==
  IF v.tag = "octets" THEN Writing(ctx, v.data) ELSE NotOctets(ctx, v)
WriteOctetsWithEscape(ctx, escape, v) ==
  IF v.tag = "octets" THEN Writing(ctx, apply_escape_replacement(v.data, escape))
  ELSE NotOctets(ctx, v)
WriteInt32Native(ctx, v) == Writing(ctx, Int32Octets(v.data[1]))

WriteOp(node, ctx, a) ==
  CASE node.op = "WriteStaticOctets" -> WriteStaticOctets(ctx, node.arg)
    [] node.op = "WriteOctets" -> WriteOctets(ctx, a[1])
    [] node.op = "WriteOctetsWithEscape" -> WriteOctetsWithEscape(ctx, node.arg, a[1])
    [] node.op = "WriteInt32Native" -> WriteInt32Native(ctx, a[1])

get_write_buffer(ctx) == Drop(ctx.buffer, ctx.it)
handle_write(ctx, n)  == [ctx EXCEPT !.it = Min({@ + n, Len(ctx.buffer)})]

UnaryCallback(ctx) == IF ~ctx.called THEN WaitingForCallback
                      ELSE IF ctx.value.tag = "none" THEN WaitingCallbackData ELSE ctx.value
-----------------------------------------------------------------------------
(* The control flow operations. A context with no callable yet: what the   *)
(* arguments make of it.                                                   *)
Ctl(ctx, result) == [ctx |-> ctx, result |-> result]

(* The first of the three that is not what it should be decides.           *)
If(ctx, cond, then, else) ==
  LET good == <<cond.tag = "bool", then.tag = "callable", else.tag = "callable">>
      bad  == <<cond, then, else>>[Min({k \in 1..3 : ~good[k]})]
  IN  IF good = <<TRUE, TRUE, TRUE>>
        THEN Ctl([ctx EXCEPT !.callable = IF cond.data[1] THEN then ELSE else],
                 WaitingForCallableInvocation)
        ELSE Ctl(ctx, IF IsError(bad) \/ IsControl(bad) THEN bad ELSE TypeError)

FunctionCall(ctx, callable, arglist) ==
  IF callable.tag # "callable" THEN Ctl(ctx, TypeError)
  ELSE IF arglist.tag # "list" THEN Ctl(ctx, IF IsError(arglist) THEN arglist ELSE TypeError)
  ELSE Ctl([ctx EXCEPT !.callable = callable, !.arglist = arglist.data],
           WaitingForCallableInvocation)

(* For an argument that is no list the overload on a Value is chosen again *)
(* and again: the one that returns TypeError is declared after the call.   *)
FunctionCallForEach(ctx, callable, arglist) ==
  IF callable.tag # "callable" THEN Ctl(ctx, TypeError)
  ELSE IF arglist.tag # "list" THEN Ctl(ctx, NeverReturns)
  ELSE Ctl([ctx EXCEPT !.callable = callable, !.arglist = arglist.data],
           WaitingForCallableInvocation)

GenerateList(ctx, callable) ==
  IF callable.tag # "callable" THEN Ctl(ctx, TypeError)
  ELSE Ctl([ctx EXCEPT !.callable = callable], WaitingForCallableInvocation)

(* A callable has returned ctx.value.                                      *)
Again(ctx) == Ctl([ctx EXCEPT !.accumulator = Append(@, ctx.value), !.value = None,
                              !.invoked = FALSE], WaitingForCallableInvocation)

ForEachReturned(ctx) ==
  IF Len(ctx.accumulator) + 1 < Len(ctx.arglist) THEN Again(ctx)
  ELSE Ctl(ctx, DynamicList(Append(ctx.accumulator, ctx.value)))

GenerateReturned(ctx) ==
  IF IsControl(ctx.value) THEN Ctl(ctx, DynamicList(ctx.accumulator))
  ELSE IF IsError(ctx.value) THEN Ctl(ctx, ctx.value)
  ELSE Again(ctx)
-----------------------------------------------------------------------------
(* StateMachineOperation: arg is the StateMap, a function from the names   *)
(* of states to [callback, transitions], and a transition is [tree, names, *)
(* target]. info: the state it is in or goes to, and in which mode.        *)
_start_state_callback(ctx, states, to) ==
  Ctl([ctx EXCEPT !.callable = Callable(states[to].callback, <<"dictionary">>, TRUE),
                  !.value = None, !.info = [mode |-> "State", to |-> to]],
      WaitingForCallableInvocation)

StateMachineStart(ctx, states) ==
  IF "Open" \notin DOMAIN states THEN Ctl(ctx, NameError)
  ELSE _start_state_callback([ctx EXCEPT !.accumulator = <<Dictionary(<<>>)>>], states, "Open")

_extract_arguments(names, d) ==
  [k \in DOMAIN names |-> IF names[k] \in DOMAIN d THEN d[names[k]] ELSE Bool(FALSE)]

_process_state_return(ctx, states) ==
  LET v == ctx.value  from == ctx.info.to
      name == v.data[1].data  d == v.data[2]

  IN  IF v.tag # "list" THEN Ctl(ctx, IF IsError(v) THEN v ELSE TypeError)
      ELSE IF Len(v.data) # 2 THEN Ctl(ctx, TypeError)
      ELSE IF v.data[1].tag # "target" \/ d.tag # "dict" THEN Ctl(ctx, TypeError)
      ELSE IF from = "Closed" THEN Ctl(ctx, d)
      ELSE IF name[1] \notin DOMAIN states[from].transitions THEN Ctl(ctx, NameError)
      ELSE LET tr == states[from].transitions[name[1]]
           IN  IF tr.target \notin DOMAIN states THEN Ctl(ctx, NameError)
               ELSE Ctl([ctx EXCEPT !.accumulator = _extract_arguments(tr.names, d.data),
                                    !.callable = Callable(tr.tree, tr.names, TRUE),
                                    !.value = None,
                                    !.info = [mode |-> "Transition", to |-> tr.target]],
                        WaitingForCallableInvocation)

_process_transition_return(ctx, states) ==
  LET v == ctx.value
  IN  IF v.tag # "list" THEN Ctl(ctx, IF IsError(v) THEN v ELSE TypeError)
      ELSE IF Len(v.data) # 1 THEN Ctl(ctx, TypeError)
      ELSE IF v.data[1].tag # "dict"
        THEN Ctl(ctx, IF IsError(v.data[1]) THEN v.data[1] ELSE TypeError)
      ELSE _start_state_callback([ctx EXCEPT !.accumulator = <<v.data[1]>>], states,
                                 ctx.info.to)
-----------------------------------------------------------------------------
ControlOp(node, ctx, a) ==
  IF ctx.callable.tag = "none"
    THEN CASE node.op = "If" -> If(ctx, a[1], a[2], a[3])
           [] node.op = "FunctionCall" -> FunctionCall(ctx, a[1], a[2])
           [] node.op = "FunctionCallForEach" -> FunctionCallForEach(ctx, a[1], a[2])
           [] node.op = "GenerateList" -> GenerateList(ctx, a[1])
           [] node.op = "StateMachineOperation" -> StateMachineStart(ctx, node.arg)
  ELSE IF ~ctx.invoked THEN Ctl(ctx, WaitingForCallableInvocation)
  ELSE IF ctx.value.tag = "none" THEN Ctl(ctx, WaitingForCallableResult)
  ELSE CASE node.op \in {"If", "FunctionCall"} -> Ctl(ctx, ctx.value)
         [] node.op = "FunctionCallForEach" -> ForEachReturned(ctx)
         [] node.op = "GenerateList" -> GenerateReturned(ctx)
         [] node.op = "StateMachineOperation" ->
              IF ctx.info.mode = "Transition" THEN _process_transition_return(ctx, node.arg)
                                              ELSE _process_state_return(ctx, node.arg)

(* The element whose turn it is, wrapped or spread.                        *)
ForEachArguments(f) ==
  LET element == f.ctx.arglist[Len(f.ctx.accumulator) + 1]
  IN  IF f.node.arg THEN <<element>> ELSE element.data

(* The arguments a control flow operation gives its callable.              *)
get_argument_list(f) ==
  CASE f.node.op = "StateMachineOperation" -> f.ctx.accumulator
    [] f.node.op = "FunctionCallForEach" -> ForEachArguments(f)
    [] OTHER -> f.ctx.arglist

(* ExecutionStackFrame::execute on the top frame.                          *)
execute(stack) ==
  LET f == TopFrame(stack)
      WithCtx(r) == Done(SetTopFrame(stack, [f EXCEPT !.ctx = r.ctx]), r.result)
  IN  CASE f.node.op \in Reads    -> Done(stack, Evaluate(f.node.arg, f.ctx))
        [] f.node.op \in Writes   -> WithCtx(WriteOp(f.node, f.ctx, f.acc))
        [] f.node.op \in Controls -> WithCtx(ControlOp(f.node, f.ctx, f.acc))
        [] f.node.op \in Pads     -> LexicalPadOp(stack, f.node, f.acc)
        [] f.node.op = "UnaryCallback" -> Done(stack, UnaryCallback(f.ctx))
        [] OTHER -> Done(stack, Interpreted(f.node, f.acc))
-----------------------------------------------------------------------------
(* Continuation::step: one operation of the continuation on top. Unless it *)
(* is blocked, its value e.result goes to the frame below.                 *)
PassDown(e, n, frames) ==
  IF IsBlocked(e.result)
    THEN [stack |-> e.stack, state |-> "Blocked", result |-> e.result]
  ELSE IF frames # <<>>
    THEN [stack |-> [e.stack EXCEPT ![n].frames =
                       [frames EXCEPT ![Len(frames)].acc = Append(@, e.result)]],
          state |-> "Ready", result |-> e.result]
  ELSE [stack |-> e.stack, state |-> "Exited", result |-> e.result]

Executed(e) == PassDown(e, Len(e.stack), Front(Last(e.stack).frames))

ContinuationStep(stack) == Executed(execute(prepare(stack)))

(* Interpreter::step.                                                      *)
Bind(names, args) ==
  [n \in {names[k] : k \in 1..Min({Len(names), Len(args)})} |->
     args[Min({k \in DOMAIN names : names[k] = n})]]

(* For an empty list FunctionCallForEach has no arguments: at(0) throws.   *)
Invoke(stack) ==
  LET f == TopFrame(stack)  c == f.ctx.callable.data
      none == f.node.op = "FunctionCallForEach" /\ f.ctx.arglist = <<>>
  IN  IF none THEN [stack |-> stack, state |-> "Blocked", result |-> NeverReturns]
      ELSE [stack |-> prepare(Append(SetTopFrame(stack, [f EXCEPT !.ctx.invoked = TRUE]),
                        Continuation(c.tree, Bind(c.names, get_argument_list(f)),
                                     IF c.inherits THEN Len(stack) ELSE 1))),
            state |-> "Ready", result |-> WaitingForCallableInvocation]

Return(stack, v) ==
  LET below == Front(stack)  f == TopFrame(below)
  IN  [stack |-> prepare(SetTopFrame(below, [f EXCEPT !.ctx.value = v])),
       state |-> "Ready", result |-> v]

(* What the step of the continuation on top means for the others.          *)
HandleStep(s) ==
  IF s.result.tag = "WaitingForCallableInvocation" THEN Invoke(s.stack)
  ELSE IF s.state = "Exited" /\ Len(s.stack) > 1 THEN Return(s.stack, s.result)
  ELSE s

step(stack) == HandleStep(ContinuationStep(stack))

NewInterpreter(tree) ==
  [stack |-> <<Continuation(tree, <<>>, 0)>>, state |-> "Ready", result |-> None]
=============================================================================
