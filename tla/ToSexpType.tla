----------------------------- MODULE ToSexpType -----------------------------
(***************************************************************************)
(* to_sexp_type of src/clvm/SExp.py: a Python value becomes a tree of CLVM *)
(* objects, with no recursion, by a stack of values and a stack of         *)
(* operations.  An operation that puts a converted value into a pair or in *)
(* front of a list says where on the stack that pair or list is.           *)
(*                                                                         *)
(* Python values are records, told apart by their field: bytes, str (its   *)
(* encoding), int, none, object (what bytes(v) gives), opaque, tuple and   *)
(* list.  CLVM objects are the atoms and pairs of SExps; a pair may have   *)
(* Python values in it until they are converted.                           *)
(***************************************************************************)
EXTENDS Casts

VARIABLES stack,       \* values, converted or not
          ops,         \* operations to be done, the last one first
          items, into, \* locals of the loop over a list: the elements to come
                       \* and the position of the new list
          converting   \* "no", "ops", "items", "done" or "raised"

conversion == <<stack, ops, items, into, converting>>

Bytes(b)  == [bytes |-> b]
PyInt(n)  == [int |-> n]
Tuple(s)  == [tuple |-> s]
List(s)   == [list |-> s]
Opaque    == [opaque |-> TRUE]
Kind(v)   == CHOOSE k \in DOMAIN v : TRUE

looks_like_clvm_object(v) == Kind(v) \in {"atom", "pair"}

Convertible(v) == Kind(v) \in {"bytes", "str", "int", "none", "object"}

convert_atom_to_bytes(v) ==
    CASE Kind(v) = "bytes"  -> v.bytes
      [] Kind(v) = "str"    -> v.str
      [] Kind(v) = "int"    -> int_to_bytes(v.int)
      [] Kind(v) = "none"   -> <<>>
      [] Kind(v) = "object" -> v.object

Convert     == [op |-> "convert"]
SetLeft(t)  == [op |-> "set_left",  target |-> t]
SetRight(t) == [op |-> "set_right", target |-> t]
Prepend(t)  == [op |-> "prepend",   target |-> t]

ConversionInit ==
    /\ stack = <<>> /\ ops = <<>> /\ items = <<>> /\ into = 0
    /\ converting = "no"

\* to_sexp_type(v) is called; SExp.to does that for what is no CLVM object, and
\* parts that are CLVM objects are not converted, so the test for one in the
\* conversion itself (line 84) never succeeds
Start(v) ==
    /\ ~looks_like_clvm_object(v)
    /\ stack' = <<v>> /\ ops' = <<Convert>> /\ converting' = "ops"
    /\ UNCHANGED <<items, into>>

-----------------------------------------------------------------------------
Doing(op) == converting = "ops" /\ ops # <<>> /\ Last(ops).op = op

Becomes(s, o) == stack' = s /\ ops' = o /\ UNCHANGED <<items, into, converting>>

ValueError == converting' = "raised" /\ UNCHANGED <<stack, ops, items, into>>

\* what is pushed for a part that has to be converted
Pushed(part, op) == IF looks_like_clvm_object(part) THEN <<>> ELSE op

\* Mutant of ConvertTuple: the left side is pushed also if it needs no conversion.
ConvertTuple_AlwaysPushed ==
    /\ Doing("convert") /\ Kind(Last(stack)) = "tuple"
    /\ LET v == Last(stack).tuple
           target == Len(stack)
           left   == v[1]
           right  == v[2]
       IN  IF Len(v) # 2 THEN ValueError
           ELSE Becomes(Append(Front(stack), Pair(left, right))
                          \o Pushed(right, <<right>>) \o <<left>>,
                        Front(ops) \o Pushed(right, <<SetRight(target), Convert>>)
                                   \o Pushed(left, <<SetLeft(target), Convert>>))

ConvertTuple ==
    /\ Doing("convert") /\ Kind(Last(stack)) = "tuple"
    /\ LET v == Last(stack).tuple
           target == Len(stack)
           left   == v[1]
           right  == v[2]
       IN  IF Len(v) # 2 THEN ValueError
           ELSE Becomes(Append(Front(stack), Pair(left, right))
                          \o Pushed(right, <<right>>) \o Pushed(left, <<left>>),
                        Front(ops) \o Pushed(right, <<SetRight(target), Convert>>)
                                   \o Pushed(left, <<SetLeft(target), Convert>>))

ConvertList ==
    /\ Doing("convert") /\ Kind(Last(stack)) = "list"
    /\ stack' = Append(Front(stack), Null) /\ ops' = Front(ops)
    /\ items' = Last(stack).list /\ into' = Len(stack)
    /\ converting' = "items"

\* one turn of `for _ in v'
PushItem ==
    /\ converting = "items" /\ items # <<>>
    /\ stack' = Append(stack, Head(items))
    /\ ops' = Append(ops, Prepend(into)) \o Pushed(Head(items), <<Convert>>)
    /\ items' = Tail(items)
    /\ UNCHANGED <<into, converting>>

EndItems ==
    /\ converting = "items" /\ items = <<>>
    /\ converting' = "ops" /\ into' = 0
    /\ UNCHANGED <<stack, ops, items>>

ConvertAtom ==
    /\ Doing("convert") /\ Kind(Last(stack)) \notin {"tuple", "list"}
    /\ IF Convertible(Last(stack))
       THEN Becomes(Append(Front(stack), Atom(convert_atom_to_bytes(Last(stack)))), Front(ops))
       ELSE ValueError

\* the value on top is taken off and, with what is at its target below it,
\* makes what is there from now on
AtTarget == stack[Last(ops).target]
Put(made) == Becomes([Front(stack) EXCEPT ![Last(ops).target] = made], Front(ops))

DoSetLeft  == Doing("set_left")  /\ Put(Pair(Last(stack), Rest(AtTarget)))
DoSetRight == Doing("set_right") /\ Put(Pair(First(AtTarget), Last(stack)))

\* Mutant of DoPrepend: the list is put in front of the value.
DoPrepend_Appends == Doing("prepend") /\ Put(Pair(AtTarget, Last(stack)))

DoPrepend  == Doing("prepend") /\ Put(Pair(Last(stack), AtTarget))

\* `internal error' unless there is exactly one value
EndConversion ==
    /\ converting = "ops" /\ ops = <<>>
    /\ converting' = IF Len(stack) = 1 THEN "done" ELSE "raised"
    /\ UNCHANGED <<stack, ops, items, into>>

ConversionStep == \/ ConvertTuple \/ ConvertList \/ PushItem \/ EndItems \/ ConvertAtom
                  \/ DoSetLeft \/ DoSetRight \/ DoPrepend \/ EndConversion

-----------------------------------------------------------------------------
(***************************************************************************)
(* Properties                                                              *)
(***************************************************************************)
\* how many of the first i operations put the value on top somewhere
Puts(o, i) == Cardinality({ j \in 1..i : o[j].op # "convert" })

\* There is always one value more than there are operations that take one off
\* the stack, so `internal error' is never raised.
OneIsLeft == converting \in {"ops", "done"} => Len(stack) = 1 + Puts(ops, Len(ops))

\* Targets stay right while the stack grows and shrinks above them: when
\* the turn of an operation comes its target is below the value that it puts
\* there, and is a pair whose sides can be set.
TargetsAreBelow ==
    converting \in {"ops", "items"} =>
        \A i \in DOMAIN ops :
            ops[i].op # "convert" =>
                /\ ops[i].target \in 1..Puts(ops, i)
                /\ ops[i].op \in {"set_left", "set_right"} => IsPair(stack[ops[i].target])

\* The stack is what the operations that are left were made for.
StacksInStep == OneIsLeft /\ TargetsAreBelow
=============================================================================
