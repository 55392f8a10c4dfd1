# A specification of clvm

TLA+ modules that model the Python implementation of CLVM (`src/clvm`), TLC
configurations that check them on small instances, and theorems about them
checked by TLAPS. Line numbers refer to the files under `src/clvm` unless a
path says otherwise.

## The system

clvm is a library: nothing in it runs concurrently by itself and nothing is
persisted. What makes it hard is that every algorithm that is recursive on a tree
was written without recursion (trees are deep, and Python's stack is not), with
explicit stacks whose entries must stay in step; that the serialiser keeps a
picture of the state of a *remote* reader and must never be wrong about it; that
costs and sizes have limits that bite in the middle of things; that programs compare
integers by their bytes, so each integer must have one spelling; and that one cache
is keyed by the addresses of objects.

| component | state | operations | what is hard | properties that make it correct |
|---|---|---|---|---|
| program evaluation, `run_program.py` | `op_stack`, `value_stack`, `cost` | one closure for each step: `eval_op`, `swap_op`, `cons_op`, `apply_op`, the callables of `pre_eval_f`; the main loop charges | two stacks in step; order of evaluation and so of errors; the limit on the cost; programs that call themselves | the value and cost, or the error, are those of the recursive definition; no step is free for ever |
| core operators, `core_ops.py` | none | `op_if` ... `op_eq` | errors and costs | nothing is free |
| operators on atoms, `more_ops.py`; integers and bytes, `casts.py` | none | arithmetic, strings, shifts, bits, logic, hashes, points | numbers at the boundaries of a byte, signs, spellings that are too long; ends of strings; charges that must cover what is returned | the operators agree with one another; integers have one spelling; what makes new bytes charges for their length |
| operator table, `operators.py`, `op_utils.py`; costs, `costs.py` | a dictionary, built at import from keywords and the names of functions | `operators_for_dict`, `OperatorDict.__call__`, `default_unknown_op` | a keyword without a function is skipped; opcodes that spell their own cost | each keyword has its function; an unknown operator costs what it would if it were known |
| serialiser, `serialize.py` 50-164 | `write_stack`, `read_op_stack`, the lookup, what is left of `max_size` | a generator that yields bytes, a loop that takes them | the writer's picture of the reader; failure in the middle of a token | the tree arrives or nothing does; back-references cost no space, but for the size prefixes of very long paths |
| deserialiser, `serialize.py` 174-339 | `op_stack`, `val_stack`; a counter, in `sexp_buffer_from_stream` | `_op_read_sexp`, `_op_read_sexp_allow_backrefs`, `_op_cons` | streams from anywhere, cut anywhere, that refer to the value stack itself | no assertion fails; both readers agree where an expression ends |
| atom codec, `serialize.py` 115-150 and 267-325 | the locals of a loop over the bits of the prefix | `atom_to_byte_iterator`, `_atom_from_stream`, `_consume_atom` | five boundaries of sizes, written by one function, read by two, foretold by a fourth | what is written is read, what is cut is refused; the four agree |
| lookup, `read_cache_lookup.py` | `root_hash`, `read_stack`, `count`, `parent_paths_for_child` | `push`, `pop`, `pop2_and_cons`, `find_path` | reference counts of hashes; one hash in several roles; search in a graph that remembers the past | paths lead to what they are for; what is there is found, what is gone is not |
| object cache, `object_cache.py` | `lookup`; `obj_list` inside `get` | `get`, `contains`; `treehash`, `serialized_length` | ids of freed objects come back; shared objects; objects that make their children on demand | values are those of the objects; little work |
| conversion from Python values, `SExp.py` 36-130 | `stack` and `op_stack` of positions | `to_sexp_type`, `SExp.to` | an operation refers to a position of the stack, and to a pair that is changed later | equal to the recursive definition, or refused |
| conversion to Python values, `as_python.py` | `op_stack`, `val_stack` | `_as_python`, `_roll`, `_make_tuple` | three operations that have to come in step; lists told from tuples by what the right side became | equal to the recursive definition |
| equality, `SExp.py` 231-249 | a stack of pairs of trees | `__eq__` | the other side is converted first, and may not convert | equal trees, and nothing else, are equal |

How they interact: `run_program` calls the operator table for each application,
and the operators build s-expressions. `SExp.as_bin` calls `sexp_to_stream`,
whose generator asks two `ObjectCache`s for the hash and the length of each node and
a `ReadCacheLookup` for a path; the bytes go to a stream that `sexp_from_stream`
reads, on another machine perhaps. Python values enter through `SExp.to` and leave
through `as_python`, and `==` calls the first of these.

## Modules

| module | of | extends |
|---|---|---|
| `SExps` | atoms, pairs, lists, paths | community modules |
| `Costs`, `CoreOps` | `costs.py`, `core_ops.py` | `SExps` |
| `Casts`, `MoreOps` | `casts.py`, `more_ops.py` | `CoreOps` |
| `UnknownOps` | `default_unknown_op` | `CoreOps` |
| `Operators` | the table, `OperatorDict.__call__` | `MoreOps`, `UnknownOps` |
| `RunProgram` | `run_program.py` | `SExps`, `Costs` |
| `RunProgramMeaning` | what `run_program` is meant to compute, recursively | `RunProgram` |
| `OperatorLaws` | what holds of the operators `run_program` applies | `RunProgram`, `Operators` |
| `TreeHashes` | `treehash`, `serialized_length` | `SExps` |
| `ReadCacheLookup` | the methods of the class, as operators on a record | `TreeHashes` |
| `LookupClient` | a `ReadCacheLookup` object and any client | `ReadCacheLookup` |
| `TokenStream` | the stream, as tokens with a length | `TreeHashes` |
| `SexpWriter`, `SexpReader` | the two ends | `TokenStream` (and `ReadCacheLookup`) |
| `TreeChannel` | abstract: a tree is delivered, or nothing | - |
| `SexpStream` | writer and reader, composed; implements `TreeChannel` and `LookupClient` | `SexpWriter`, `SexpReader` |
| `SexpReaders` | both readers, on any stream | `SexpReader` |
| `AtomCodec` | an atom as bytes: size prefix, written, cut, read | - |
| `ObjectCache` | the cache and the heap around it | `TreeHashes` |
| `ToSexpType`, `AsPython`, `SexpEquality` | the three loops of the conversions | `SExps` |
| `Conversions` | `SExp.to`, then `as_python`, then `==`, composed | the three |
| `ConversionsMeaning` | what they are meant to compute, recursively | `Conversions` |
| `DataFacts` | lemmas that the proofs share: sequences, counting, recursive functions, induction | `ReadCacheLookup` |
| `...Proofs` | theorems about `RunProgram`, `LookupClient`, `ObjectCache`, `AtomCodec`, `Conversions`, `SexpStream`, `SexpReaders` | the module of the name (and `DataFacts`) |
| `MC...` | constants for TLC, and the knots of the recursive definitions | the module of the name |
| `MCExternals` | stand-ins for sha256 and BLS | - |

`PROJECT.json` maps each definition to the lines it translates.

### RunProgram

The closures on `op_stack` become records: the name of the operation, and for the
callable of `pre_eval_f` what it closes over. One turn of the main loop is one action,
except that `eval_op`'s loop over operands (152-158) takes a step for each operand
(`pc = "operands"`, with the locals `operands` and `env`), so that its
intermediate states can be spoken of. An action includes the charge of the loop (189-191).
`operator_lookup` is a constant operator `OperatorLookup`: proofs hold for every table, and TLC
uses `Operate` of `Operators`. `Traced(form, env)` says for which forms `pre_eval_f` returns a
callable; what the callable does with the value is its own business, and its
return value is dropped. `EvalError`s are kept by message, without the s-expression that comes
with them. When one leaves `run_program` nobody sees the stacks again, so
`Raise` leaves them as they were.

`Meaning` is the usual recursive evaluator, with the cost passed along. Operands are
evaluated from the last to the first, as the stacks do; an operand list that is
not a proper list raises before any of its elements is evaluated; the limit is
compared after each charge. `Meaning` is a constant: `MeaningOf` is the right side of its recursive
equation, `IsMeaning` says that the constant satisfies it, and `MCRunProgram` ties the knot by giving it that
right side as its value (a RECURSIVE operator would keep the provers out). There is a
solution: evaluation that does not end may be given any one error, since errors are passed on.

### CoreOps, MoreOps, UnknownOps, Operators

An operator is a function of the operand list: an outcome with a value and a cost, or with
an error. Errors are kept by message; a wrong operand of an unknown operator has one
message where the code has two. An atom is a sequence of bytes, and an integer is what
`int_from_bytes` makes of it; `int_to_bytes` has the code's loop that strips redundant
bytes, so that it is checked that the result is the shortest (`ShortestIntegers`).
`OPERATOR_LOOKUP` is built as `operators_for_dict` does: a keyword is rewritten, `op_` is put
before it, and if there is no function of that name it is left out. The table
holds names; `CallFunction` calls the function of a name. sha256 and the group of BLS points are constants,
for which TLC gets stand-ins that have the right lengths and differ on the operands used.

The comparison with 2^32 of an unknown operator's cost is written by halves of 16 bits
because TLC's integers end at 2^31, and so do the numbers operators are checked on:
shift counts up to 65535 are tried where the result is refused or small, and products stay below 2^31.
`limbs_for_int` counts the bytes of the magnitude, sign not included, which is what the code does;
its comment (`casts.py` 21) can be read either way.

`OperatorLaws` states how operators fit together, as equations between expressions: `Expr`
builds one of an operator and operands, and `Evaluate` gives what the functions of
`OperatorLookup`, the ones `run_program` calls, return for it. The laws are stated of the
operands of the operator that is applied next.

`ChargesByLength` is about the operators that make new bytes. It says that what such an
operator charges, its result paid for, depends on the lengths of the operands only
(`ByLength`); for a product of three factors and for shifts, where a number in between counts
too, on that number's length (`ByProduct`, `ByShifted`). Where the operands
alone decide how long the result is, a result that is not paid for would go unseen, so
it also says that no result costs less than its bytes, which is enough for `sha256`, and that
`strlen` charges alike for each byte (`ByString`). For `point_add`
and `pubkey_for_exp`, whose base costs are far above the price of their results, this says
little. `substr` makes no bytes: it charges 1 whatever part of its operand it
returns (`more_ops.py` 286), and is left out.

### ReadCacheLookup, LookupClient

A hash is a free term (`HashAtom`, `HashPair`): sha256 is injective, and nothing
else is assumed of it. The dictionary of parents is a set of edges; the code keeps
a list, with an edge twice if it was entered twice, which makes no difference to
the set of paths. `find_paths` is a breadth-first search that TLC evaluates in
one step as a recursive function on levels: `NextLevel` is one turn of the
`while` loop, with the early return on a path that is too long. `LookupClient` may push
any atom, push any hash that has a path, and cons, in any order that the stack allows:
more than the serialiser does, and `SexpStream` shows that the serialiser
stays within it (`UsesTheLookup`).

### SexpWriter, SexpReader, SexpStream, SexpReaders

A token is a cons marker, an atom, a back-reference, or the cut end of a stream.
The writer's generator and `sexp_to_stream`'s loop are one process, since a
generator runs only when it is asked; an action yields one token, subtracts its
length from `max_size`, and does the rest of the turn. If the size is
exceeded, what was yielded before stays in the stream, the first chunk of a token too
(`CutToken`). The limit of 2^34 on the size of an atom is the constant `AtomLimit`, so that TLC can
reach it. `Unwritable(T)` says of which trees `serialized_length` raises. The generator with
back-references asks for the length of each node before it writes anything of it, of the
root first, so it refuses such a tree with nothing written (`NodeRefused`); the other comes upon the
atom in its turn, with all before it in the stream. A path may be refused too, after its
`0xfe` is written: `RefuseAtom` is all three. The tables of the lengths of the size prefix are
kept as in the code, and `SerializedLength` is defined for trees that are refused as well, where nothing is
said of it. `ConsReadStack` is one turn of the inner `while`. A reader's action is one turn
of its loop: one operation. It waits for a token that is not written yet and sees the
end when the writer has stopped, which covers files as well as pipes. Each side
allows back-references or not, independently. `traverse_path` of the
reader works on the number the path spells; the writer's path is
spelled by `PathNumber`. Readers refuse atoms and paths by the same `AtomLimit`. A reader without
back-references takes `0xfe` for the start of an atom, whose size is then 2^40 or more, unless the byte
after it is `0x00`. It is so for the one path `<<0>>`, which no writer writes and `StreamsAssumption` leaves out.

### AtomCodec

Below the tokens. A number is eight digits of base 256, so that sizes go beyond 2^34
although TLC's integers do not; masks and shifts are arithmetic on digits. Of an atom only its size and first byte
matter; a stream is a length and the bytes it starts with. `Write` puts an atom
into the stream, with up to 250 other bytes after it; `Cut` then may end the stream anywhere
in the prefix, or one byte before the end. The reader takes one step for each turn of the loop over
the bits of the first byte. `_atom_from_stream` and `_consume_atom` take the same steps and differ only in
what they return: `ReadAtom`, and `consumed_before`, which puts the bytes together again. `length_before`, what
`serialized_length` foretells, has the limits of its own table (`LengthLimits`, `object_cache.py` 94-105), not those of the
writer's, so that the two can differ.

### ObjectCache

`heap` maps the ids in use to objects; an id is free when nothing that is alive
refers to its object, and the next object may get it. The client makes atoms and
pairs of what it holds, forgets them, and starts new caches, between calls of
`get`. `get` itself is one step for each turn of its loop, with `f` = `treehash`
inlined in the actions: `AtomDone` and `PairDone` are turns in which `f` returns a
value, `PairWaits` one in which it returns `None`. An object is an atom, a pair that
stores its children, or one that makes new ones whenever it is asked, which
the object protocol (`SExp.py` 144-148) allows and `tests/to_sexp_test.py` 102 has.
`serialized_length` differs from `treehash` only in the value.

### ToSexpType, AsPython, SexpEquality, Conversions

Python values are records by kind: bytes, a string, an integer, None, an object with
`__bytes__`, a tuple, a list, something that nothing can convert, or a CLVM object, which is the tree itself and
needs no conversion. `ToSexpType` has the list `stack` and the operations of `op_stack` with their
targets, which are positions of `stack`; a pair under construction is a record
with the sides that are set. One turn of the `while` loop is one action, except that a list takes a step for each
element (105-111). A comment in `SExp.to` (203) says that elements are converted lazily; all of them are
converted at once, and nothing depends on it. `AsPython` takes one step for each operation,
with `_roll` and `_make_tuple`. `SexpEquality` takes one for each pair of trees compared.
`Conversions` calls the three in turn: a value is made a tree, the tree is made a Python
value, and the tree is compared with that value, the first one, and others, each of which is
converted first (234) and may raise `ValueError`, which `==` turns into False.
`ConversionsMeaning` says what the three are meant to compute: `CanConvert` and `TreeOf` of Python values,
`PythonOf` of trees, with the recursion through constants as in `RunProgramMeaning`.

## What the runs check

| run | question | instance | why it is enough |
|---|---|---|---|
| `MCRunProgram` | do the stacks compute the meaning, do they stay aligned, do callables see the right value; does a limit end every program | all programs of at most 4 leaves over `()`, 1, 2, 4 (also quote, apply, cons), all applications of those, also in `((X) ...)`, to two operands of at most 2 leaves, in 2 environments, with no limit and with 139, just what `(c () ())` costs; a walk down a list and `(a 1 1)`, with 25 limits; 106 paths of 1 to 3 bytes into 3 trees up to 10 deep | every operation follows every other at depth 3; values that are computed are run as programs; each place where a limit can bite; `(a 1 1)` has no other end; zero bytes in front of paths, byte boundaries, bytes of 0x80 and more, paths into atoms |
| `MCOperators` | do the operators agree with one another; is what they make charged by its length, and nothing free; do unknown operators cost what known ones do | 34 opcodes of the table and 16 outside it, applied by `run_program` to none or one of 18 values, all but the shifts to pairs of 4 values, those that the laws need to pairs of 15 numbers, those that take lists and the unknown ones to triples of 4 values, shifts by 14 counts, parts of strings, up to 3 points; the numbers are those next to the limits of one and two bytes, some in spellings that are too long | signs, boundaries and redundant bytes meet in each pair of operands; each cost function, empty, reserved, too long and too costly opcodes |
| `MCLookupClient` | is the picture right, for any client | 2 atoms, one of them nil; pushes on at most 2 objects, while at most 9 hashes are counted | nil is also the hash of the empty stack; shared and repeated hashes, 3 conses deep |
| `MCSexpStream` | does the tree arrive, do both ends stop, is the picture right at every token | all trees of at most 4 leaves over `()` and an atom of 2 bytes, of at most 3 over that and an atom of 3 bytes, which is too large (`AtomLimit = 3`), a list of 17 that would need a path of 3 bytes; both settings of both sides, sizes 4, 7, 100 | the smallest tree with a shared pair has 4 leaves; both small sizes cut tokens; an atom is refused at each place of a tree, and a path in the middle of a token |
| `MCSexpReaders` | what do readers do with any stream | all streams of up to 5 tokens, and all of up to 4 that are then cut, or go on with an atom or a path that is too large (`AtomLimit = 2`); 4 paths | conses, and back-references to the value stack itself, its parts and into atoms |
| `MCAtomCodec` | is what is written read, and is what was never written refused or passed on unchanged | atoms of 23 sizes, on each side of each limit and beyond 2^34, with 4 first bytes; streams of 256 first bytes, 6 continuations, 14 lengths | each number of leading ones, with sizes that are shorter than their prefix, and at 2^34 |
| `MCConversions` | do the loops compute the recursive definitions | bytes, an integer, a tree and something unconvertible, in tuples of up to 3 and lists of up to 3, twice nested; each result compared with 9 others | a list in a tuple in a list and so on: operations that are pushed before others that they wait for; parts that move nothing on the stack; what fails deep inside |
| `MCObjectCache` | are values current, is little work done, does `get` answer | 4 ids, 3 objects held, 2 atoms, one tree made on demand | chains of 3 pairs, every sharing, every reuse of an id |

A limit of 0 means no limit, as in the code (`run_program.py` 190). The deadlock check is off in `MCLookupClient`
and `LookupLoses` (the client stops at its bounds) and in `MCObjectCache` and `GeneratedTrees` (ids run out).
`EndRun`, `Terminated`, `Finished` and the like give the other specifications a
last state that stutters. Bounds of the model itself: `Depths`, `HashCounts`, `MaxHeld` and the number of
`Ids` bound clients, not the code.

Each property of these runs has a mutant: a definition of the model changed as a
slip in the code would change it (two lines exchanged, an append for an extend, a
comparison off by one, a count not taken back), under which TLC finds the property violated. The
mutants stand before the definitions that they replace, named
`<definition>_<what is wrong>`; `PROJECT.json` lists them. No specification uses them.

### Where code and documentation disagree

Four runs check what a comment or a document says, and TLC finds a counterexample.

- `BackrefsSaveSpace`: a back-reference with a path of seven legs is `0xfe`, a size
  prefix and a byte of 0x80 or more: three bytes in place of an atom that takes three. The
  test that says back-references save space does not meet this tree. They cost nothing either, except that
  the size prefix of a path of 64 bytes or more has two bytes or more, and `find_paths` reckons
  with none: `NeverLonger` allows for just these bytes (`Excess`). `tests/serialize_test.py` 81 allows for none: the list of an atom
  of 64 bytes, 503 different atoms of two bytes, the first atom again and an atom of one byte takes 2149 bytes without back-references
  and 2150 with them.
- `LookupLoses`: not all that is in the value stack is found. A suffix of the value stack can be
  an object too: a back-reference may push it, and it comes back as a part of
  a pair. What `push` counted for it as a root is taken back by `pop`, and what `pop2_and_cons` counts is the two objects it joins and
  not what they contain, so its count can be 0 while it is there, and the search does
  not climb through it. In `((A . (B . (C . (C . (B . (A . ())))))) . (A . ()))`, with three atoms of 20 bytes, the last pair is written in four bytes
  although `fe7e` leads to it. The reader gets a longer stream, never a wrong tree. What was pushed
  as an object is always found, and so `NothingLost` is about these.
- `GeneratedTrees`: `ObjectCache.get` does not end for a tree that makes its children on
  demand.
- `EqualAsDocumented`: `=` raises for a pair; `docs/clvm.org` 31 says it returns `()`.
  The same holds of `>` and `>s` (32-33), and `divmod` returns a pair where line 40 says a list.

### Fairness

`run_program`, `get`, the readers and the conversions are loops that go on while they can: weak fairness
of their next step (`WF_vars(Next)`, `WF_vars(Work)`, `WF_vars(Read)`). For the
two ends of a stream it says that neither is suspended for ever; the writer's
is written out, equivalently, so that TLC need not compute when it is enabled. No
fairness is assumed of clients. `AtomCodec` states none: its loop runs over the eight bits of a byte, and
no property of it is about its end.

## What is proved

For every value of the constants:

- `RunProgramProofs`: all but the liveness of the run. `Balanced` and `Aligned`: for every program, environment, limit, table of
  operators and `pre_eval_f`, the values on `value_stack` are as many as the operations
  will pop, and of the kind they need: no pop finds an empty list and "internal error" is never
  raised. `Aligned` is not inductive: it says too little of the state between two operands,
  where the result of the operation is still to be pushed. The invariant `IInv` says which
  values an operation has under it while one value is missing (`Between`) and when all are there
  (`Ready`). An `eval_op` that is pushed below a `swap_op` comes on top only when that
  `swap_op` has brought up its pair, which is what `Settled` and `EvalIsNext` tell apart. The main lemmas say how
  `Pending`, a cardinality, changes when operations are pushed and popped.
  `ComputesMeaning` and `CallableSeesValue` say that the stacks compute the recursive definition. The invariant `PInv` is a plan:
  each operation that is left takes one value stack to another at some cost, or raises, as the recursive definition says
  (`Planned`), and together they lead to the answer for the whole program. A step keeps the answer because what it pushes comes to
  what it takes away; below a callable of `pre_eval_f` the plan has the value of its form. `WorkCosts` is about costs: by `DInv(D)` all values are in `D`, where operators
  cost something, and the cost is within the limit, so that whatever is done and not refused adds to it.
- `LookupClientProofs`: all that the run checks, for every set of atoms, of lengths and every bound.
  `TypeOK`, `RootIsStack`, `CountsCover` and `LinksSound` are `Good`: the counts are natural numbers because they
  cover the references there are, and a reference is there whenever one is taken back; the invariant
  joins the two. `PathsSound` follows from `LinksSound`: a partial path of the search spells, from its
  node back, a descent to the object looked for, and `PathNumber` and `Legs` are inverse. `FindsWhatIsThere`
  needs the second half, `Tracks`. `Extra` is what is counted beyond the references of the
  stack, the children of pairs. A pushed object that left the stack has an `Extra`; from each pushed object, edges to
  pushed parents lead to the stack, and from there to the root along counted edges, so a search that ends
  without a path would have seen the root. What has an `Extra` is below some object on the stack, so what is not in the value
  stack is counted 0. These parts quantify over all sets of hashes, which TLC cannot enumerate: the
  run checks their consequence.
- `SexpStreamProofs`: all but the liveness of the run, for every set of trees, every set of limits, every setting of the two
  sides and every interleaving. Where the run has an invariant of states, the proof has one of histories: for each token
  there is a plan of what a reader has left to do (`IsPlan`: the operations, and the value stack
  that there will be when the first `i` of them are left, at the end of which the tree is the only value), each token leads
  from one plan to the next (`Follows`), the reader is in the plan for its position, and the writer's stack
  and its picture of the reader belong to the last plan. So the two sides may be any number of tokens apart. A
  back-reference follows the plan because the path found in the hashes leads, in the value stack that has these hashes, to
  a tree with the hash looked for, and equal hashes are of equal trees (`Pictures`, `SameHashSameTree`). `Lockstep`,
  `FailsOnlyForCause` and `DeliversTheTree` follow; `UsesTheLookup` does step by step, with `Depths` and `HashCounts` all the natural numbers, so
  that what is proved of `LookupClient` holds of the serialiser. `NeverLonger` has an invariant of its own, `Sizes`: what is
  written and what is on the writer's stack together weigh no more than the tree and the excess; and a search
  that gives up on paths that are too long finds none that is longer than what it replaces (`FoundIsShort`).
  `RefusesTooLarge` has one too, `StillThere`: with back-references the tree itself is still on the writer's stack, without them
  some node that holds the atom is. `TokensFit`, that no token in the stream is too large, goes along with `IInv`: it
  is why a reader meets none that it would have to refuse.
  History and plans are existential, so TLC checks what follows from them.
- `ObjectCacheProofs`: `CachedIsCurrent`, `AnswerIsThere` and `WorkIsBounded`, for every finite set of ids, of atoms and of trees
  made on demand. The invariant `IInv` adds that everything referred to is alive (what the client
  holds, the nodes of `lookup`, the objects on `obj_list`, children) and that the object
  `get` was called for is done or still on its list. Freeing keeps it because what is reachable is closed
  under children (`ReachableFacts`). For `WorkIsBounded`, `WorkInv` adds that objects have ranks, those of stored children below
  the pair's, since a pair is made of objects that are there already; and that `obj_list` is made of the nodes that wait for
  their children, and two entries above each. Whatever is above a waiting node has a lower
  rank, so that no node waits twice at the same time: it is called twice only, and with as
  many waiting nodes as ids, two of them would be the same. The rank and the set of places
  where a node waits are existential; TLC checks the two parts that follow.
- `AtomCodecProofs`: `TypeOK`, `LeadingOnes`, and all five properties of the run, for every set of atoms and of
  streams. The invariant `IInv` is `TypeOK`, `Written` (what the head of the stream is), `Unread`, and `Read`: while
  the bits are looked at, the first byte is the ones counted and what is left, and when a size was
  read its digits are those of the stream. That a prefix and what is left of it decide the number of
  leading ones is `OnePrefix`, one case for each prefix. `CutIsRefused` needs the lengths as
  well: `Fate` says how long the stream is, and `LengthsCompare`, through `Count`, that adding a
  few bytes to a size of eight digits, carries included, keeps the order. The proofs use the assumptions on `Atoms`,
  `Streams` (their types) and `Beyond` (at most 250).
- `ConversionsProofs`: all the safety properties of the run, for all finite Python values and trees. `StacksInStep` by `CInv`: the
  stack has one value more than there are operations that put one somewhere, and each target is below
  the values that the operations above it will put. `FindsItsValues` by `UInv(D)`: the operations of `as_python`
  come in blocks, and what waits under each is a tree of `D` exactly if its `_roll` is still to come.
  `BecomesTree` by `CPlan`: each operation of `to_sexp_type`, taken together with all that will be pushed on its behalf, makes one
  stack of another (`DoOp`: a value becomes its tree, a side of a pair is set), or fails; doing so with all the operations that are left
  leads to the stack with only the tree of the value, or to failure if it has none (`Planned`). A step keeps the result because the
  operations pushed for a tuple or for the elements of a list come to what the one they replace comes
  to (`PlanSides`, `PlanItem`), also if a part that comes later cannot be converted and earlier parts are worked on in vain. `BecomesPython` by `Leads`, the same for
  `as_python`; its heart is `PythonOfPair`: what `_make_tuple` makes of two sides is what the recursive definition
  says of the pair. `EqualIfSameTree` by `EInv`: the pairs of trees that are still to be compared are alike exactly if
  the two trees are the same. `Meant` joins these, since each loop starts with what the one before it returned. `AsPythonFindsItsValues` is about `as_python` by itself,
  called for any trees again and again.
- `SexpReadersProofs`: `SameExtent`, for every set of streams (`StreamsAssumption`). `Due(k)` is how many expressions
  are still due after `k` tokens: 1, and 2 more for each cons, less `k`. It is the number of read operations on
  `op_stack` and it is `depth`, so both readers are done at the first `k` where nothing is due, and
  both stop where there is no token, a cut one, or one they refuse. `Balanced` is about back-references too: `Surplus(o, k)` is the
  number of values there have to be when `k` operations are left, it is at least two below every cons (`Served`), and the
  value stack has that many (`Lists`, a list laid out pair by pair).

The assumptions on constants are: a set of trees has the sides of its pairs, their atoms are sequences of bytes and each has
a serialized length, a natural number more than that of its sides (`TreesAssumption`; no tree is infinite); limits are
integers and lengths natural numbers (`SizesAssumption`, `LengthsAssumption`); memory is finite and `NoId` is not an id (`IdsAssumption`, `NoIdAssumption`);
the limit on atoms is a natural number of at least 2, so that nil and single bytes, which have no size prefix, are not refused (`AtomLimitAssumption`); streams are sequences of tokens,
without the path `<<0>>` (`StreamsAssumption`); and the types of `AtomCodec`'s constants, named above. TLC evaluates each of them for the instance
of a run. Theorems about recursive definitions have hypotheses of their own: `IsMeaning`, and `Meanings(V, D)` for the
conversions. The latter wants a set `V` of Python values with their parts and with what the trees of `D` become, and a set `D` of trees with their sides and with what
the values of `V` stand for. The finite values and trees are such sets, and so are small ones: `MeaningsExist` of `MCConversions` is
evaluated for the values that its run starts from. `Data(D)` of `RunProgramProofs` wants a set `D` of s-expressions that holds the sides of its pairs and the pairs of its elements, the
programs and environments, and what operators return for operands in it, each at a cost of at least 1; the finite s-expressions are such a set for the operators of the table.

`DataFacts` holds the lemmas that these proofs share. The provers cannot instantiate the library's induction theorem for
a predicate; they can for a set, so that induction here is over the set of the numbers for which the claim
holds (`SetInduction`, `StrongInduction`), and what recursive functions (`Legs`, `PathNumber`, `HashAt`, `Present`, `SerializedLength`,
`TreeHash`, the levels of `FindPaths`) compute is stated as the equations they satisfy.

Only model-checked:

- the laws of the operators, which are about bytes and folds over operands, and powers of 2 with exponents that are
  variables, where the arithmetic of the provers ends (`ShortestIntegers`, `IntegerLaws`, `StringLaws`, `ChargesByLength`, `UnknownOperators`);
- liveness (`Stops`, `Arrives`, `GetAnswers`, `Returns`), which TLAPS has no means for under fairness.

The type invariants of `LookupClient` and `AtomCodec` are proved, the others follow from the shape of the state and the
stronger invariants that the runs check; no run is spent on them.

## What is not modelled

- `__init__.py`, `EvalError.py`, `version.py` and `setup.py`: no behaviour.
- sha256 and the BLS library, which are external.
- `OperatorDict.__new__`: copies of the table with another quote, apply or handler are other values of the constants of `RunProgram`,
  over which its proofs range.
- Numbers and costs of 2^31 and more, which TLC cannot hold: the operators are checked below that, and sizes of atoms as digits.
- Streams whose bytes are not tokens are represented by the ones that end early
  and the ones with a back-reference where none is allowed; what the bytes of a single token can be is in `AtomCodec`.
- Python's own recursion limit, memory, and exceptions other than the ones the code raises itself.

## Plan

Done: all components with behaviour, and the proofs named above. What would add most next:

1. `ShortestIntegers`, the one law that does not need folds over operands: it wants lemmas about powers of 256 and two's complement.
2. That no operator of the table is free, as a theorem about `Operate`: with it `Data(D)` would be a hypothesis about
   programs only.
3. `find_paths` with its search in steps.
