---------------------------- MODULE MCRunProgram ----------------------------
(***************************************************************************)
(* Constants for checking RunProgram: every small program, a few programs  *)
(* that recur, and long paths.                                             *)
(***************************************************************************)
EXTENDS RunProgramMeaning, Operators, MCExternals

A(n) == Atom(<<n>>)

q(x) == Pair(A(1), x)

\* every program of at most 4 leaves, each nil, q, a or c (the paths 1, 2 and
\* 4 as well), and every application of one of them to two forms of 2 leaves;
\* 139 is just what (c () ()) costs
Leaves == {Null, A(1), A(2), A(4)}
SmallPrograms ==
    TreesOf(Leaves, 4)
    \cup { ListOf(<<op, x, y>>) : op \in Leaves \cup { ListOf(<<a>>) : a \in Leaves },
                                 x \in TreesOf(Leaves, 2), y \in TreesOf(Leaves, 2) }
SmallCalls ==
    { Call(p, e, c) : p \in SmallPrograms, c \in {0, 139},
                      e \in { Pair(A(1), A(4)), ListOf(<<A(5), A(1)>>) } }

\* (a (i 5 (q a 2 (c 2 (c (r 5) ()))) (q q . 7)) 1), with itself as the first
\* of the environment, walks down the list that is the second
Walk ==
    ListOf(<<A(2),
             ListOf(<<A(3), A(5),
                      q(ListOf(<<A(2), A(2),
                                 ListOf(<<A(4), A(2),
                                          ListOf(<<A(4), ListOf(<<A(6), A(5)>>), Null>>)>>)>>)),
                      q(q(A(7)))>>),
             A(1)>>)

\* (a 1 1), which in itself never ends
Forever == ListOf(<<A(2), A(1), A(1)>>)

RecursiveCalls ==
    { Call(p, e, 97 * k) :
        p \in {Walk, Forever}, k \in 1..25,
        e \in { Forever, ListOf(<<Walk, Null>>), ListOf(<<Walk, ListOf(<<A(8), A(9)>>)>>) } }

\* atoms of one to three bytes, as paths into trees of uneven depth: along the
\* right spine, and zigzag
Spine  == ListOf([i \in 1..9 |-> A(i)])
Zigzag == LET z[i \in 0..10] == IF i = 0 THEN A(0)
                                ELSE IF i % 2 = 0 THEN Pair(z[i-1], A(i)) ELSE Pair(A(i), z[i-1])
          IN  z[10]
PathCalls ==
    { Call(Atom(b), e, 0) : b \in UNION { [1..n -> {0, 1, 5, 128, 170, 255}] : n \in 1..2 }
                                  \cup [1..3 -> {0, 1, 170, 255}],
                            e \in {Spine, Zigzag, Pair(Zigzag, Spine)} }

AllCalls == SmallCalls \cup RecursiveCalls \cup PathCalls

Always(form, e) == TRUE

\* The values of the constants of RunProgramMeaning are the right sides of their
\* equations, so TLC evaluates the recursion.  (A value that is no LET would be
\* unfolded without end when TLC counts what it evaluates.)
MCMeaning(limit, s, e, c)      == LET m == MeaningOf(limit, s, e, c) IN m
MCListMeaning(limit, xs, e, c) == LET m == ListMeaningOf(limit, xs, e, c) IN m
MCIsProper(xs)                 == LET p == IsProperOf(xs) IN p
=============================================================================
