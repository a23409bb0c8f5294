---------------------------- MODULE MCMigration ----------------------------
(***************************************************************************)
(* What the first start finds, in the instances that are model-checked.    *)
(***************************************************************************)
EXTENDS Migration, TLC
CONSTANTS c1, c2, n1, n2, none, s1, s2, i1, i2, f1, f2

Rec(n, i, b) == [name |-> n, session |-> i, thread |-> i, body |-> b]
Entry(s, r, token, event) == [src |-> s, rec |-> r, token |-> token, event |-> event]

\* Two instances hold different workers of a name, each with a callback; for one
\* of them two events wait.
Divergent == [old |-> {Entry(s1, Rec(n1, i1, "a"), "ta", "e1"),
                       Entry(s1, Rec(n1, i1, "a"), "ta", "e3"),
                       Entry(s2, Rec(n1, i2, "b"), "tb", "e2")},
              records |-> {}]
\* The same worker twice, and another name.
Duplicate == [old |-> {Entry(s1, Rec(n1, i1, "a"), "ta", "e1"),
                       Entry(s2, Rec(n1, i1, "a"), "ta", "e1"),
                       Entry(s2, Rec(n2, i2, "a"), Nil, Nil)},
              records |-> {}]
\* The same worker with two callbacks.
TwoTokens == [old |-> {Entry(s1, Rec(n1, i1, "a"), "ta", Nil),
                       Entry(s2, Rec(n1, i1, "a"), "tb", Nil)},
              records |-> {}]
\* The registry has the name already, and a session without a name.
Taken == [old |-> {Entry(s1, Rec(n1, i1, "a"), "ta", "e1"),
                   Entry(s1, Rec(none, i2, "a"), Nil, Nil)},
          records |-> {Rec(n1, f1, "new")}]
\* A thread with two names.
Shared == [old |-> {Entry(s1, Rec(n1, i1, "a"), "ta", "e1"),
                    Entry(s2, Rec(n2, i1, "a"), Nil, Nil)},
           records |-> {}]

MCWorlds == {Divergent, Duplicate, TwoTokens, Taken, Shared}

\* The daemon's threads are alike.
Interchangeable == Permutations({c1, c2})
=============================================================================
