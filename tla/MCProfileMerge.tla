---------------------------- MODULE MCProfileMerge ----------------------------
(* Small instances of ProfileMerge for TLC: five ranks with chosen        *)
(* databases.  In the tree rank 2 is between rank 3 and rank 0, and rank 4 *)
(* has no children because there are no ranks 5 and 6.                     *)
EXTENDS ProfileMerge

E(n, calls, value) == [name |-> n, calls |-> calls, value |-> value]

\* Three names; some thread may not have called an event.
a0 == E(1, <<1, 0>>, <<2, 0>>)
a1 == E(1, <<2, 1>>, <<1, 3>>)
b0 == E(2, <<0, 1>>, <<0, 2>>)
b1 == E(2, <<1, 1>>, <<3, 1>>)
c0 == E(3, <<1, 1>>, <<0, 0>>)

MCEntries == {a0, a1, b0, b1, c0}

\* What another thread of rank 3 registers: its name is the least.
MCNew == {a0}
MCGrowing == {<<"functions", 3>>}

D(p, q, r, s, t) == 0 :> p @@ 1 :> q @@ 2 :> r @@ 3 :> s @@ 4 :> t

\* Disjoint and shared names, out of order; ranks without events; a name that
\* one rank has twice; no atomic events at all.  In the second database there
\* is room for another function of rank 3.
Funcs1 == D(<<b0, a0>>, <<>>, <<a1>>, <<c0, b1>>, <<b0, b1>>)
Atoms1 == D(<<c0>>, <<>>, <<>>, <<b0, a1>>, <<a0>>)
Funcs2 == D(<<>>, <<c0>>, <<b1, a0>>, <<b1>>, <<>>)
Atoms2 == D(<<>>, <<>>, <<>>, <<a0, b1>>, <<>>)
Funcs3 == D(<<a0>>, <<b0>>, <<>>, <<c0, a1>>, <<>>)
Empty == D(<<>>, <<>>, <<>>, <<>>, <<>>)

MCDatabases == {[functions |-> Funcs1, atomics |-> Atoms1],
                [functions |-> Funcs2, atomics |-> Atoms2],
                [functions |-> Funcs3, atomics |-> Empty]}

Setting(s, p, o) == [summary |-> s, precompute |-> p, opens |-> o]
Usual == Setting(FALSE, TRUE, TRUE)
MCSettings ==
    {Usual, Setting(TRUE, FALSE, TRUE), Setting(FALSE, FALSE, FALSE)}

\* The settings matter only when the unification has ended: a small database
\* and one kind of send for those that are not the usual one.  What is
\* registered meanwhile has nothing to do with the kind of send.
MCInit ==
    /\ MergeInit
    /\ (setting = Usual) = (db.functions # Funcs3)
    /\ setting # Usual => ~eager
    /\ db.functions = Funcs2 => eager

MCFairSpec == MCInit /\ [][ProfileNext]_allVars
              /\ \A r \in Ranks : WF_allVars(RankStep(r))

=============================================================================
