----------------------------- MODULE MCPushHook -----------------------------
(* Small instances of the push hook for TLC. *)
EXTENDS PushHook, TLC

CONSTANTS owner, lead, bot, c1, c2, c3, c4, h1, h2, b1, b2

\* Who pushes is told apart by what it holds, and nothing else is compared
\* but heads, branches and changes among themselves.
Symmetry == Permutations(Heads) \cup Permutations(Change)

\* One record grows past its first update at a time, counting what is pushed.
OneGrows ==
    Cardinality({c \in Change : \/ Len(record[c]) > 1
                               \/ \E p \in Principal : \E u \in push[p].records : u.change = c /\ Len(u.new) > 1}) <= 1
=============================================================================
