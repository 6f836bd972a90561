----------------------------- MODULE MCPgRestore -----------------------------
(* Small histories: chains of up to three backups of a relation file of up   *)
(* to three pages, and of another file that is created, changed or kept.     *)
EXTENDS PgRestore

CONSTANTS MaxPages, Relation, Config

Pages(choices(_)) == UNION {{s \in [1 .. n -> UNION {choices(i) : i \in 1 .. n}] :
                                \A i \in 1 .. n : s[i] \in choices(i)} : n \in 0 .. MaxPages}

\* What backup k + 1 can read after backup k read s: an old page stays, or it
\* changed since backup k began; a page beyond the old end is new or written.
Later(s, k) ==
    LET choices(i) == IF i <= Len(s) THEN {s[i], 2 * k, 0} ELSE {0, 2 * k + 1}
    IN  Pages(choices)

First == LET choices(i) == {0, 1} IN Pages(choices)

Chains ==
    {<<s>> : s \in First}
    \cup UNION {{<<s, t>> : t \in Later(s, 1)} : s \in First}
    \cup UNION {UNION {{<<s, t, u>> : u \in Later(t, 2)} : t \in Later(s, 1)} : s \in First}

\* The other file, by backup: absent (0) or its version.
Configs(n) == IF n = 2 THEN {<<1, 1>>, <<1, 2>>} ELSE {<<0, 2, 3>>}

With(c, v) == IF v = 0 THEN [f \in {Relation} |-> c]
              ELSE [f \in {Relation, Config} |-> IF f = Relation THEN c ELSE <<v>>]

\* The relation appears with the second backup.
Created == {<<[f \in {Config} |-> <<1>>], With(c, 1)>> : c \in {<<3>>, <<3, 0>>}}

SmallHistories == Created \cup UNION {{[k \in DOMAIN c |-> With(c[k], g[k])] : g \in Configs(Len(c))} : c \in Chains}

\* Chains of three in which the relation grows from one page by a page a backup.
GrowingHistories == {h \in SmallHistories : Len(h) = 3 /\ \A k \in 1 .. 3 : Len(h[k][Relation]) = k}

AllFiles == {Files \cup UtilityFiles}
=============================================================================
