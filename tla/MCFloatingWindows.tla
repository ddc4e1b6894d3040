-------------------------- MODULE MCFloatingWindows --------------------------
(* One application, "ab.exe", and a list that does not name it.         *)
EXTENDS FloatingWindows

MCProgram == <<"a", "b", ".", "e", "x", "e">>
MCList == {<<"b">>, <<"a", "?", "c">>}

\* What a list says of a name: "*" stands for any text, "?" for a character.
Stands(pattern, names) ==
    \E at \in [DOMAIN pattern -> SUBSET DOMAIN names] :
        /\ \A i \in DOMAIN names : Cardinality({j \in DOMAIN pattern : i \in at[j]}) = 1
        /\ \A i, j \in DOMAIN pattern : i < j => \A k \in at[i], l \in at[j] : k < l
        /\ \A j \in DOMAIN pattern :
             pattern[j] # "*" => Cardinality(at[j]) = 1 /\ \A k \in at[j] : pattern[j] \in {names[k], "?"}
Short(S, n) == UNION {[1..m -> S] : m \in 0..n}
ASSUME WildcardsMeanText ==
    \A name \in Short({"a", "b"}, 3), pattern \in Short({"a", "b", "*", "?"}, 3) :
        WildcardMatch(name, pattern) <=> Stands(pattern, name)
=============================================================================
