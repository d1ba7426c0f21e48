---------------------------- MODULE EarlyReturns ----------------------------
(***************************************************************************)
(* A function of the code that is a chain of early returns is written as a *)
(* sequence of rules, one line per return: <<guard, result>>.  The result  *)
(* is that of the first rule whose guard holds; the last guard is TRUE.    *)
(***************************************************************************)
EXTENDS Naturals, Sequences

FirstRule(rules) ==
    LET first == CHOOSE i \in DOMAIN rules :
                    /\ rules[i][1]
                    /\ \A j \in 1..(i - 1) : ~rules[j][1]
    IN rules[first][2]

=============================================================================
