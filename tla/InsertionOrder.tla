---------------------------- MODULE InsertionOrder ----------------------------
(***************************************************************************)
(* A Map or Set of the code iterates over its keys in the order of their   *)
(* insertion.  Where that order decides what happens, it is modelled as    *)
(* the sequence of its keys.  The keys that stay are a recursive function  *)
(* of the sequence, not SelectSeq, so that facts about them can be proved. *)
(***************************************************************************)
EXTENDS Naturals, Sequences

\* delete of each of the removed keys, the others keep their order.
KeysWithout(keys, removed) ==
    LET kept[i \in 0..Len(keys)] ==
            IF i = 0 THEN <<>>
            ELSE IF keys[i] \in removed THEN kept[i - 1]
            ELSE Append(kept[i - 1], keys[i])
    IN kept[Len(keys)]

=============================================================================
