------------------------- MODULE RepresentationCheck -------------------------
(***************************************************************************)
(* The validation of a read-only representation (core/src/representation.ts): *)
(* entries with links to parents and children, roots and an active path,   *)
(* all written by an adapter and believed in nothing.                      *)
(*                                                                         *)
(* The passes over the input are the steps; an input is chosen when the    *)
(* pass that reads it begins.  The code collects issues and refuses at the *)
(* end, the model at the first issue.  Origins, versions, texts and sizes  *)
(* are checked entry by entry in the code and left out here.               *)
(***************************************************************************)
EXTENDS Naturals, FiniteSets, Sequences, FiniteSetsExt

CONSTANTS
    EntryId,        \* ids, of which the first pass has taken one per entry
    Dangling,       \* an id that resolves to no entry
    NoParent

ASSUME RepresentationAssumption ==
    /\ IsFiniteSet(EntryId)
    /\ Dangling \notin EntryId /\ NoParent \notin EntryId
    /\ NoParent # Dangling

VARIABLES
    parentOf, childrenOf,   \* the links of the entries
    completed, local,       \* ids whose chain of parents has been walked,
    cursor,                 \*   ids of the chain being walked, its next id
    roots, activePath,
    pass                    \* the pass under way, or the verdict

representationVars ==
    <<parentOf, childrenOf, completed, local, cursor, roots, activePath, pass>>

\* An entry as read: any parent, any set of distinct children.  The limit on
\* dangling children bounds the instance: one is as good as two.
RepresentationInit ==
    /\ parentOf \in [EntryId -> EntryId \union {Dangling, NoParent}]
    /\ childrenOf \in [EntryId -> SUBSET EntryId]
    /\ completed = {} /\ local = {} /\ cursor = NoParent
    /\ roots = {} /\ activePath = <<>>
    /\ pass = "links"

Conclude(ok, next) == pass' = IF ok THEN next ELSE "refused"

LinksAgree ==
    \A e \in EntryId :
        /\ parentOf[e] # NoParent =>
                parentOf[e] \in EntryId /\ e \in childrenOf[parentOf[e]]
        /\ \A c \in childrenOf[e] : parentOf[c] = e

CheckLinks ==
    /\ pass = "links"
    /\ Conclude(LinksAgree, "acyclic")
    /\ UNCHANGED <<parentOf, childrenOf, completed, local, cursor, roots,
                   activePath>>

\* validateAcyclic: the chain of the next entry that is not completed.
StartChain(e) ==
    /\ pass = "acyclic" /\ cursor = NoParent /\ local = {}
    /\ e \notin completed
    /\ cursor' = e
    /\ UNCHANGED <<parentOf, childrenOf, completed, local, roots, activePath,
                   pass>>

\* Faulty variant of WalkChain: the walk also stops at an id of its own chain.
WalkChainTrusting ==
    /\ pass = "acyclic" /\ cursor # NoParent
    /\ IF cursor \in completed \union local
       THEN /\ completed' = completed \union local /\ local' = {}
            /\ cursor' = NoParent
       ELSE /\ local' = local \union {cursor}
            /\ cursor' = parentOf[cursor]
            /\ UNCHANGED completed
    /\ UNCHANGED <<parentOf, childrenOf, roots, activePath, pass>>

WalkChain ==
    /\ pass = "acyclic" /\ cursor # NoParent
    /\ IF cursor \in completed
       THEN /\ completed' = completed \union local /\ local' = {}
            /\ cursor' = NoParent
            /\ UNCHANGED pass
       ELSE /\ Conclude(cursor \notin local, "acyclic")
            /\ local' = local \union {cursor}
            /\ cursor' = parentOf[cursor]
            /\ UNCHANGED completed
    /\ UNCHANGED <<parentOf, childrenOf, roots, activePath>>

\* The chain ended at a root.
EndChain ==
    /\ pass = "acyclic" /\ cursor = NoParent /\ local # {}
    /\ completed' = completed \union local
    /\ local' = {}
    /\ UNCHANGED <<parentOf, childrenOf, cursor, roots, activePath, pass>>

Parentless == {e \in EntryId : parentOf[e] = NoParent}

CheckRoots(listed) ==
    /\ pass = "acyclic" /\ completed = EntryId
    /\ roots' = listed
    /\ Conclude(listed = Parentless, "path")
    /\ UNCHANGED <<parentOf, childrenOf, completed, local, cursor, activePath>>

Connected(path) ==
    \A i \in DOMAIN path :
        parentOf[path[i]] = IF i = 1 THEN NoParent ELSE path[i - 1]

CheckActivePath(path) ==
    /\ pass = "path"
    /\ activePath' = path
    /\ Conclude((EntryId # {} => path # <<>>) /\ Connected(path), "accepted")
    /\ UNCHANGED <<parentOf, childrenOf, completed, local, cursor, roots>>

\* Sequences of distinct ids (parseStringArray).
Paths ==
    {p \in UNION {[1..n -> EntryId] : n \in 0..Cardinality(EntryId)} :
        \A i, j \in DOMAIN p : p[i] = p[j] => i = j}

RepresentationNext ==
    \/ CheckLinks
    \/ \E e \in EntryId : StartChain(e)
    \/ WalkChain \/ EndChain
    \/ \E listed \in SUBSET EntryId : CheckRoots(listed)
    \/ \E path \in Paths : CheckActivePath(path)
    \/ pass \in {"accepted", "refused"} /\ UNCHANGED representationVars

RepresentationSpec ==
    RepresentationInit /\ [][RepresentationNext]_representationVars

\* navigateReadOnlyRepresentation.
Siblings(e) ==
    IF parentOf[e] = NoParent THEN {} ELSE childrenOf[parentOf[e]] \ {e}

-----------------------------------------------------------------------------
(* Properties                                                              *)

\* The entries reached from the given ones in at most n steps to children.
Reached(from, n) ==
    LET step[k \in 0..n] ==
            IF k = 0 THEN from
            ELSE step[k - 1] \union UNION {childrenOf[e] : e \in step[k - 1]}
    IN step[n]

\* What navigation, rendering and jumping back rely on in an accepted
\* representation: from the roots every entry is reached, so no parent chain
\* is circular; siblings see each other; and the active path is
\* a descent along children that begins at a listed root.
AcceptedIsForest ==
    pass = "accepted" =>
        /\ Reached(roots, Cardinality(EntryId)) = EntryId
        /\ \A e, f \in EntryId : f \in Siblings(e) <=> e \in Siblings(f)
        /\ EntryId # {} => activePath[1] \in roots
        /\ \A i \in 2..Len(activePath) :
                activePath[i] \in childrenOf[activePath[i - 1]]

=============================================================================
