----------------------------- MODULE LineDomain -----------------------------
(* Domains of bodies on a line and the cells they are cut into, as             *)
(* src/julia_dagger/src/morton.jl has them.  Positions are integers; lengths   *)
(* are compared after scaling by the number of cells.                          *)
EXTENDS KeyTree, FiniteSetsExt

\* bounding_domain; a single point gets a domain of half width one.
BoundingDomain(lo, hi) ==
    IF hi > lo THEN [lo |-> lo, edge |-> hi - lo]
    ELSE [lo |-> lo - 1, edge |-> 2]

\* morton_key: the cell, clamped into the domain.  The relative padding moves
\* the boundaries of the upper half up, those of the lower half down.
MortonKey(dom, x) ==
    LET at == (x - dom.lo) * KeySpace
        cell == IF 2 * (x - dom.lo) > dom.edge
                THEN (at + dom.edge - 1) \div dom.edge - 1
                ELSE at \div dom.edge
    IN  Max({0, Min({cell, KeySpace - 1})})

\* cell_geometry, and box_geometry of src/ttg-parsec/src/domain.h, scaled.
CellFrom(dom, b) == dom.lo * KeySpace + b.first * dom.edge
CellSize(dom, b) == b.size * dom.edge

\* The nodes b is below (Key::is_descendant_of).
Above(b) == Path(b) \ {b}

\* A set as a sequence, by a total order of its elements.
InOrder(S, Before(_, _)) ==
    LET before == [b \in S |-> Cardinality({c \in S : c # b /\ Before(c, b)})]
    IN  [n \in 1 .. Cardinality(S) |-> CHOOSE b \in S : before[b] = n - 1]
=============================================================================
