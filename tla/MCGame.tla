------------------------------- MODULE MCGame -------------------------------
(* Four sides and games small enough to play out in every legal way.       *)
EXTENDS GameProps

c(v, col) == [val |-> v, col |-> col]

\* Both deals hold short suits, so that following suit is forced for some
\* sides and impossible for others, and cards every kind of round charges.
DealA == <<{c(King, "H"), c(2, "S"), c(Queen, "S")},
           {c(3, "H"), c(4, "S"), c(Jack, "D")},
           {c(Queen, "H"), c(Ace, "H"), c(5, "D")},
           {c(5, "S"), c(King, "D"), c(6, "C")}>>
DealB == <<{c(Jack, "H"), c(7, "C"), c(8, "C")},
           {c(King, "H"), c(2, "H"), c(9, "C")},
           {c(Queen, "C"), c(10, "S"), c(Jack, "S")},
           {c(3, "D"), c(4, "H"), c(King, "C")}>>

OnSides(deal) == [s \in Sides |-> deal[s + 1]]

MCScenario == <<[mode |-> 7, hands |-> OnSides(DealA), start |-> 3],
                [mode |-> 4, hands |-> OnSides(DealB), start |-> 1]>>
=============================================================================
