------------------------------ MODULE MCClients ------------------------------
EXTENDS ClientServer

c(v, col) == [val |-> v, col |-> col]
OnSides(deal) == [s \in Sides |-> deal[s + 1]]

\* Two sides, two rounds of two tricks.
TwoRounds ==
    <<[mode |-> 7, hands |-> OnSides(<<{c(King, "H"), c(2, "S")}, {c(Queen, "H"), c(3, "S")}>>), start |-> 1],
      [mode |-> 2, hands |-> OnSides(<<{c(4, "H"), c(5, "H")}, {c(6, "H"), c(7, "C")}>>), start |-> 0]>>

\* The second client plays side 1, the others want side 0.
InTurn == [w \in Clients |-> IF w = 2 THEN 1 ELSE 0]
=============================================================================
