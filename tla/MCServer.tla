------------------------------ MODULE MCServer ------------------------------
EXTENDS ServerProps

\* The -t option: for ever, or some seconds.
ForEver == -1

c(v, col) == [val |-> v, col |-> col]
OnSides(deal) == [s \in Sides |-> deal[s + 1]]

\* Two sides, a single trick.
OneTrick ==
    <<[mode |-> 7, hands |-> OnSides(<<{c(King, "H")}, {c(Queen, "H")}>>), start |-> 1]>>

\* Two sides, one trick a round, two rounds.
TwoShortRounds ==
    <<[mode |-> 7, hands |-> OnSides(<<{c(King, "H")}, {c(Queen, "H")}>>), start |-> 1],
      [mode |-> 2, hands |-> OnSides(<<{c(4, "H")}, {c(5, "H")}>>), start |-> 1]>>

\* Two sides, one round of two tricks.
OneRound ==
    <<[mode |-> 7, hands |-> OnSides(<<{c(King, "H"), c(2, "S")}, {c(Queen, "H"), c(3, "S")}>>), start |-> 1]>>

\* Three sides, one trick.
ThreeSides ==
    <<[mode |-> 7, hands |-> OnSides(<<{c(King, "H")}, {c(Queen, "H")}, {c(3, "S")}>>), start |-> 2]>>

\* Every client wants a side of its own.
OwnSide == [w \in Handlers |-> {w - 1}]

\* The first client and the third want side 0, the second side 1.
InTurn == [w \in Handlers |-> {IF w = 2 THEN 1 ELSE 0}]
AnySide == [w \in Handlers |-> Sides]
=============================================================================
