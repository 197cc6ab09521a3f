------------------------------ MODULE MCChess ------------------------------
(***************************************************************************)
(* Starts of chess games: few pieces, placed so that what is rare in a     *)
(* game is one or two moves away.                                          *)
(***************************************************************************)
EXTENDS ChessProps

\* The square of file c, 1 for a, and rank r.
S(c, r) == 8 * (r - 1) + c - 1

A2 == S(1, 2)
Nothing == [piece \in Pieces |-> {}]
Pos(w, b, side, flag) ==
  [b |-> [white |-> w @@ Nothing, black |-> b @@ Nothing], side |-> side, flag |-> flag, ep |-> -1]
Start(pos, plies) == [pos |-> pos, plies |-> plies, passes |-> FALSE, keeps |-> {}, only |-> {}]

\* Both sides may castle both ways, and the rooks take each other.
Castling ==
  Pos([king |-> {E1}, rook |-> {A1, H1}], [king |-> {E8}, rook |-> {A8, H8}], "white",
      {"WK", "WQ", "BK", "BQ"})

\* Taking d5 in passing opens the rank of the king; it is the way out of the
\* check d7-d5 gives, but not for the pawn the rook on e8 pins.
PassingOpens ==
  Pos([king |-> {S(1, 5)}, pawn |-> {S(3, 5)}], [king |-> {H8}, rook |-> {S(8, 5)}, pawn |-> {S(4, 7)}],
      "black", {})
PassingSaves ==
  Pos([king |-> {S(5, 4)}, pawn |-> {S(3, 5), S(5, 5)}],
      [king |-> {H8}, rook |-> {E8}, pawn |-> {S(4, 7)}], "black", {})

\* Promotions that take the rook of a castling, and one that gives up nothing.
Promoting ==
  Pos([king |-> {E1}, rook |-> {A1}, pawn |-> {S(7, 7)}],
      [king |-> {E8}, rook |-> {H8}, pawn |-> {S(2, 2)}], "white", {"WQ", "BK"})

\* Checks: by one piece, which is taken or cut off, by a promotion too, and by two.
Checks ==
  Pos([king |-> {E8}, pawn |-> {S(2, 7)}, rook |-> {S(4, 3)}, knight |-> {S(6, 5)}],
      [king |-> {A1}, rook |-> {A2}, bishop |-> {S(5, 4)}, queen |-> {S(5, 2)}], "black", {})

\* Rooks, queens, a bishop, knights and pawns that look at d5.
Exchanges ==
  Pos([king |-> {H1}, rook |-> {D1, S(4, 2)}, queen |-> {S(2, 3)}, bishop |-> {S(3, 4)}, knight |-> {S(3, 3)},
       pawn |-> {S(5, 4)}],
      [king |-> {H8}, rook |-> {D8}, queen |-> {S(4, 7)}, bishop |-> {S(2, 7)}, knight |-> {S(6, 6)},
       pawn |-> {S(5, 6), S(4, 5)}], "white", {})

Back == <<"rook", "knight", "bishop", "queen", "king", "bishop", "knight", "rook">>
First(rank, pawns) ==
  [piece \in Pieces |-> IF piece = "pawn" THEN pawns
                        ELSE {8 * rank + i - 1 : i \in {k \in 1 .. 8 : Back[k] = piece}}]
InitVars ==
  [b |-> [white |-> First(0, 8 .. 15), black |-> First(7, 48 .. 55)], side |-> "white",
   flag |-> {"WK", "WQ", "BK", "BQ"}, ep |-> -1]

Both(x, y) == {<<x, y>>, <<y, x>>}

\* Positions come again, with passes in between.
Repeating ==
  [Start(Pos([king |-> {G1}, rook |-> {A1}], [king |-> {G8}, rook |-> {B8}], "white", {}), 6)
     EXCEPT !.passes = TRUE, !.only = Both(A1, A2) \cup Both(B8, S(2, 7)) \cup Both(G1, H1)]

\* A move of the rook from f7 to f8, or from e1 to g1, is tried where it is
\* the pawn's or the king's.
Killer1 ==
  [Start(Pos([king |-> {H1}, rook |-> {S(4, 7)}, pawn |-> {S(6, 6)}], [king |-> {A8}], "white", {}), 3)
     EXCEPT !.keeps = {3}, !.only = {<<S(4, 7), S(6, 7)>>, <<S(6, 6), S(6, 7)>>, <<S(6, 7), F8>>} \cup Both(A8, B8)]
Killer2 ==
  [Start(Pos([king |-> {E1}, rook |-> {H1}, pawn |-> {A2}], [king |-> {A8}], "white", {"WK"}), 5)
     EXCEPT !.keeps = {5},
            !.only = {<<E1, S(5, 2)>>, <<H1, E1>>, <<E1, G1>>, <<A2, S(1, 3)>>, <<S(1, 3), S(1, 4)>>}
                       \cup Both(A8, B8)]

MCRoots ==
  {Start(Castling, 2), Start(PassingOpens, 2), Start(PassingSaves, 2), Start(Promoting, 2),
   Start(Checks, 1), Start(Exchanges, 1), Start(InitVars, 1), Repeating, Killer1, Killer2}
=============================================================================
