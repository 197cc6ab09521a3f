----------------------------- MODULE ChessRules -----------------------------
(***************************************************************************)
(* The rules of chess, square by square: what the board and the move       *)
(* generator of GNU Chess promise.  A position says what stands on each    *)
(* square, who is to move, which castlings are still possible and which    *)
(* square a pawn has just passed over (-1: none).                          *)
(***************************************************************************)
EXTENDS Integers, Sequences

CONSTANT Starts   \* the positions a game or a search starts from

VARIABLES position, earlier

rules == <<position, earlier>>

None == <<"none", "empty">>
Opponent(side) == IF side = "white" THEN "black" ELSE "white"
Up(side) == IF side = "white" THEN 1 ELSE -1
Home(side) == IF side = "white" THEN 0 ELSE 7

OnBoard(r, c) == r \in 0 .. 7 /\ c \in 0 .. 7
Straight == {<<1, 0>>, <<-1, 0>>, <<0, 1>>, <<0, -1>>}
Diagonal == {<<1, 1>>, <<1, -1>>, <<-1, 1>>, <<-1, -1>>}
Jumps == {<<1, 2>>, <<2, 1>>, <<-1, 2>>, <<-2, 1>>, <<1, -2>>, <<2, -1>>, <<-1, -2>>, <<-2, -1>>}

\* Directions and how far a piece goes in them.
Steps(side, piece) ==
  CASE piece = "knight" -> <<Jumps, 1>>
    [] piece = "bishop" -> <<Diagonal, 7>>
    [] piece = "rook"   -> <<Straight, 7>>
    [] piece = "queen"  -> <<Straight \cup Diagonal, 7>>
    [] piece = "king"   -> <<Straight \cup Diagonal, 1>>
    [] piece = "pawn"   -> << {<<Up(side), 1>>, <<Up(side), -1>>}, 1>>
    [] piece = "empty"  -> << {}, 0 >>

\* The squares the piece on sq can take something on.
Reach(at, sq) ==
  LET r == sq \div 8  c == sq % 8
      how == Steps(at[sq][1], at[sq][2])
      Square(d, k) == 8 * (r + k * d[1]) + c + k * d[2]
  IN UNION {{Square(d, k) : k \in {x \in 1 .. how[2] :
                /\ OnBoard(r + x * d[1], c + x * d[2])
                /\ \A y \in 1 .. x - 1 : at[Square(d, y)] = None}} : d \in how[1]}

Of(at, side) == {sq \in DOMAIN at : at[sq][1] = side}
Attackers(at, sq, side) == {f \in Of(at, side) : sq \in Reach(at, f)}
Attacked(at, sq, side) == \E f \in Of(at, side) : sq \in Reach(at, f)
InCheckOf(at, side) ==
  \E sq \in Of(at, side) : at[sq][2] = "king" /\ Attacked(at, sq, Opponent(side))

Move(f, t, become) == [f |-> f, t |-> t, become |-> become]

\* A pawn that arrives on the last rank becomes something else.
PawnTo(side, f, t) ==
  IF t \div 8 = Home(Opponent(side))
  THEN {Move(f, t, x) : x \in {"knight", "bishop", "rook", "queen"}}
  ELSE {Move(f, t, "pawn")}

PawnTargets(p, f) ==
  LET one == f + 8 * Up(p.side)  two == one + 8 * Up(p.side)
      ahead == IF one \in 0 .. 63 /\ p.at[one] = None THEN {one} ELSE {}
  IN ahead
       \cup {t \in {two} : ahead # {} /\ f \div 8 = Home(p.side) + Up(p.side) /\ p.at[t] = None}
       \cup {t \in Reach(p.at, f) : p.at[t][1] = Opponent(p.side) \/ t = p.ep}

\* A castling is a move of the king by two squares.
CastlingRook == [WK |-> 7, WQ |-> 0, BK |-> 63, BQ |-> 56]
CastlingKing == [WK |-> 4, WQ |-> 4, BK |-> 60, BQ |-> 60]
CastlingTargets(p) ==
  {x \in p.rights :
     LET k == CastlingKing[x]  rook == CastlingRook[x]
         way == IF rook > k THEN 1 ELSE -1
     IN /\ p.at[k] = <<p.side, "king">> /\ p.at[rook] = <<p.side, "rook">>
        /\ \A sq \in 0 .. 63 : (sq - k) * way > 0 /\ (rook - sq) * way > 0 => p.at[sq] = None
        /\ \A i \in 0 .. 2 : ~Attacked(p.at, k + i * way, Opponent(p.side))}

Moves(p) ==
  UNION {IF p.at[f][2] = "pawn" THEN UNION {PawnTo(p.side, f, t) : t \in PawnTargets(p, f)}
         ELSE {Move(f, t, p.at[f][2]) : t \in {x \in Reach(p.at, f) : p.at[x][1] # p.side}} :
           f \in Of(p.at, p.side)}
    \cup {Move(CastlingKing[x], CastlingKing[x] + (IF CastlingRook[x] > CastlingKing[x] THEN 2 ELSE -2), "king") :
            x \in CastlingTargets(p)}

After(p, m) ==
  LET who == p.at[m.f]
      passant == who[2] = "pawn" /\ m.t = p.ep /\ p.at[m.t] = None
      castling == {x \in p.rights : who = <<p.side, "king">> /\ m.f = CastlingKing[x]
                                      /\ (m.t - m.f) = (IF CastlingRook[x] > m.f THEN 2 ELSE -2)}
      removed == {m.f} \cup (IF passant THEN {p.ep - 8 * Up(p.side)} ELSE {})
                   \cup {CastlingRook[x] : x \in castling}
  IN [at |-> [sq \in DOMAIN p.at |->
                CASE sq = m.t -> <<p.side, m.become>>
                  [] castling # {} /\ 2 * sq = m.f + m.t -> <<p.side, "rook">>
                  [] sq \in removed -> None
                  [] OTHER -> p.at[sq]],
      side |-> Opponent(p.side),
      rights |-> {x \in p.rights : {m.f, m.t} \cap {CastlingKing[x], CastlingRook[x]} = {}},
      ep |-> IF who[2] = "pawn" /\ m.t - m.f \in {16, -16} THEN (m.f + m.t) \div 2 ELSE -1]

Legal(p) == {m \in Moves(p) : ~InCheckOf(After(p, m).at, p.side)}

-----------------------------------------------------------------------------
(* A game, with moves taken back, and a search, which also passes *)

Init == position \in Starts /\ earlier = <<>>

Play ==
  /\ earlier' = Append(earlier, position)
  /\ position' \in {After(position, m) : m \in Moves(position)}
Pass ==
  /\ ~InCheckOf(position.at, position.side)
  /\ position' = [position EXCEPT !.side = Opponent(@), !.ep = -1]
  /\ earlier' = Append(earlier, position)
TakeBack ==
  /\ earlier # <<>>
  /\ earlier' = SubSeq(earlier, 1, Len(earlier) - 1)
  /\ position' = earlier[Len(earlier)]

Next == TakeBack \/ Play \/ Pass
Spec == Init /\ [][Next]_rules
=============================================================================
