----------------------------- MODULE ChessProps -----------------------------
(***************************************************************************)
(* What makes the board and the moves of GNU Chess correct.                *)
(***************************************************************************)
EXTENDS ChessBoard

\* A position of the game in the words of the rules.
PieceAt(b, sq) ==
  LET there == {x \in Sides \X Pieces : sq \in b[x[1]][x[2]]}
  IN IF there = {} THEN <<"none", "empty">> ELSE CHOOSE x \in there : TRUE
PositionOf(g) ==
  [at |-> [sq \in Sq |-> PieceAt(g.b, sq)], side |-> g.side, rights |-> g.flag, ep |-> g.ep]

R == INSTANCE ChessRules WITH
       position <- PositionOf(game), earlier <- [i \in 1 .. Len(was) |-> PositionOf(was[i])],
       Starts <- {PositionOf(Load(r.pos)) : r \in Roots}

\* What IsLegalMove lets through and no generator makes, when the killer was a
\* move of another piece: a pawn that stays one on the last rank, and a king that
\* goes two squares without the rook.
Unruly(g, m) ==
  \/ g.cboard[m.f] = "pawn" /\ m.flag = "none" /\ RANK(m.t) = LastRank[g.side]
  \/ g.cboard[m.f] = "king" /\ m.flag = "none" /\ m.t \notin MoveArray["king"][m.f]

Enacted(g, m) ==
  R!Move(m.f, m.t, IF m.flag \in Promotions THEN m.flag ELSE g.cboard[m.f])
Enact(g, ms) == {Enacted(g, m) : m \in ms}

(* Everything kept up to date move by move (the pieces, their union and its     *)
(* copies, the kings, the material, the exchanges, both keys) is what a new     *)
(* count of the board gives, and the square to take on and the castlings left   *)
(* are what ValidateBoard accepts.                                              *)
Captures(g, side) ==
  {i \in DOMAIN g.Game :
     /\ g.Game[i].move # NULLMOVE /\ was[i].side = side
     /\ g.Game[i].move.cap # "empty" \/ g.Game[i].move.flag = "ENPASSANT"}
BoardExact ==
  LET g == game
  IN /\ g.cboard = UpdateCBoard(g.b)
     /\ g.friends = UpdateFriends(g.b) /\ g.blocker = Occupied(g.b) /\ g.blockerr = g.blocker
     /\ \A x, y \in Sides \X Pieces : x # y => g.b[x[1]][x[2]] \cap g.b[y[1]][y[2]] = {}
     /\ \A side \in Sides :
          /\ g.b[side]["king"] = {g.king[side]}
          /\ g.material[side] = Worth(g.b, side, Pieces)
          /\ g.pmaterial[side] = Worth(g.b, side, Pieces \ {"pawn"})
          /\ g.ExchCnt[side] = Cardinality(Captures(g, side))
     /\ g.HashKey = CalcHashKey(g.b, g.ep, g.flag, g.side)
     /\ g.PawnHashKey = CalcPawnHashKey(g.b)
     /\ g.ep # -1 => g.ep - Forward[g.side] \in g.b[Other(g.side)]["pawn"]
     /\ \A c \in Castles : c.right \in g.flag => c.f \in g.b[c.side]["king"] /\ c.rook \in g.b[c.side]["rook"]

(* Taking a move or a pass back restores all of the board, the counts and the    *)
(* keys, after whatever was made and taken back in between.                     *)
TakenBack == Len(game'.Game) < Len(game.Game) => game' = Last(was)
UnmakeRestores == [][TakenBack]_chessVars

(* The search sees a repetition exactly when the position was there before on   *)
(* the way from the start, with the same side, rights and square to take on.    *)
RepeatsCounted ==
  LET same == {i \in DOMAIN was : PositionOf(was[i]) = PositionOf(game)}
  IN Cardinality(same) = IF GameCnt(game) >= game.Game50 + 3 THEN Repeat(game) ELSE 0

\* Captures and the rest are all moves, with none twice; the legal ones are those
\* of the rules; in check the escapes are just the legal moves.
GeneratorsAgree ==
  Allowed(game) =>
    LET all == GenMoves(game)
        legal == FilterIllegalMoves(game, all)
        captures == GenCaptures(game)
        rest == GenNonCaptures(game)
    IN /\ Enact(game, legal) = R!Legal(PositionOf(game))
       /\ all = captures \cup rest /\ captures \cap rest = {}
       /\ InCheck(game) => GenCheckEscapes(game) = legal

\* Whatever move the hash table holds for the position, and whatever killers other
\* positions of the ply left.
PicksComplete ==
  Allowed(game) /\ ~InCheck(game) =>
    LET all == GenMoves(game)
        ply == Len(game.Game) + 1
        tried == PhasePick(game, NoMove, killer1[ply], killer2[ply])
    IN /\ \A hash \in all : PhasePick(game, hash, killer1[ply], killer2[ply]) = tried
       /\ FilterIllegalMoves(game, all) \subseteq tried
       /\ \A m \in FilterIllegalMoves(game, tried) : m \in all \/ Unruly(game, m)

(* The four generators agree with each other and with the rules of chess, and a *)
(* node tries every legal move and no other, but for the two kinds of Unruly.   *)
MovesExact == GeneratorsAgree /\ PicksComplete

(* The value SwapOff gives a move is that of the best exchange on its square,   *)
(* the smallest piece first, found by looking at the board anew after each take;*)
(* as in the code a king that takes uncovers nothing.                           *)
RECURSIVE Exchange(_, _, _, _, _)
Exchange(at, t, side, gone, val) ==
  LET lines == [sq \in Sq |-> IF sq \in gone /\ at[sq][2] # "king" THEN <<"none", "empty">> ELSE at[sq]]
      from == R!Attackers(lines, t, side) \ gone
      Size(sq) == Value[at[sq][2]]
      sq == CHOOSE x \in from : \A y \in from : Size(x) < Size(y) \/ (Size(x) = Size(y) /\ x <= y)
      gain == val - Exchange(at, t, Other(side), gone \cup {sq}, Size(sq))
  IN IF from = {} \/ gain < 0 THEN 0 ELSE gain
SwapExact ==
  LET at == PositionOf(game).at
  IN Allowed(game) =>
       \A m \in {x \in FilterIllegalMoves(game, GenMoves(game)) : x.flag = "none"} :
         SwapOff(game, m) = Value[game.cboard[m.t]]
                              - Exchange(at, m.t, Other(game.side), {m.f}, Value[game.cboard[m.f]])

(* The game and the search play chess: each step is a move of the rules, a pass *)
(* or a move taken back, but for those two kinds.                               *)
ChessMove == R!Next \/ \E m \in Picked(game) : Unruly(game, m) /\ game' = MakeMove(game, m)
PlaysChess == R!Init /\ [][ChessMove]_chessVars
=============================================================================
