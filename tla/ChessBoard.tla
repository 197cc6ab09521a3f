----------------------------- MODULE ChessBoard -----------------------------
(***************************************************************************)
(* The board of GNU Chess and the moves made and taken back on it by a     *)
(* game and its search (move.c, null.c, repeat.c, hash.c, util.c, epd.c).  *)
(* The global variables board, cboard, Mvboard, HashKey, PawnHashKey,      *)
(* material, ExchCnt, Game50 and Game are the fields of one record, game.  *)
(* A hash key is the set of the random numbers that are in it.             *)
(* `was' is what game has been before each move that is not taken back: no *)
(* step depends on it.                                                     *)
(* A definition named X_slip is X with a plausible slip, used by no        *)
(* specification; it serves to test the properties.                        *)
(***************************************************************************)
EXTENDS ChessMoves, Sequences, SequencesExt

CONSTANT
  Roots      \* where games start: [pos |-> what an EPD line says, plies |-> moves
             \* made at most, passes |-> TRUE if the search may pass, keeps |-> the
             \* plies whose killers are kept, only |-> the moves considered, {} for all]

VARIABLES root, game, was, killer1, killer2

chessVars == <<root, game, was, killer1, killer2>>

a ++ b == (a \ b) \cup (b \ a)

Key(side, piece, sqs) == {<<side, piece, sq>> : sq \in sqs}
EpKey(ep) == Key("any", "ephash", {ep} \cap Sq)
CastleKey(rights) == {<<"any", right, 0>> : right \in rights}
Sidehash == Key("any", "side", {0})

UpdateFriends(b) == [side \in Sides |-> UNION {b[side][piece] : piece \in Pieces}]
Occupied(b) == UNION {UpdateFriends(b)[side] : side \in Sides}
UpdateCBoard(b) ==
  [sq \in Sq |-> IF sq \in Occupied(b)
                 THEN CHOOSE piece \in Pieces : \E side \in Sides : sq \in b[side][piece]
                 ELSE "empty"]
CalcPawnHashKey(b) == UNION {Key(side, "pawn", b[side]["pawn"]) : side \in Sides}
CalcHashKey(b, ep, flag, side) ==
  UNION {Key(x[1], x[2], b[x[1]][x[2]]) : x \in Sides \X Pieces}
    \cup EpKey(ep) \cup CastleKey(flag) \cup (IF side = "black" THEN Sidehash ELSE {})

\* The king is not counted.
Worth(b, side, pieces) ==
  FoldSet(LAMBDA piece, sum : sum + Value[piece] * Cardinality(b[side][piece]), 0, pieces \ {"king"})

OrigCboard ==
  [sq \in Sq |-> CASE RANK(sq) \in {1, 6} -> "pawn"
                   [] RANK(sq) \in {0, 7} ->
                        <<"rook", "knight", "bishop", "queen", "king", "bishop", "knight", "rook">>[ROW(sq) + 1]
                   [] OTHER -> "empty"]
UpdateMvboard(cboard) ==
  [sq \in Sq |-> IF cboard[sq] \in {"empty", OrigCboard[sq]} THEN 0 ELSE 1]

\* A position read from an EPD line, or the first of a game; GameCnt is -1.
Load(pos) ==
  [b |-> pos.b, friends |-> UpdateFriends(pos.b), blocker |-> Occupied(pos.b),
   blockerr |-> Occupied(pos.b), cboard |-> UpdateCBoard(pos.b),
   Mvboard |-> UpdateMvboard(UpdateCBoard(pos.b)),
   king |-> [side \in Sides |-> Min(pos.b[side]["king"])],
   material |-> [side \in Sides |-> Worth(pos.b, side, Pieces)],
   pmaterial |-> [side \in Sides |-> Worth(pos.b, side, Pieces \ {"pawn"})],
   castled |-> [side \in Sides |-> FALSE], ExchCnt |-> [side \in Sides |-> 0],
   side |-> pos.side, flag |-> pos.flag, ep |-> pos.ep,
   HashKey |-> CalcHashKey(pos.b, pos.ep, pos.flag, pos.side),
   PawnHashKey |-> CalcPawnHashKey(pos.b),
   Game50 |-> 0, Game |-> <<>>]

GameCnt(g) == Len(g.Game) - 1

-----------------------------------------------------------------------------
(* Making a move *)

\* From where to where the rook goes when the king goes to t.
RookFrom_slip(t) == IF ROW(t) = ROW(G1) THEN t + 1 ELSE t - 1
RookFrom(t) == IF ROW(t) = ROW(G1) THEN t + 1 ELSE t - 2
RookTo(t) == IF ROW(t) = ROW(G1) THEN t - 1 ELSE t + 1
IfCastling(m, sq) == IF m.flag = "CASTLING" THEN {sq} ELSE {}
\* The square of a pawn taken in passing.
Passed(m, side, ep) == IF m.flag = "ENPASSANT" THEN {ep - Forward[side]} ELSE {}

\* The castlings that are over when piece goes from f to t and takes taken.
Lost_slip(side, piece, f, t, taken) ==
  {c.right : c \in {x \in Castles :
     x.side = side /\ (piece = "king" \/ (piece = "rook" /\ f = x.rook))}}
Lost(side, piece, f, t, taken) ==
  {c.right : c \in {x \in Castles :
     \/ x.side = side /\ (piece = "king" \/ (piece = "rook" /\ f = x.rook))
     \/ x.side # side /\ taken = "rook" /\ t = x.rook}}

MakeMove(g, m) ==
  LET side == g.side  xside == Other(side)
      f == m.f  t == m.t
      fpiece == g.cboard[f]  tpiece == g.cboard[t]
      promoted == m.flag \in Promotions
      npiece == IF promoted THEN m.flag ELSE fpiece
      epsq == Passed(m, side, g.ep)
      rookf == IfCastling(m, RookFrom(t))  rookt == IfCastling(m, RookTo(t))
      taken == [piece \in Pieces |->
                  (IF piece = tpiece THEN {t} ELSE {}) \cup (IF piece = "pawn" THEN epsq ELSE {})]
      b == [g.b EXCEPT ![side][fpiece] = @ \ {f}, ![side][npiece] = @ \cup {t},
                       ![side]["rook"] = (@ \ rookf) \cup rookt,
                       ![xside] = [piece \in Pieces |-> @[piece] \ taken[piece]]]
      lost == Lost(side, fpiece, f, t, tpiece) \cap g.flag
      ep == IF fpiece = "pawn" /\ f - t \in {16, -16} THEN (f + t) \div 2 ELSE -1
      moved == Key(side, fpiece, {f}) \cup Key(side, npiece, {t})
      removed == UNION {Key(xside, piece, taken[piece]) : piece \in Pieces}
      pawns == {k \in moved \cup removed : k[2] = "pawn"}
  IN [g EXCEPT
        !.b = b, !.friends = UpdateFriends(b), !.blocker = Occupied(b),
        !.blockerr = (((@ \ {f}) \cup {t}) \ (epsq \cup rookf)) \cup rookt,
        !.cboard = [sq \in Sq |-> CASE sq = t -> npiece
                                    [] sq \in rookt -> "rook"
                                    [] sq \in {f} \cup epsq \cup rookf -> "empty"
                                    [] OTHER -> @[sq]],
        !.Mvboard = [sq \in Sq |-> CASE sq = t -> @[f] + 1
                                     [] sq \in rookt -> 1
                                     [] sq \in {f} \cup rookf -> 0
                                     [] OTHER -> @[sq]],
        !.king[side] = IF fpiece = "king" THEN t ELSE @,
        !.material[side] = @ + (IF promoted THEN Value[npiece] - Value["pawn"] ELSE 0),
        !.pmaterial[side] = @ + (IF promoted THEN Value[npiece] ELSE 0),
        !.material[xside] = @ - Value[tpiece] - Value["pawn"] * Cardinality(epsq),
        !.pmaterial[xside] = @ - (IF tpiece = "pawn" THEN 0 ELSE Value[tpiece]),
        !.ExchCnt[side] = @ + (IF tpiece # "empty" \/ epsq # {} THEN 1 ELSE 0),
        !.castled[side] = @ \/ m.flag = "CASTLING",
        !.side = xside, !.flag = @ \ lost, !.ep = ep,
        !.HashKey = @ ++ EpKey(g.ep) ++ moved ++ removed ++ Key(side, "rook", rookf \cup rookt)
                      ++ CastleKey(lost) ++ EpKey(ep) ++ Sidehash,
        !.PawnHashKey = @ ++ pawns,
        !.Game50 = IF tpiece # "empty" \/ m.flag = "CASTLING" \/ fpiece = "pawn"
                   THEN GameCnt(g) + 1 ELSE @,
        !.Game = Append(@, [move |-> [m EXCEPT !.cap = tpiece], epsq |-> g.ep, bflag |-> g.flag,
                            Game50 |-> g.Game50, hashkey |-> g.HashKey, phashkey |-> g.PawnHashKey,
                            mvboard |-> g.Mvboard[t]])]

\* What is not undone but read from the record of the move.
Restored_slip(g, r) ==
  [g EXCEPT !.ep = r.epsq, !.flag = r.bflag, !.HashKey = r.hashkey, !.PawnHashKey = r.phashkey,
            !.Game = Front(@)]
Restored(g, r) ==
  [g EXCEPT !.ep = r.epsq, !.flag = r.bflag, !.HashKey = r.hashkey, !.PawnHashKey = r.phashkey,
            !.Game50 = r.Game50, !.Game = Front(@)]

UnmakeMove(g) ==
  LET side == Other(g.side)  xside == g.side
      r == Last(g.Game)  m == r.move
      f == m.f  t == m.t  cpiece == m.cap
      fpiece == g.cboard[t]
      promoted == m.flag \in Promotions
      opiece == IF promoted THEN "pawn" ELSE fpiece
      epsq == Passed(m, side, r.epsq)
      rookf == IfCastling(m, RookFrom(t))  rookt == IfCastling(m, RookTo(t))
      back == IF cpiece # "empty" THEN {t} ELSE {}
      b == [g.b EXCEPT ![side][fpiece] = @ \ {t}, ![side][opiece] = @ \cup {f},
                       ![side]["rook"] = (@ \ rookt) \cup rookf,
                       ![xside] = [piece \in Pieces |->
                          @[piece] \cup (IF piece = cpiece THEN {t} ELSE {})
                                   \cup (IF piece = "pawn" THEN epsq ELSE {})]]
  IN [Restored(g, r) EXCEPT
        !.b = b, !.friends = UpdateFriends(b), !.blocker = Occupied(b),
        !.blockerr = (((@ \ {t}) \cup {f} \cup back \cup epsq) \ rookt) \cup rookf,
        !.cboard = [sq \in Sq |-> CASE sq = f -> opiece
                                    [] sq = t -> cpiece
                                    [] sq \in epsq -> "pawn"
                                    [] sq \in rookf -> "rook"
                                    [] sq \in rookt -> "empty"
                                    [] OTHER -> @[sq]],
        !.Mvboard = [sq \in Sq |-> CASE sq = f -> @[t] - 1
                                     [] sq = t -> r.mvboard
                                     [] sq \in rookf \cup rookt -> 0
                                     [] OTHER -> @[sq]],
        !.king[side] = IF fpiece = "king" THEN f ELSE @,
        !.material[side] = @ - (IF promoted THEN Value[fpiece] - Value["pawn"] ELSE 0),
        !.pmaterial[side] = @ - (IF promoted THEN Value[fpiece] ELSE 0),
        !.material[xside] = @ + Value[cpiece] + Value["pawn"] * Cardinality(epsq),
        !.pmaterial[xside] = @ + (IF cpiece = "pawn" THEN 0 ELSE Value[cpiece]),
        !.ExchCnt[side] = @ - (IF cpiece # "empty" \/ epsq # {} THEN 1 ELSE 0),
        !.castled[side] = @ /\ m.flag # "CASTLING",
        !.side = side]

\* A pass has a record too, not all of whose fields are written.
MakeNullMove(g) ==
  [g EXCEPT !.HashKey = @ ++ EpKey(g.ep) ++ Sidehash, !.ep = -1, !.side = Other(@),
            !.Game = Append(@, [move |-> NULLMOVE, epsq |-> g.ep, bflag |-> g.flag,
                                hashkey |-> g.HashKey])]
UnmakeNullMove(g) ==
  LET r == Last(g.Game)
  IN [g EXCEPT !.side = Other(@), !.ep = r.epsq, !.flag = r.bflag, !.HashKey = r.hashkey,
               !.Game = Front(@)]

\* How often the position was there since the last move that cannot be undone.
\* Game[i] is the i+1st element of the sequence.
Repeat_slip(g) ==
  Cardinality({i \in g.Game50 + 1 .. GameCnt(g) - 3 :
                 (GameCnt(g) - 3 - i) % 2 = 0 /\ g.Game[i + 1].hashkey = g.HashKey})
Repeat(g) ==
  Cardinality({i \in g.Game50 .. GameCnt(g) - 3 :
                 (GameCnt(g) - 3 - i) % 2 = 0 /\ g.Game[i + 1].hashkey = g.HashKey})

-----------------------------------------------------------------------------
(* A game and the search *)

Passing(g) == g.Game # <<>> /\ Last(g.Game).move = NULLMOVE

\* The side that has moved must not have left its king attacked.
Allowed(g) == ~SqAtakd(g, g.king[Other(g.side)], g.side)

FilterIllegalMoves(g, ms) == {m \in ms : Allowed(MakeMove(g, m))}

\* What a node tries, at ply 1 and below it.
Picked(g) ==
  IF g.Game = <<>> THEN FilterIllegalMoves(g, GenMoves(g))
  ELSE IF InCheck(g) THEN GenCheckEscapes(g)
  ELSE PhasePick(g, NoMove, killer1[Len(g.Game) + 1], killer2[Len(g.Game) + 1])

Init ==
  /\ root \in Roots
  /\ game = Load(root.pos) /\ was = <<>>
  /\ killer1 = [ply \in 1 .. root.plies + 1 |-> NoMove] /\ killer2 = killer1

Considered(m) == root.only # {} => <<m.f, m.t>> \in root.only

Make ==
  /\ Len(game.Game) < root.plies /\ Allowed(game)
  /\ \E m \in Picked(game) : Considered(m) /\ game' = MakeMove(game, m)
  /\ was' = Append(was, game)
  /\ UNCHANGED <<root, killer1, killer2>>

\* The node is left; its best move may be one to try first at this ply elsewhere.
Killers(g) ==
  IF ~Allowed(g) \/ Len(g.Game) + 1 \notin root.keeps THEN {}
  ELSE {m \in FilterIllegalMoves(g, Picked(g)) :
          Considered(m) /\ m.flag \notin Promotions /\ g.cboard[m.t] = "empty"}
KeepKiller(ply, m) ==
  IF killer1[ply] = NoMove THEN killer1' = [killer1 EXCEPT ![ply] = m] /\ UNCHANGED killer2
  ELSE UNCHANGED killer1 /\ killer2' = IF m = killer1[ply] THEN killer2 ELSE [killer2 EXCEPT ![ply] = m]

Leave ==
  /\ \/ UNCHANGED <<killer1, killer2>>
     \/ \E m \in Killers(game) : KeepKiller(Len(game.Game) + 1, m)
  /\ was' = Front(was) /\ UNCHANGED root

Unmake ==
  /\ game.Game # <<>> /\ ~Passing(game)
  /\ game' = UnmakeMove(game) /\ Leave

Null ==
  /\ root.passes /\ Len(game.Game) \in 1 .. root.plies - 1
  /\ Allowed(game) /\ ~InCheck(game) /\ ~Passing(game)
  /\ game.pmaterial[game.side] > Value["bishop"]
  /\ game' = MakeNullMove(game) /\ was' = Append(was, game)
  /\ UNCHANGED <<root, killer1, killer2>>

UnmakeNull ==
  /\ Passing(game)
  /\ game' = UnmakeNullMove(game) /\ Leave

Next == Make \/ Unmake \/ Null \/ UnmakeNull
=============================================================================
