----------------------------- MODULE ChessMoves -----------------------------
(***************************************************************************)
(* The move generator of GNU Chess (genmove.c, atak.c, move.c) and the     *)
(* picking of moves one kind after another (sort.c).  A bitboard is a set  *)
(* of squares, 0 being a1 and 63 h8; the tables of init.c are functions.   *)
(* The three rotated copies of the occupied squares are one set here: they *)
(* are changed together (g.blockerr).  g is a record of ChessBoard.        *)
(* A definition named X_slip is X with a plausible slip, used by no        *)
(* specification; it serves to test the properties.                        *)
(***************************************************************************)
EXTENDS Integers, FiniteSetsExt

Sq == 0 .. 63
RANK(sq) == sq \div 8
ROW(sq) == sq % 8
A1 == 0  B1 == 1  C1 == 2  D1 == 3  E1 == 4  F1 == 5  G1 == 6  H1 == 7
A8 == 56  B8 == 57  C8 == 58  D8 == 59  E8 == 60  F8 == 61  G8 == 62  H8 == 63

Sides == {"white", "black"}
Other(side) == IF side = "white" THEN "black" ELSE "white"
Pieces == {"pawn", "knight", "bishop", "rook", "queen", "king"}
Promotions == {"queen", "knight", "rook", "bishop"}
slider == {"bishop", "rook", "queen"}

Forward == [white |-> 8, black |-> -8]
SecondRank == [white |-> 1, black |-> 6]
LastRank == [white |-> 7, black |-> 0]

\* An int of the code: MOVE(f,t), one of its flags, and the captured piece, which
\* MakeMove adds and MOVEMASK takes away: no generated or kept move has one.
ADDMOVE(f, t, flag) == [f |-> f, t |-> t, flag |-> flag, cap |-> "empty"]
ADDPROMOTE(f, t) == {ADDMOVE(f, t, piece) : piece \in Promotions}
NoMove == ADDMOVE(0, 0, "none")
NULLMOVE == ADDMOVE(0, 0, "NULLMOVE")

-----------------------------------------------------------------------------
(* Tables *)

Diagonals == {<<1, 1>>, <<1, -1>>, <<-1, 1>>, <<-1, -1>>}
Straights == {<<1, 0>>, <<0, 1>>, <<0, -1>>, <<-1, 0>>}
Ranks == {<<0, 1>>, <<0, -1>>}

\* The square k steps in direction d, as a set that is empty beyond the edge.
Steps(sq, d, k) ==
  LET r == RANK(sq) + k * d[1]  c == ROW(sq) + k * d[2]
  IN IF r \in 0 .. 7 /\ c \in 0 .. 7 THEN {8 * r + c} ELSE {}

Ray == [sq \in Sq |-> [d \in Diagonals \cup Straights |->
          UNION {Steps(sq, d, k) : k \in 1 .. 7}]]

\* From f, without it, to t; nothing if they are not on a line.
FromToRay == [f \in Sq |-> [t \in Sq |->
  UNION {UNION {Steps(f, d, j) : j \in 1 .. k} :
           <<d, k>> \in {x \in (Diagonals \cup Straights) \X (1 .. 7) : t \in Steps(f, x[1], x[2])}}]]

Leaps(sq, ds) == UNION {Steps(sq, d, 1) : d \in ds}
Rays(sq, ds) == UNION {Ray[sq][d] : d \in ds}

MoveArray ==
  [knight |-> [sq \in Sq |-> Leaps(sq, {<<r, c>> \in (-2 .. 2) \X (-2 .. 2) : r * c \in {2, -2}})],
   king   |-> [sq \in Sq |-> Leaps(sq, Diagonals \cup Straights)],
   bishop |-> [sq \in Sq |-> Rays(sq, Diagonals)],
   rook   |-> [sq \in Sq |-> Rays(sq, Straights)],
   queen  |-> [sq \in Sq |-> Rays(sq, Diagonals \cup Straights)]]
PawnArray ==
  [white |-> [sq \in Sq |-> Leaps(sq, {<<1, 1>>, <<1, -1>>})],
   black |-> [sq \in Sq |-> Leaps(sq, {<<-1, 1>>, <<-1, -1>>})]]

-----------------------------------------------------------------------------
(* Attacks *)

\* The squares on the rays up to the first one that is occupied.
Sliding(sq, ds, occupied) ==
  {t \in Rays(sq, ds) : (FromToRay[sq][t] \ {t}) \cap occupied = {}}

BishopAttack(g, sq) == Sliding(sq, Diagonals, g.blockerr)
RookAttack(g, sq) ==
  Sliding(sq, Ranks, g.blocker) \cup Sliding(sq, Straights \ Ranks, g.blockerr)

AttackFrom(g, sq, piece) ==
  CASE piece \in {"knight", "king"} -> MoveArray[piece][sq]
    [] piece = "bishop" -> BishopAttack(g, sq)
    [] piece = "rook" -> RookAttack(g, sq)
    [] piece = "queen" -> BishopAttack(g, sq) \cup RookAttack(g, sq)

\* The pieces that slide to sq as a bishop or a rook does.
Sliders(g, sq, side, piece) ==
  (g.b[side][piece] \cup g.b[side]["queen"]) \cap MoveArray[piece][sq]

Leapers(g, sq, side) ==
  (g.b[side]["knight"] \cap MoveArray["knight"][sq])
    \cup (g.b[side]["king"] \cap MoveArray["king"][sq])
    \cup (g.b[side]["pawn"] \cap PawnArray[Other(side)][sq])

SqAtakd(g, sq, side) ==
  \/ Leapers(g, sq, side) # {}
  \/ \E piece \in {"bishop", "rook"} :
       LET b == Sliders(g, sq, side, piece)
       IN \E t \in b : FromToRay[sq][t] \cap (g.blocker \ b) = {}

AttackTo(g, sq, side) ==
  Leapers(g, sq, side)
    \cup {t \in Sliders(g, sq, side, "bishop") \cup Sliders(g, sq, side, "rook") :
            (FromToRay[sq][t] \ {t}) \cap g.blocker = {}}

\* The first occupied square on the ray from `from', beyond the square sq of it.
FirstBeyond(g, from, sq) ==
  LET d == CHOOSE x \in Diagonals \cup Straights : sq \in Ray[from][x]
      b == (Ray[from][d] \ FromToRay[from][sq]) \cap g.blocker
  IN IF b = {} THEN {} ELSE {IF sq > from THEN Min(b) ELSE Max(b)}

PinnedOnKing(g, sq, side) ==
  LET kingsq == g.king[side]  xside == Other(side)
  IN /\ sq \in MoveArray["queen"][kingsq]
     /\ (FromToRay[kingsq][sq] \ {sq}) \cap g.blocker = {}
     /\ \E sq1 \in FirstBeyond(g, kingsq, sq) :
          sq1 \in g.b[xside]["queen"]
                    \cup g.b[xside][IF sq \in MoveArray["bishop"][kingsq] THEN "bishop" ELSE "rook"]

InCheck(g) == SqAtakd(g, g.king[g.side], Other(g.side))

-----------------------------------------------------------------------------
(* Generators *)

PieceMoves(g, targets) ==
  {ADDMOVE(x[1], x[2], "none") :
     x \in UNION {UNION {{f} \X (AttackFrom(g, f, piece) \cap targets) : f \in g.b[g.side][piece]} :
                    piece \in Pieces \ {"pawn"}}}

Pawns(g) == g.b[g.side]["pawn"]
PawnMoves(g, f, t) ==
  IF RANK(t) = LastRank[g.side] THEN ADDPROMOTE(f, t)
  ELSE IF t = g.ep /\ ROW(t) # ROW(f) THEN {ADDMOVE(f, t, "ENPASSANT")}
  ELSE {ADDMOVE(f, t, "none")}

\* Pawns that can go one square forward; a pawn on the last rank goes nowhere.
Free(g) == {f \in Pawns(g) : f + Forward[g.side] \in Sq \ g.blocker}
Advances(g, pawns) ==
  UNION {PawnMoves(g, f, f + Forward[g.side]) : f \in pawns \cap Free(g)}
DoubleAdvances(g) ==
  {ADDMOVE(f, f + 2 * Forward[g.side], "none") :
     f \in {x \in Free(g) : RANK(x) = SecondRank[g.side] /\ x + 2 * Forward[g.side] \notin g.blocker}}
PawnCaptures(g) ==
  UNION {UNION {PawnMoves(g, f, t) :
                  t \in PawnArray[g.side][f] \cap (g.friends[Other(g.side)] \cup ({g.ep} \cap Sq))} :
           f \in Pawns(g)}

\* From where the king and the rook castle, and the squares that must be empty
\* and those that must not be attacked.
Castles ==
  {[right |-> "WK", side |-> "white", f |-> E1, t |-> G1, rook |-> H1, upto |-> G1, safe |-> {E1, F1, G1}],
   [right |-> "WQ", side |-> "white", f |-> E1, t |-> C1, rook |-> A1, upto |-> B1, safe |-> {E1, D1, C1}],
   [right |-> "BK", side |-> "black", f |-> E8, t |-> G8, rook |-> H8, upto |-> G8, safe |-> {E8, F8, G8}],
   [right |-> "BQ", side |-> "black", f |-> E8, t |-> C8, rook |-> A8, upto |-> B8, safe |-> {E8, D8, C8}]}

Castlings(g) ==
  {ADDMOVE(c.f, c.t, "CASTLING") :
     c \in {x \in Castles :
              /\ x.side = g.side /\ x.right \in g.flag /\ x.rook \in g.b[g.side]["rook"]
              /\ FromToRay[x.f][x.upto] \cap g.blocker = {}
              /\ \A sq \in x.safe : ~SqAtakd(g, sq, Other(g.side))}}

GenMoves(g) ==
  PieceMoves(g, Sq \ g.friends[g.side]) \cup Advances(g, Sq) \cup DoubleAdvances(g)
    \cup PawnCaptures(g) \cup Castlings(g)

GenNonCaptures(g) ==
  PieceMoves(g, Sq \ g.blocker)
    \cup Advances(g, {f \in Sq : RANK(f) # SecondRank[Other(g.side)]})
    \cup DoubleAdvances(g) \cup Castlings(g)

GenCaptures(g) ==
  PieceMoves(g, g.friends[Other(g.side)])
    \cup Advances(g, {f \in Sq : RANK(f) = SecondRank[Other(g.side)]})
    \cup PawnCaptures(g)

\* In check: take the piece that gives it, or step in between, or go away.
\* MoveArray of the other side's pawns gives the pawns that take en passant.
Unpinned(g, from) == {f \in from : ~PinnedOnKing(g, f, g.side)}
PieceOrPromotion(g, f, t) ==
  IF g.cboard[f] = "pawn" /\ RANK(t) \in {0, 7} THEN ADDPROMOTE(f, t)
  ELSE {ADDMOVE(f, t, "none")}

Blocking(g, sq) ==
  LET fw == Forward[g.side]
  IN (AttackTo(g, sq, g.side) \ (g.b[g.side]["king"] \cup Pawns(g)))
       \cup ({sq - fw} \cap Pawns(g))
       \cup (IF RANK(sq) = SecondRank[g.side] + fw \div 4 /\ g.cboard[sq - fw] = "empty"
             THEN {sq - 2 * fw} \cap Pawns(g) ELSE {})

\* The pawns that take the checking pawn in passing; none may be pinned.
EnPassantEscapes_slip(g, chksq) ==
  IF g.ep # -1 /\ g.ep - Forward[g.side] = chksq
  THEN {ADDMOVE(f, g.ep, "ENPASSANT") : f \in PawnArray[Other(g.side)][g.ep] \cap Pawns(g)}
  ELSE {}
EnPassantEscapes(g, chksq) ==
  IF g.ep # -1 /\ g.ep - Forward[g.side] = chksq
  THEN {ADDMOVE(f, g.ep, "ENPASSANT") :
          f \in Unpinned(g, PawnArray[Other(g.side)][g.ep] \cap Pawns(g))}
  ELSE {}

GenCheckEscapes(g) ==
  LET side == g.side  xside == Other(side)
      kingsq == g.king[side]
      checkers == AttackTo(g, kingsq, xside)
      chksq == CHOOSE c \in checkers : TRUE
      captures == UNION {PieceOrPromotion(g, f, chksq) :
                           f \in Unpinned(g, AttackTo(g, chksq, side) \ g.b[side]["king"])}
      between == IF g.cboard[chksq] \in slider THEN FromToRay[kingsq][chksq] \ {chksq} ELSE {}
      blocks == UNION {UNION {PieceOrPromotion(g, f, sq) : f \in Unpinned(g, Blocking(g, sq))} :
                         sq \in between}
      swept == UNION {Ray[c][CHOOSE d \in Diagonals \cup Straights : kingsq \in Ray[c][d]] :
                        c \in {x \in checkers : g.cboard[x] \in slider}}
  IN (IF Cardinality(checkers) = 1 THEN captures \cup EnPassantEscapes(g, chksq) \cup blocks ELSE {})
       \cup {ADDMOVE(kingsq, sq, "none") :
               sq \in {x \in (MoveArray["king"][kingsq] \ g.friends[side]) \ swept : ~SqAtakd(g, x, xside)}}

-----------------------------------------------------------------------------
(* Moves kept from other positions, and the order of kinds *)

\* The search finds out by itself whether a move leaves the king attacked.
IsLegalMove(g, m) ==
  LET side == g.side  fw == Forward[side]
      piece == g.cboard[m.f]
      enemy == g.friends[Other(side)] \cup (IF m.flag = "ENPASSANT" THEN {g.ep} \cap Sq ELSE {})
      Advance(k) == m.t = m.f + k * fw /\ FromToRay[m.f][m.t] \cap g.blocker = {}
  IN /\ m.f \in g.friends[side] /\ m.t \notin g.friends[side]
     /\ m.flag \in Promotions \cup {"ENPASSANT"} => piece = "pawn"
     /\ m.flag = "ENPASSANT" => m.t = g.ep
     /\ m.flag = "CASTLING" => piece = "king"
     /\ CASE piece = "pawn" ->
              \/ m.t \in PawnArray[side][m.f] \cap enemy
              \/ Advance(1)
              \/ RANK(m.f) = SecondRank[side] /\ Advance(2)
          [] piece = "king" ->
              \/ m.t \in MoveArray["king"][m.f]
              \/ \E c \in Castles :
                   /\ c.side = side /\ c.f = m.f /\ c.t = m.t /\ c.right \in g.flag
                   /\ FromToRay[c.f][c.upto] \cap g.blocker = {}
                   /\ \A sq \in c.safe \ {c.t} : ~SqAtakd(g, sq, Other(side))
          [] OTHER -> m.t \in MoveArray[piece][m.f]
     /\ piece \in slider => (FromToRay[m.f][m.t] \ {m.t}) \cap g.blocker = {}

\* All that a node tries when nothing cuts it off: the move of the hash table,
\* the captures, the two killers, the rest; a move found again is passed over.
PhasePick(g, hash, k1, k2) ==
  {m \in {hash} \ {NoMove} : IsLegalMove(g, m)}
    \cup (GenCaptures(g) \ {hash})
    \cup {m \in {k1, k2} \ {NoMove, hash} : IsLegalMove(g, m)}
    \cup (GenNonCaptures(g) \ {hash, k1, k2})

-----------------------------------------------------------------------------
(* The static exchange evaluator *)

Value == [empty |-> 0, pawn |-> 100, knight |-> 350, bishop |-> 350,
          rook |-> 550, queen |-> 1100, king |-> 2000]
Xray_slip == {"bishop", "rook", "queen"}
Xray == {"pawn", "bishop", "rook", "queen"}
BySize == <<"pawn", "knight", "bishop", "rook", "queen", "king">>

\* The slider behind sq on its line to t, of either side.
AddXrayPiece(g, t, sq) ==
  IF g.cboard[sq] \notin Xray THEN {}
  ELSE {x \in FirstBeyond(g, t, sq) :
          \/ g.cboard[x] = "queen"
          \/ g.cboard[x] = "bishop" /\ x \in MoveArray["bishop"][t]
          \/ g.cboard[x] = "rook" /\ x \in MoveArray["rook"][t]}

\* The smallest piece among those that attack.
Smallest(g, from, side) ==
  LET i == CHOOSE k \in 1 .. 6 : /\ from \cap g.b[side][BySize[k]] # {}
                                 /\ \A j \in 1 .. k - 1 : from \cap g.b[side][BySize[j]] = {}
  IN Min(from \cap g.b[side][BySize[i]])

\* What side gains, at least nothing, by taking a piece of value val on t:
\* the list of scores and its minimax in one.  atk are the pieces of both sides
\* that still attack t.
RECURSIVE Gain(_, _, _, _, _)
Gain(g, t, side, atk, val) ==
  IF atk \cap g.friends[side] = {} THEN 0
  ELSE LET sq == Smallest(g, atk \cap g.friends[side], side)
           gain == val - Gain(g, t, Other(side), (atk \ {sq}) \cup AddXrayPiece(g, t, sq),
                              Value[g.cboard[sq]])
       IN IF gain > 0 THEN gain ELSE 0

SwapOff(g, m) ==
  LET f == m.f  t == m.t
      side == IF f \in g.friends["white"] THEN "white" ELSE "black"
      atk == ((AttackTo(g, t, side) \cup AttackTo(g, t, Other(side))) \ {f}) \cup AddXrayPiece(g, t, f)
      promoted == m.flag \in Promotions
      first == CASE promoted -> Value[m.flag] - Value["pawn"]
                 [] m.flag = "ENPASSANT" -> Value["pawn"]
                 [] OTHER -> Value[g.cboard[t]]
  IN first - Gain(g, t, Other(side), atk, Value[IF promoted THEN m.flag ELSE g.cboard[f]])
=============================================================================
