-------------------------------- MODULE Walks --------------------------------
(***************************************************************************)
(* Walks through linked lists and over sequences, as recursive functions.  *)
(***************************************************************************)
EXTENDS Integers, Sequences, FiniteSets

\* The addresses on a list that begins at first, 0 for none, and goes on as
\* next says.  A list that never ends is cut off after more places than there
\* are addresses.
Follow(first, next) ==
  LET at[n \in 0 .. Cardinality(DOMAIN next) + 1] ==
        IF n = 0 THEN first ELSE IF at[n - 1] \in DOMAIN next THEN next[at[n - 1]] ELSE 0
  IN [i \in 1 .. Cardinality({n \in DOMAIN at : at[n] # 0}) |-> at[i - 1]]

\* The members of S on the way through s.
Keep(s, S) ==
  LET kept[n \in 0 .. Len(s)] ==
        IF n = 0 THEN <<>> ELSE IF s[n] \in S THEN Append(kept[n - 1], s[n]) ELSE kept[n - 1]
  IN kept[Len(s)]
=============================================================================
