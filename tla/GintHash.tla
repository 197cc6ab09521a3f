------------------------------- MODULE GintHash -------------------------------
(***************************************************************************)
(* The extendible hash table of WhiteDB (wg_ginthash_addkey and            *)
(* wg_ginthash_getkey in dbhash.c), in which the replay of a journal looks *)
(* up where the objects of the journal are now.  A directory of 2^level    *)
(* entries leads to buckets, each shared by the entries that agree in the  *)
(* lowest bits, as many as the level of the bucket.  A full bucket splits, *)
(* and the directory doubles if the bucket has it all to itself.           *)
(* A definition named X_slip is X with a plausible slip, used by no        *)
(* specification; it serves to test the properties.                        *)
(***************************************************************************)
EXTENDS Walks, SequencesExt

CONSTANTS Keys, Vals,
          Scrambled(_),  \* GINTHASH_SCRAMBLE
          Cap,       \* GINTHASH_BUCKETCAP; a bucket has one more slot, to overflow
          MaxLevel,  \* GINTHASH_MAXLEVEL
          MaxAdds    \* bound: the calls of addkey

VARIABLES tbl,    \* the table: level, directory, buckets
          added,  \* the calls that succeeded, <<key, value>>
          calls, failed

gintVars == <<tbl, added, calls, failed>>

ASSUME GintAssumption ==
  /\ \A key \in Keys : Scrambled(key) \in Nat
  /\ Cap \in Nat \ {0} /\ MaxLevel \in Nat /\ MaxLevel >= 2

\* Shifts of 1, and what is masked with them.
Power[level \in 0 .. MaxLevel] == IF level = 0 THEN 1 ELSE 2 * Power[level - 1]
Low(h, level) == h % Power[level]
Bit(h, level) == (h \div Power[level]) % 2
Entries(level) == 0 .. Power[level] - 1

-----------------------------------------------------------------------------
(* ginthash_splitbucket *)

\* grow_ginthash: the new half of the directory leads where the old one does.
Grow(t) ==
  [t EXCEPT !.level = @ + 1,
            !.directory = [k \in Entries(t.level + 1) |-> t.directory[Low(k, t.level)]]]

\* The entries that move to the new bucket, from the last one to the first.
WithBit(items, level, bit) == {e \in Range(items) : Bit(Scrambled(e[1]), level) = bit}
Moved(items, level) == Keep(Reverse(items), WithBit(items, level, 1))
Stay(items, level) == Keep(items, WithBit(items, level, 0))

\* The directory entries that lead to the new bucket, for a bucket that had
\* the given level and keys with the given lowest bits.
Redirected_slip(t, level, low) == {Power[level] + low}
Redirected(t, level, low) == {k \in Entries(t.level) : Low(k, level) = low /\ Bit(k, level) = 1}

\* Splits the bucket b; res is the new bucket, 0 on failure.
Split(t0, b) ==
  LET level == t0.bucket[b].level
      grown == level = t0.level
      t == IF grown THEN Grow(t0) ELSE t0
      new == Len(t.bucket) + 1
      items == t.bucket[b].items
      redirected == Redirected(t, level, Low(Scrambled(items[1][1]), level))
      buckets == Append([t.bucket EXCEPT ![b] = [level |-> level + 1, items |-> Stay(items, level)]],
                        [level |-> level + 1, items |-> Moved(items, level)])
  IN IF grown /\ t0.level + 1 >= MaxLevel THEN [t0 EXCEPT !.res = 0]
     ELSE IF ~grown /\ \E k \in redirected : t.directory[k] # b THEN [t EXCEPT !.bucket = buckets, !.res = 0]
     ELSE [t EXCEPT !.bucket = buckets, !.res = new,
                    !.directory = [k \in Entries(t.level) |-> IF k \in redirected THEN new ELSE @[k]]]

\* Splits until the entry that overflowed has found room.
Overfull(t, b) == Len(t.bucket[b].items) > Cap
SplitAll(t, b) ==
  LET split[n \in 0 .. MaxLevel] ==
        IF n = 0 THEN [tbl |-> t, b |-> b, going |-> Overfull(t, b)]
        ELSE LET s == split[n - 1]
                 u == Split(s.tbl, s.b)
                 next == IF u.res # 0 /\ Overfull(u, u.res) THEN u.res ELSE s.b
             IN IF s.going THEN [tbl |-> u, b |-> next, going |-> u.res # 0 /\ Overfull(u, next)] ELSE s
  IN split[MaxLevel].tbl

-----------------------------------------------------------------------------
(* Calls *)

\* wg_ginthash_init
GintInit ==
  /\ tbl = [level |-> 1, directory |-> [k \in Entries(1) |-> 0], bucket |-> <<>>, res |-> 1]
  /\ added = {} /\ calls = 0 /\ failed = FALSE

Place(t, key) == Low(Scrambled(key), t.level)

AddToNewBucket(t, key, val) ==
  [t EXCEPT !.bucket = Append(@, [level |-> t.level, items |-> <<<<key, val>>>>]),
            !.directory[Place(t, key)] = Len(t.bucket) + 1, !.res = 1]

\* An entry that finds the overflow slot taken is dropped.
AddToBucket(t, b, key, val) ==
  SplitAll(IF Overfull(t, b) THEN t
           ELSE [t EXCEPT !.bucket[b].items = Append(@, <<key, val>>), !.res = 1], b)

AddKey(key, val) ==
  /\ calls < MaxAdds /\ calls' = calls + 1
  /\ LET b == tbl.directory[Place(tbl, key)]
         t == IF b = 0 THEN AddToNewBucket(tbl, key, val) ELSE AddToBucket(tbl, b, key, val)
     IN /\ tbl' = t
        /\ failed' = (failed \/ t.res = 0)
        /\ added' = IF t.res = 0 THEN added ELSE added \cup {<<key, val>>}

GintNext == \E key \in Keys, val \in Vals : AddKey(key, val)

GintSpec == GintInit /\ [][GintNext]_gintVars

-----------------------------------------------------------------------------
(* Properties *)

\* wg_ginthash_getkey: the value of the first entry with the key, if any.
Found(key) ==
  LET b == tbl.directory[Place(tbl, key)]
      items == IF b = 0 THEN <<>> ELSE tbl.bucket[b].items
      same == {n \in DOMAIN items : items[n][1] = key}
  IN IF same = {} THEN {} ELSE {items[Min(same)]}

\* However the table has grown, a key that was added is found with a value it
\* was added with, no other key is found, and addkey fails only when more
\* entries than a bucket holds agree in every bit that the directory may use.
GintHashExact ==
  /\ ~failed => \A key \in Keys :
       LET given == {e \in added : e[1] = key} IN
       Found(key) \subseteq given /\ (given # {} => Found(key) # {})
  /\ failed => \E b \in DOMAIN tbl.bucket :
       /\ Overfull(tbl, b)
       /\ \A i, j \in DOMAIN tbl.bucket[b].items :
            Low(Scrambled(tbl.bucket[b].items[i][1]), MaxLevel - 1) = Low(Scrambled(tbl.bucket[b].items[j][1]), MaxLevel - 1)
=============================================================================
