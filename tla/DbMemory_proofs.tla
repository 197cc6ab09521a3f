--------------------------- MODULE DbMemory_proofs ---------------------------
(***************************************************************************)
(* Proofs about the memory of a WhiteDB database outside of its areas: that*)
(* what a memory pool gives out is sound (dbmpool.c), for any alignment,   *)
(* sizes and number of blocks; about the key table that stands for shared  *)
(* memory (dbmem.c), for any names, sizes, length of the table and number  *)
(* of handles; and that an import restores a committed state (dbdump.c),   *)
(* for any number of writers and readers, size of the database and number  *)
(* of transactions, with a failing disk and a dumping process that dies.   *)
(***************************************************************************)
EXTENDS Mpool, SharedMem, DbDump, FiniteSetTheorems, WellFoundedInduction, TLAPS

-----------------------------------------------------------------------------
(* Memory pools *)

\* The sizes are numbers of bytes, and one hundred doublings of any size
\* reach every request, which is an int.
DoublingReaches ==
  /\ \A k \in 1 .. 100 : 2^k \in Nat
  /\ \A s \in Nat \ {0}, bytes \in Requests :
       \E k \in 1 .. 100 : /\ s * 2^k >= bytes + ALIGNMENT
                           /\ k = 1 \/ s * 2^(k - 1) < bytes + ALIGNMENT
Sound ==
  /\ HeaderBytes \in Nat /\ MinFirst \in Nat /\ ALIGNMENT \in Nat \ {0}
  /\ Requests \subseteq Nat /\ DoublingReaches

PoolInv ==
  /\ blocks \in Seq(Nat) /\ pool \in Seq(DOMAIN blocks)
  /\ lastsize \in Nat /\ freeptr \in Nat
  /\ given \subseteq [block : Nat, at : Nat, bytes : Nat]
  /\ pool = <<>> => given = {}
  /\ pool # <<>> => lastsize > 0
  /\ freeptr % ALIGNMENT = 0
  /\ pool # <<>> /\ Last(pool) = pool[1] => freeptr >= HeaderBytes
  /\ \A x \in given : x.block = Last(pool) => x.at + x.bytes <= freeptr
  /\ PoolSound

-----------------------------------------------------------------------------
LEMMA Rounded ==
  ASSUME ALIGNMENT \in Nat \ {0}, NEW n \in Nat
  PROVE  Aligned(n) \in Nat /\ Aligned(n) >= n /\ Aligned(n) % ALIGNMENT = 0
BY DEF Aligned

LEMMA LastOf ==
  ASSUME NEW S, NEW s \in Seq(S), s # <<>>
  PROVE  /\ Last(s) \in S /\ s[1] \in S /\ Last(s) \in Range(s)
         /\ \A x : Append(s, x)[1] = s[1] /\ Last(Append(s, x)) = x
<1>1. Len(s) \in Nat /\ Len(s) > 0 /\ DOMAIN s = 1 .. Len(s)
  OBVIOUS
<1>2. Last(s) = s[Len(s)] /\ s[Len(s)] \in S /\ s[1] \in S
  BY <1>1 DEF Last
<1>3. s[Len(s)] \in Range(s)
  BY <1>1 DEF Range
<1>4. ASSUME NEW x PROVE Append(s, x)[1] = s[1] /\ Last(Append(s, x)) = x
  BY <1>1 DEF Last
<1>5. QED
  BY <1>2, <1>3, <1>4

LEMMA DoubledFits ==
  ASSUME Sound, lastsize \in Nat \ {0}, NEW bytes \in Requests
  PROVE  Grown(bytes) \in Nat /\ Grown(bytes) >= bytes + ALIGNMENT
<1> DEFINE P(k) == lastsize * 2^k >= bytes + ALIGNMENT /\ (k = 1 \/ lastsize * 2^(k - 1) < bytes + ALIGNMENT)
           k == CHOOSE i \in 1 .. 100 : P(i)
<1>1. \E i \in 1 .. 100 : P(i)
  BY DEF Sound, DoublingReaches
<1>2. Grown(bytes) = lastsize * 2^k
  BY DEF Grown
<1> HIDE DEF P
<1>3. k \in 1 .. 100 /\ P(k)
  BY <1>1
<1> HIDE DEF k
<1>4. 2^k \in Nat
  BY <1>3 DEF Sound, DoublingReaches
<1>5. lastsize * 2^k \in Nat /\ lastsize * 2^k >= bytes + ALIGNMENT
  BY <1>3, <1>4 DEF P
<1>6. QED
  BY <1>2, <1>5

-----------------------------------------------------------------------------
LEMMA CreateStep ==
  ASSUME Sound, PoolInv, NEW bytes \in Requests, wg_create_mpool(bytes)
  PROVE  PoolInv'
<1> DEFINE puresize == IF bytes < MinFirst + ALIGNMENT THEN MinFirst + ALIGNMENT ELSE bytes + ALIGNMENT
<1>1. /\ pool = <<>> /\ blocks' = Append(blocks, HeaderBytes + puresize)
      /\ owned' = owned \cup {Len(blocks) + 1} /\ pool' = Append(pool, Len(blocks) + 1)
      /\ lastsize' = puresize /\ freeptr' = Aligned(HeaderBytes) /\ given' = given
  BY DEF wg_create_mpool, Malloc
<1>2. puresize \in Nat \ {0} /\ HeaderBytes \in Nat
  BY DEF Sound
<1> HIDE DEF puresize
<1>3. owned = {} /\ given = {}
  BY <1>1 DEF PoolInv, PoolSound, Range
<1>4. /\ freeptr' \in Nat /\ freeptr' >= HeaderBytes /\ freeptr' % ALIGNMENT = 0
  BY <1>1, Rounded DEF Sound
<1>5. /\ blocks' \in Seq(Nat) /\ DOMAIN blocks' = 1 .. (Len(blocks) + 1)
      /\ pool' = <<Len(blocks) + 1>> /\ owned' = {Len(blocks) + 1} /\ given' = {}
  BY <1>1, <1>2, <1>3 DEF PoolInv
<1>6. pool' \in Seq(DOMAIN blocks') /\ Range(pool') = {Len(blocks) + 1} /\ pool' # <<>>
  BY <1>5 DEF PoolInv, Range
<1>7. PoolSound'
  BY <1>5, <1>6 DEF PoolSound
<1>8. QED
  BY <1>1, <1>2, <1>4, <1>5, <1>6, <1>7 DEF PoolInv

LEMMA FreeStep ==
  ASSUME Sound, PoolInv, wg_free_mpool
  PROVE  PoolInv'
<1>1. owned' = {} /\ pool' = <<>> /\ given' = {} /\ lastsize' = 0 /\ freeptr' = 0 /\ blocks' = blocks
  BY DEF wg_free_mpool, PoolInv, PoolSound
<1>2. Range(pool') = {}
  BY <1>1 DEF Range
<1>3. 0 % ALIGNMENT = 0
  BY DEF Sound
<1>4. PoolSound'
  BY <1>1, <1>2 DEF PoolSound
<1>5. blocks' \in Seq(Nat) /\ pool' \in Seq(DOMAIN blocks')
  BY <1>1 DEF PoolInv
<1>6. QED
  BY <1>1, <1>3, <1>4, <1>5 DEF PoolInv

\* What is given out of the last block starts where everything given out of
\* it before has ended.
LEMMA FitsStep ==
  ASSUME Sound, PoolInv, NEW bytes \in Requests, pool # <<>>, Fits(bytes),
         Take(Last(pool), freeptr, bytes), UNCHANGED <<blocks, owned, pool, lastsize>>
  PROVE  PoolInv'
<1> DEFINE new == [block |-> Last(pool), at |-> freeptr, bytes |-> bytes]
<1>1. given' = given \cup {new} /\ freeptr' = Aligned(freeptr + bytes)
  BY DEF Take
<1>2. /\ bytes \in Nat /\ freeptr \in Nat /\ ALIGNMENT \in Nat \ {0}
  BY DEF Sound, PoolInv
<1>3. /\ freeptr' \in Nat /\ freeptr' >= freeptr + bytes /\ freeptr' % ALIGNMENT = 0
  <2>1. freeptr + bytes \in Nat
    BY <1>2
  <2> DEFINE end == freeptr + bytes
  <2>2. Aligned(end) \in Nat /\ Aligned(end) >= end /\ Aligned(end) % ALIGNMENT = 0
    BY <2>1, <1>2, Rounded
  <2>3. QED
    BY <2>2, <1>1
<1>4. Last(pool) \in DOMAIN blocks /\ Last(pool) \in Nat /\ Last(pool) \in Range(pool)
  <2>1. pool \in Seq(DOMAIN blocks) /\ blocks \in Seq(Nat)
    BY DEF PoolInv
  <2>2. DOMAIN blocks = 1 .. Len(blocks) /\ Len(blocks) \in Nat
    BY <2>1
  <2>3. Last(pool) \in DOMAIN blocks /\ Last(pool) \in Range(pool)
    BY <2>1, LastOf
  <2>4. QED
    BY <2>2, <2>3
<1>5. freeptr + bytes <= blocks[Last(pool)]
  BY DEF Fits, BlockEnd
<1>6. Last(pool) = pool[1] => freeptr >= HeaderBytes
  BY DEF PoolInv
<1>7. freeptr % ALIGNMENT = 0
  BY DEF PoolInv
<1>8. \A x \in given : x.block = Last(pool) => x.at + x.bytes <= freeptr
  BY DEF PoolInv
<1>9. given \subseteq [block : Nat, at : Nat, bytes : Nat] /\ new \in [block : Nat, at : Nat, bytes : Nat]
  BY <1>2, <1>4 DEF PoolInv
<1>10. new.block = Last(pool) /\ new.at = freeptr /\ new.bytes = bytes
  OBVIOUS
<1> HIDE DEF new
<1>11. \A x \in given : x.block = new.block => Bytes(x) \cap Bytes(new) = {}
  BY <1>2, <1>8, <1>9, <1>10 DEF Bytes
<1>12. \A x, y \in given' : x # y /\ x.block = y.block => Bytes(x) \cap Bytes(y) = {}
  BY <1>1, <1>11 DEF PoolInv, PoolSound
<1>13. \A x \in given' : /\ x.block \in owned /\ x.at % ALIGNMENT = 0
                         /\ x.at + x.bytes <= blocks[x.block]
                         /\ x.block = pool[1] => x.at >= HeaderBytes
  BY <1>1, <1>4, <1>5, <1>6, <1>7, <1>10 DEF PoolInv, PoolSound
<1>14. PoolSound'
  BY <1>12, <1>13 DEF PoolInv, PoolSound, Bytes
<1>15. \A x \in given' : x.block = Last(pool) => x.at + x.bytes <= freeptr'
  <2> SUFFICES ASSUME NEW x \in given', x.block = Last(pool) PROVE x.at + x.bytes <= freeptr'
    OBVIOUS
  <2>1. x \in given \/ x = new
    BY <1>1
  <2>2. CASE x \in given
    BY <2>2, <1>2, <1>3, <1>8, <1>9
  <2>3. CASE x = new
    BY <2>3, <1>3, <1>10
  <2>4. QED
    BY <2>1, <2>2, <2>3
<1>16. Last(pool) = pool[1] => freeptr' >= HeaderBytes
  BY <1>2, <1>3, <1>6 DEF Sound
<1>17. QED
  BY <1>1, <1>3, <1>9, <1>14, <1>15, <1>16 DEF PoolInv

\* A new block is no block of the pool, and holds no header.
LEMMA ExtendStep ==
  ASSUME Sound, PoolInv, NEW bytes \in Requests, pool # <<>>, Malloc(Grown(bytes)),
         lastsize' = Grown(bytes), Take(Len(blocks) + 1, 0, bytes)
  PROVE  PoolInv'
<1> DEFINE n == Len(blocks) + 1
           new == [block |-> n, at |-> 0, bytes |-> bytes]
<1>1. /\ given' = given \cup {new} /\ freeptr' = Aligned(bytes)
      /\ blocks' = Append(blocks, Grown(bytes)) /\ owned' = owned \cup {n} /\ pool' = Append(pool, n)
  BY DEF Take, Malloc, Sound
<1>2. bytes \in Nat /\ ALIGNMENT \in Nat \ {0} /\ HeaderBytes \in Nat /\ lastsize \in Nat \ {0}
  BY DEF Sound, PoolInv
<1>3. Grown(bytes) \in Nat /\ Grown(bytes) >= bytes + ALIGNMENT
  BY <1>2, DoubledFits
<1>4. freeptr' \in Nat /\ freeptr' >= bytes /\ freeptr' % ALIGNMENT = 0
  BY <1>1, <1>2, Rounded
<1>5. 0 % ALIGNMENT = 0
  BY <1>2
<1> HIDE DEF n
<1>6. /\ n \in Nat /\ n \notin DOMAIN blocks /\ blocks' \in Seq(Nat)
      /\ DOMAIN blocks' = DOMAIN blocks \cup {n} /\ blocks'[n] = Grown(bytes)
      /\ \A b \in DOMAIN blocks : blocks'[b] = blocks[b] /\ b \in Nat
  BY <1>1, <1>3 DEF PoolInv, n
<1>7. /\ pool' \in Seq(DOMAIN blocks') /\ pool' # <<>> /\ Last(pool') = n
      /\ pool'[1] = pool[1] /\ pool[1] \in DOMAIN blocks
  <2>1. pool \in Seq(DOMAIN blocks)
    BY DEF PoolInv
  <2>2. pool \in Seq(DOMAIN blocks') /\ n \in DOMAIN blocks'
    BY <2>1, <1>6
  <2>3. pool' \in Seq(DOMAIN blocks') /\ pool' # <<>>
    BY <2>2, <1>1
  <2>4. QED
    BY <2>1, <2>3, <1>1, LastOf
<1>8. Range(pool') = Range(pool) \cup {n}
  <2>1. pool \in Seq(DOMAIN blocks)
    BY DEF PoolInv
  <2>2. DOMAIN pool' = DOMAIN pool \cup {Len(pool) + 1} /\ pool'[Len(pool) + 1] = n
        /\ \A i \in DOMAIN pool : pool'[i] = pool[i]
    BY <1>1, <2>1
  <2>3. QED
    BY <2>2 DEF Range
<1>9. Range(pool) \subseteq DOMAIN blocks
  BY DEF PoolInv, Range
<1>10. /\ owned = Range(pool) /\ given \subseteq [block : Nat, at : Nat, bytes : Nat]
       /\ \A x \in given : /\ x.block \in owned /\ x.at % ALIGNMENT = 0
                           /\ x.at + x.bytes <= blocks[x.block]
                           /\ x.block = pool[1] => x.at >= HeaderBytes
       /\ \A x, y \in given : x # y /\ x.block = y.block => Bytes(x) \cap Bytes(y) = {}
  BY DEF PoolInv, PoolSound
<1>11. new.block = n /\ new.at = 0 /\ new.bytes = bytes /\ new \in [block : Nat, at : Nat, bytes : Nat]
  BY <1>2, <1>6
<1> HIDE DEF new
<1>12. \A x \in given : x.block # n
  BY <1>6, <1>9, <1>10
<1>13. \A x, y \in given' : x # y /\ x.block = y.block => Bytes(x) \cap Bytes(y) = {}
  BY <1>1, <1>10, <1>11, <1>12
<1>14. new.at + new.bytes <= blocks'[new.block]
  BY <1>2, <1>3, <1>6, <1>11
<1>15. \A x \in given' : /\ x.block \in owned' /\ x.at % ALIGNMENT = 0
                         /\ x.at + x.bytes <= blocks'[x.block]
                         /\ x.block = pool'[1] => x.at >= HeaderBytes
  <2> SUFFICES ASSUME NEW x \in given'
               PROVE  /\ x.block \in owned' /\ x.at % ALIGNMENT = 0
                      /\ x.at + x.bytes <= blocks'[x.block]
                      /\ x.block = pool'[1] => x.at >= HeaderBytes
    OBVIOUS
  <2>1. CASE x = new
    BY <2>1, <1>1, <1>5, <1>6, <1>7, <1>11, <1>14
  <2>2. CASE x \in given
    <3>1. blocks'[x.block] = blocks[x.block]
      BY <2>2, <1>6, <1>9, <1>10
    <3>2. QED
      BY <2>2, <3>1, <1>1, <1>7, <1>10
  <2>3. QED
    BY <1>1, <2>1, <2>2
<1>16. PoolSound'
  BY <1>1, <1>8, <1>10, <1>13, <1>15 DEF PoolSound, Bytes
<1>17. \A x \in given' : x.block = Last(pool') => x.at + x.bytes <= freeptr'
  BY <1>1, <1>2, <1>4, <1>7, <1>11, <1>12
<1>18. Last(pool') # pool'[1] /\ given' \subseteq [block : Nat, at : Nat, bytes : Nat]
  BY <1>1, <1>6, <1>7, <1>10, <1>11
<1>19. lastsize' \in Nat /\ lastsize' > 0
  BY <1>2, <1>3
<1>20. QED
  BY <1>4, <1>6, <1>7, <1>16, <1>17, <1>18, <1>19 DEF PoolInv

-----------------------------------------------------------------------------
\* The property PoolSound: every value of wg_alloc_mpool is aligned, lies in
\* a block the pool still owns, behind the header, apart from every other,
\* and wg_free_mpool leaves no block behind.
THEOREM PoolsSound ==
  ASSUME Sound
  PROVE  MpoolSpec => []PoolSound
<1>1. MpoolInit => PoolInv
  <2> SUFFICES ASSUME MpoolInit PROVE PoolInv
    OBVIOUS
  <2>1. Range(pool) = {} /\ 0 % ALIGNMENT = 0
    BY DEF MpoolInit, Range, Sound
  <2>2. PoolSound
    BY <2>1 DEF MpoolInit, PoolSound
  <2>3. QED
    BY <2>1, <2>2 DEF MpoolInit, PoolInv
<1>2. PoolInv /\ [MpoolNext]_mpoolVars => PoolInv'
  <2> SUFFICES ASSUME PoolInv, [MpoolNext]_mpoolVars PROVE PoolInv'
    OBVIOUS
  <2>1. CASE \E bytes \in Requests : wg_create_mpool(bytes)
    BY <2>1, CreateStep
  <2>2. ASSUME NEW bytes \in Requests, wg_alloc_mpool(bytes) PROVE PoolInv'
    <3>1. CASE Fits(bytes) /\ Take(Last(pool), freeptr, bytes) /\ UNCHANGED <<blocks, owned, pool, lastsize>>
      BY <2>2, <3>1, FitsStep DEF wg_alloc_mpool
    <3>2. CASE Malloc(Grown(bytes)) /\ lastsize' = Grown(bytes) /\ Take(Len(blocks) + 1, 0, bytes)
      BY <2>2, <3>2, ExtendStep DEF wg_alloc_mpool
    <3>3. QED
      BY <2>2, <3>1, <3>2 DEF wg_alloc_mpool
  <2>3. CASE wg_free_mpool
    BY <2>3, FreeStep
  <2>4. CASE UNCHANGED mpoolVars
    <3>1. PoolSound'
      BY <2>4 DEF PoolInv, PoolSound, Bytes, mpoolVars
    <3>2. QED
      BY <2>4, <3>1 DEF PoolInv, mpoolVars
  <2>5. QED
    BY <2>1, <2>2, <2>3, <2>4 DEF MpoolNext
<1>3. PoolInv => PoolSound
  BY DEF PoolInv
<1>4. QED
  BY <1>1, <1>2, <1>3, PTL DEF MpoolSpec

-----------------------------------------------------------------------------
(* The key table *)

Slot == [key : Names \cup {-1}, shm : Nat]

TypeOK ==
  /\ kt \in Seq(Slot) /\ segs \in Seq(Nat)
  /\ freed \subseteq DOMAIN segs
  /\ handles \subseteq [name : Names, seg : Nat]

\* A block has one slot of the table, whose key is cleared when it is freed.
SlotPerBlock(table, held, gone) ==
  /\ \A i \in DOMAIN table : table[i].shm # NULL =>
       /\ table[i].shm \in DOMAIN held
       /\ table[i].key = -1 <=> table[i].shm \in gone
  /\ \A i, j \in DOMAIN table : table[i].shm # NULL /\ table[i].shm = table[j].shm => i = j
  /\ \A s \in DOMAIN held : \E i \in DOMAIN table : table[i].shm = s

\* A handle is open on the block in a slot of its name, and a name that is not
\* hidden has one slot at most.
SlotPerHandle ==
  \A hd \in handles \ cut : hd.seg # NULL /\ \E i \in SlotsOf(hd.name) : kt[i].shm = hd.seg
SlotPerName == \A key \in Names : ~Hidden(key) => \A i, j \in SlotsOf(key) : i = j

TableInv == TypeOK /\ SlotPerBlock(kt, segs, freed) /\ SlotPerHandle /\ SlotPerName

-----------------------------------------------------------------------------
(* The first of some slots is one of them.                                 *)
First(slots) == CHOOSE i \in slots : \A j \in slots : i <= j

LEMMA FirstSlot ==
  ASSUME NEW slots, slots \subseteq Nat, slots # {}
  PROVE  First(slots) \in slots
<1>1. PICK i \in slots : \A j \in slots : <<j, i>> \notin {ss \in Nat \X Nat : ss[1] < ss[2]}
  <2>1. OpToRel(<, Nat) = {ss \in Nat \X Nat : ss[1] < ss[2]}
    BY DEF OpToRel
  <2>2. QED
    BY <2>1, NatLessThanWellFounded, WFMin
<1>2. ASSUME NEW j \in slots PROVE i <= j
  <2>1. i \in Nat /\ j \in Nat /\ ~ (j < i)
    BY <1>1
  <2>2. QED
    BY <2>1
<1>3. QED
  BY <1>2 DEF First

(* What a name leads to is in one of its slots; unless it is hidden, it    *)
(* leads nowhere only if it has none.                                      *)
LEMMA LinkOf ==
  ASSUME TypeOK, NEW key
  PROVE  /\ SlotsOf(key) # {} => \E i \in SlotsOf(key) : Link(key) = kt[i].shm
         /\ ~Hidden(key) /\ Link(key) = NULL => SlotsOf(key) = {}
<1>1. SlotsOf(key) \subseteq Nat
  BY DEF SlotsOf, TypeOK
<1>2. Link(key) = IF SlotsOf(key) = {} THEN NULL ELSE kt[First(SlotsOf(key))].shm
  BY DEF Link, First
<1>3. SlotsOf(key) # {} => First(SlotsOf(key)) \in SlotsOf(key)
  BY <1>1, FirstSlot
<1>4. QED
  BY <1>2, <1>3 DEF Hidden

(* Slots that are added or cleared for another key do not change where a   *)
(* name leads to.                                                          *)
LEMMA LinkKept ==
  ASSUME TypeOK, NEW key, SlotsOf(key)' = SlotsOf(key),
         \A i \in SlotsOf(key) : kt'[i].shm = kt[i].shm
  PROVE  Link(key)' = Link(key)
<1>1. SlotsOf(key) \subseteq Nat
  BY DEF SlotsOf, TypeOK
<1>2. SlotsOf(key) # {} => First(SlotsOf(key)) \in SlotsOf(key)
  BY <1>1, FirstSlot
<1>3. Link(key) = IF SlotsOf(key) = {} THEN NULL ELSE kt[First(SlotsOf(key))].shm
  BY DEF Link, First
<1>4. Link(key)' = IF SlotsOf(key)' = {} THEN NULL ELSE kt'[First(SlotsOf(key)')].shm
  BY DEF Link, First
<1>5. QED
  BY <1>2, <1>3, <1>4

-----------------------------------------------------------------------------
(* What the two kinds of change do to the table.                           *)
LEMMA Appended ==
  ASSUME NEW S, NEW s \in Seq(S), NEW x \in S
  PROVE  /\ Append(s, x) \in Seq(S) /\ DOMAIN Append(s, x) = DOMAIN s \cup {Len(s) + 1}
         /\ Len(s) + 1 \notin DOMAIN s /\ Append(s, x)[Len(s) + 1] = x
         /\ \A i \in DOMAIN s : Append(s, x)[i] = s[i]
OBVIOUS

LEMMA Cleared ==
  ASSUME NEW table \in Seq(Slot), NEW key
  PROVE  /\ FreeSlots(table, key) \in Seq(Slot)
         /\ DOMAIN FreeSlots(table, key) = DOMAIN table
         /\ \A i \in DOMAIN table :
              /\ FreeSlots(table, key)[i].shm = table[i].shm
              /\ table[i].key = key => FreeSlots(table, key)[i].key = -1
              /\ table[i].key # key => FreeSlots(table, key)[i] = table[i]
<1>1. \A i \in DOMAIN table : table[i] \in Slot
  OBVIOUS
<1>2. \A i \in DOMAIN table : FreeSlots(table, key)[i] =
        IF table[i].key = key THEN [table[i] EXCEPT !.key = -1] ELSE table[i]
  BY DEF FreeSlots
<1>3. \A i \in DOMAIN table : FreeSlots(table, key)[i] \in Slot
  BY <1>1, <1>2 DEF Slot
<1>4. FreeSlots(table, key) \in [1 .. Len(table) -> Slot]
  BY <1>3 DEF FreeSlots
<1>5. FreeSlots(table, key) \in Seq(Slot)
  BY <1>4
<1>6. QED
  BY <1>1, <1>2, <1>5 DEF FreeSlots, Slot

(* A deletion frees the blocks whose slots it clears.                      *)
LEMMA ClearedInv ==
  ASSUME NEW key \in Names, NEW table \in Seq(Slot), NEW held \in Seq(Nat),
         NEW gone \in SUBSET DOMAIN held, SlotPerBlock(table, held, gone)
  PROVE  /\ gone \cup Blocks(table, key) \subseteq DOMAIN held
         /\ SlotPerBlock(FreeSlots(table, key), held, gone \cup Blocks(table, key))
<1> DEFINE cleared == FreeSlots(table, key)
           freednow == gone \cup Blocks(table, key)
<1>1. /\ DOMAIN cleared = DOMAIN table
      /\ \A i \in DOMAIN table : /\ cleared[i].shm = table[i].shm
                                 /\ table[i].key = key => cleared[i].key = -1
                                 /\ table[i].key # key => cleared[i] = table[i]
  BY Cleared
<1>2. \A s : s \in Blocks(table, key) <=>
         s # NULL /\ \E i \in DOMAIN table : table[i].key = key /\ table[i].shm = s
  BY DEF Blocks
<1>a. /\ \A i \in DOMAIN table : table[i].shm # NULL =>
           table[i].shm \in DOMAIN held /\ (table[i].key = -1 <=> table[i].shm \in gone)
      /\ \A i, j \in DOMAIN table : table[i].shm # NULL /\ table[i].shm = table[j].shm => i = j
      /\ \A s \in DOMAIN held : \E i \in DOMAIN table : table[i].shm = s
  BY DEF SlotPerBlock
<1>3. freednow \subseteq DOMAIN held
  <2> SUFFICES ASSUME NEW s \in Blocks(table, key) PROVE s \in DOMAIN held
    OBVIOUS
  <2>1. PICK i \in DOMAIN table : table[i].shm = s /\ s # NULL
    BY <1>2
  <2>2. QED
    BY <1>a, <2>1
<1>4. ASSUME NEW i \in DOMAIN table, table[i].shm # NULL
      PROVE  cleared[i].key = -1 <=> table[i].shm \in freednow
  <2>1. CASE table[i].key = key
    BY <1>1, <1>2, <1>4, <2>1
  <2>2. CASE table[i].key # key
    <3>1. table[i].shm \notin Blocks(table, key)
      <4> SUFFICES ASSUME table[i].shm \in Blocks(table, key) PROVE FALSE
        OBVIOUS
      <4>1. PICK j \in DOMAIN table : table[j].key = key /\ table[j].shm = table[i].shm
        BY <1>2
      <4>2. i = j
        BY <1>4, <1>a, <4>1
      <4>3. QED
        BY <2>2, <4>1, <4>2
    <3>2. cleared[i].key = table[i].key
      BY <1>1, <2>2
    <3>3. QED
      BY <1>4, <1>a, <3>1, <3>2
  <2>3. QED
    BY <2>1, <2>2
<1> HIDE DEF cleared, freednow
<1>5. SlotPerBlock(cleared, held, freednow)
  BY <1>1, <1>a, <1>4 DEF SlotPerBlock
<1>6. QED
  BY <1>3, <1>5 DEF cleared, freednow

(* A new block gets a slot of its own.                                     *)
LEMMA CreatedInv ==
  ASSUME NEW key \in Names, -1 \notin Names, NEW bytes \in Nat, NEW old \in Seq(Slot),
         TypeOK, SlotPerBlock(old, segs, freed)
  PROVE  /\ Filled(old, key, Len(segs) + 1) \in Seq(Slot)
         /\ Append(segs, bytes) \in Seq(Nat) /\ freed \subseteq DOMAIN Append(segs, bytes)
         /\ SlotPerBlock(Filled(old, key, Len(segs) + 1), Append(segs, bytes), freed)
<1> DEFINE slot == [key |-> key, shm |-> Len(segs) + 1]
           table == Append(old, slot)
           held == Append(segs, bytes)
<1>0. Filled(old, key, Len(segs) + 1) = table
  BY DEF Filled
<1>1. slot \in Slot /\ slot.key = key /\ slot.shm = Len(segs) + 1 /\ slot.shm # NULL
  BY DEF Slot, TypeOK, NULL
<1> HIDE DEF slot
<1>2. /\ table \in Seq(Slot) /\ DOMAIN table = DOMAIN old \cup {Len(old) + 1}
      /\ Len(old) + 1 \notin DOMAIN old /\ table[Len(old) + 1] = slot
      /\ \A i \in DOMAIN old : table[i] = old[i]
  BY <1>1, Appended
<1>3. /\ held \in Seq(Nat) /\ DOMAIN held = DOMAIN segs \cup {Len(segs) + 1}
      /\ Len(segs) + 1 \notin DOMAIN segs
  BY Appended DEF TypeOK
<1> HIDE DEF table, held
<1>4. slot.shm \notin freed /\ slot.key # -1
  BY <1>1, <1>3 DEF TypeOK
<1>b. /\ \A i \in DOMAIN old : old[i].shm # NULL =>
           old[i].shm \in DOMAIN segs /\ (old[i].key = -1 <=> old[i].shm \in freed)
      /\ \A i, j \in DOMAIN old : old[i].shm # NULL /\ old[i].shm = old[j].shm => i = j
      /\ \A s \in DOMAIN segs : \E i \in DOMAIN old : old[i].shm = s
  BY DEF SlotPerBlock
<1>5. SlotPerBlock(table, held, freed)
  <2>1. \A i \in DOMAIN table : table[i].shm # NULL =>
           table[i].shm \in DOMAIN held /\ (table[i].key = -1 <=> table[i].shm \in freed)
    BY <1>1, <1>2, <1>3, <1>4, <1>b
  <2>2. \A i \in DOMAIN old : old[i].shm # slot.shm
    BY <1>1, <1>3, <1>b
  <2>3. \A i, j \in DOMAIN table : table[i].shm # NULL /\ table[i].shm = table[j].shm => i = j
    BY <1>2, <1>b, <2>2
  <2>4. \A s \in DOMAIN held : \E i \in DOMAIN table : table[i].shm = s
    BY <1>1, <1>2, <1>3, <1>b
  <2>5. QED
    BY <2>1, <2>3, <2>4 DEF SlotPerBlock
<1>6. QED
  BY <1>0, <1>2, <1>3, <1>5 DEF TypeOK, held

-----------------------------------------------------------------------------
(* A table that extends the key table by slots for one key, all of them    *)
(* of failed attempts: none if the first attempt is made, or one.          *)
Tried(table, key) ==
  /\ table \in Seq(Slot) /\ DOMAIN kt \subseteq DOMAIN table
  /\ \A i \in DOMAIN kt : table[i] = kt[i]
  /\ \A i \in DOMAIN table \ DOMAIN kt : table[i].key = key /\ table[i].shm = NULL

(* The table with one slot more.                                           *)
Longer(table, key, shm, new) ==
  /\ new \in Seq(Slot) /\ DOMAIN new = DOMAIN table \cup {Len(table) + 1}
  /\ Len(table) + 1 \notin DOMAIN table
  /\ new[Len(table) + 1].key = key /\ new[Len(table) + 1].shm = shm
  /\ \A i \in DOMAIN table : new[i] = table[i]

LEMMA FilledIs ==
  ASSUME NEW table \in Seq(Slot), NEW key \in Names, NEW shm \in Nat
  PROVE  Longer(table, key, shm, Filled(table, key, shm))
<1> DEFINE slot == [key |-> key, shm |-> shm]
<1>1. slot \in Slot /\ slot.key = key /\ slot.shm = shm
  BY DEF Slot
<1>2. Filled(table, key, shm) = Append(table, slot)
  BY DEF Filled
<1> HIDE DEF slot
<1>3. QED
  BY <1>1, <1>2, Appended DEF Longer

LEMMA FailedTried ==
  ASSUME TypeOK, NEW key \in Names
  PROVE  Tried(kt, key) /\ Tried(Filled(kt, key, NULL), key)
<1>1. kt \in Seq(Slot) /\ NULL \in Nat
  BY DEF TypeOK, NULL
<1>2. Tried(kt, key)
  BY <1>1 DEF Tried
<1> DEFINE table == Filled(kt, key, NULL)
<1>a. Longer(kt, key, NULL, table)
  BY <1>1, FilledIs
<1> HIDE DEF table
<1>3. /\ table \in Seq(Slot) /\ DOMAIN table = DOMAIN kt \cup {Len(kt) + 1}
      /\ table[Len(kt) + 1].key = key /\ table[Len(kt) + 1].shm = NULL
      /\ \A i \in DOMAIN kt : table[i] = kt[i]
  BY <1>a DEF Longer
<1>4. Tried(table, key)
  BY <1>3 DEF Tried
<1>5. QED
  BY <1>2, <1>4 DEF table

LEMMA TriedBlocks ==
  ASSUME NEW table, NEW key \in Names, Tried(table, key), SlotPerBlock(kt, segs, freed)
  PROVE  SlotPerBlock(table, segs, freed)
<1>1. /\ DOMAIN kt \subseteq DOMAIN table
      /\ \A i \in DOMAIN kt : table[i] = kt[i]
      /\ \A i \in DOMAIN table \ DOMAIN kt : table[i].shm = NULL
  BY DEF Tried
<1>2. /\ \A i \in DOMAIN kt : kt[i].shm # NULL =>
           kt[i].shm \in DOMAIN segs /\ (kt[i].key = -1 <=> kt[i].shm \in freed)
      /\ \A i, j \in DOMAIN kt : kt[i].shm # NULL /\ kt[i].shm = kt[j].shm => i = j
      /\ \A s \in DOMAIN segs : \E i \in DOMAIN kt : kt[i].shm = s
  BY DEF SlotPerBlock
<1>3. \A i \in DOMAIN table : table[i].shm # NULL =>
        table[i].shm \in DOMAIN segs /\ (table[i].key = -1 <=> table[i].shm \in freed)
  BY <1>1, <1>2
<1>4. \A i, j \in DOMAIN table : table[i].shm # NULL /\ table[i].shm = table[j].shm => i = j
  BY <1>1, <1>2
<1>5. \A s \in DOMAIN segs : \E i \in DOMAIN table : table[i].shm = s
  BY <1>1, <1>2
<1>6. QED
  BY <1>3, <1>4, <1>5 DEF SlotPerBlock

(* Other names keep their slots when slots are added for a key or cleared. *)
OthersKept(key) ==
  \A k \in Names \ {key} :
    /\ SlotsOf(k)' = SlotsOf(k)
    /\ \A i \in SlotsOf(k) : i \in DOMAIN kt /\ i \in DOMAIN kt' /\ kt'[i].shm = kt[i].shm

LEMMA OthersNames ==
  ASSUME NEW key \in Names, NEW k \in Names, OthersKept(key), SlotPerName, k # key
  PROVE  ~Hidden(k)' => \A i, j \in SlotsOf(k)' : i = j
<1>1. SlotsOf(k)' = SlotsOf(k) /\ \A i \in SlotsOf(k) : kt'[i].shm = kt[i].shm
  BY DEF OthersKept
<1>2. Hidden(k)' <=> \E i \in SlotsOf(k)' : kt'[i].shm = NULL
  BY DEF Hidden
<1>3. Hidden(k)' <=> Hidden(k)
  BY <1>1, <1>2 DEF Hidden
<1>4. QED
  BY <1>1, <1>3 DEF SlotPerName

LEMMA OthersHandles ==
  ASSUME NEW key \in Names, NEW hd \in handles \ cut, OthersKept(key), TypeOK, SlotPerHandle, hd.name # key
  PROVE  hd.seg # NULL /\ \E i \in SlotsOf(hd.name)' : kt'[i].shm = hd.seg
<1>1. hd.name \in Names \ {key}
  BY DEF TypeOK
<1>2. SlotsOf(hd.name)' = SlotsOf(hd.name) /\ \A i \in SlotsOf(hd.name) : kt'[i].shm = kt[i].shm
  BY <1>1 DEF OthersKept
<1>3. QED
  BY <1>2 DEF SlotPerHandle

LEMMA AddedKept ==
  ASSUME NEW key \in Names, NEW table, Tried(table, key), NEW shm \in Nat, kt' = Filled(table, key, shm)
  PROVE  /\ OthersKept(key)
         /\ SlotsOf(key) \subseteq SlotsOf(key)' /\ \A i \in SlotsOf(key) : kt'[i].shm = kt[i].shm
         /\ \E i \in SlotsOf(key)' : kt'[i].shm = shm
<1>1. /\ table \in Seq(Slot) /\ DOMAIN kt \subseteq DOMAIN table
      /\ \A i \in DOMAIN kt : table[i] = kt[i]
      /\ \A i \in DOMAIN table \ DOMAIN kt : table[i].key = key
  BY DEF Tried
<1>d. Longer(table, key, shm, kt')
  BY <1>1, FilledIs
<1>2. /\ DOMAIN kt' = DOMAIN table \cup {Len(table) + 1}
      /\ Len(table) + 1 \notin DOMAIN table
      /\ kt'[Len(table) + 1].key = key /\ kt'[Len(table) + 1].shm = shm
      /\ \A i \in DOMAIN table : kt'[i] = table[i]
  BY <1>d DEF Longer
<1>3. \A k : SlotsOf(k) = {i \in DOMAIN kt : kt[i].key = k}
  BY DEF SlotsOf
<1>4. \A k : SlotsOf(k)' = {i \in DOMAIN kt' : kt'[i].key = k}
  BY DEF SlotsOf
<1>5. OthersKept(key)
  <2> SUFFICES ASSUME NEW k \in Names \ {key}
               PROVE  /\ SlotsOf(k)' = SlotsOf(k)
                      /\ \A i \in SlotsOf(k) : i \in DOMAIN kt /\ i \in DOMAIN kt' /\ kt'[i].shm = kt[i].shm
    BY DEF OthersKept
  <2>1. \A i \in DOMAIN kt : i \in DOMAIN kt' /\ kt'[i] = kt[i]
    BY <1>1, <1>2
  <2>2. \A i \in DOMAIN kt' : kt'[i].key = k => i \in DOMAIN kt
    BY <1>1, <1>2
  <2>3. QED
    BY <1>3, <1>4, <2>1, <2>2
<1>6. QED
  BY <1>1, <1>2, <1>3, <1>4, <1>5

LEMMA ClearedKept ==
  ASSUME NEW key \in Names, -1 \notin Names, NEW table \in Seq(Slot), DOMAIN kt \subseteq DOMAIN table,
         \A i \in DOMAIN kt : table[i] = kt[i],
         \A i \in DOMAIN table \ DOMAIN kt : table[i].key = key,
         kt' = FreeSlots(table, key)
  PROVE  OthersKept(key) /\ SlotsOf(key)' = {}
<1>1. /\ DOMAIN kt' = DOMAIN table
      /\ \A i \in DOMAIN table : /\ kt'[i].shm = table[i].shm
                                 /\ table[i].key = key => kt'[i].key = -1
                                 /\ table[i].key # key => kt'[i] = table[i]
  BY Cleared
<1>3. \A k : SlotsOf(k) = {i \in DOMAIN kt : kt[i].key = k}
  BY DEF SlotsOf
<1>4. \A k : SlotsOf(k)' = {i \in DOMAIN kt' : kt'[i].key = k}
  BY DEF SlotsOf
<1>5. OthersKept(key)
  <2> SUFFICES ASSUME NEW k \in Names \ {key}
               PROVE  /\ SlotsOf(k)' = SlotsOf(k)
                      /\ \A i \in SlotsOf(k) : i \in DOMAIN kt /\ i \in DOMAIN kt' /\ kt'[i].shm = kt[i].shm
    BY DEF OthersKept
  <2>1. \A i \in DOMAIN kt : kt[i].key = k => i \in DOMAIN kt' /\ kt'[i] = kt[i]
    BY <1>1
  <2>2. \A i \in DOMAIN kt' : kt'[i].key = k => i \in DOMAIN kt /\ kt[i].key = k
    BY <1>1
  <2>3. QED
    BY <1>3, <1>4, <2>1, <2>2
<1>6. SlotsOf(key)' = {}
  BY <1>1, <1>4
<1>7. QED
  BY <1>5, <1>6

-----------------------------------------------------------------------------
(* Every operation keeps the table exact.                                  *)

\* What the callers pass: a size is no negative number, -1 names no database.
Numbers == AskedSizes \subseteq Nat /\ DefaultSize \in Nat /\ -1 \notin Names

LEMMA CreateDatabaseStep ==
  ASSUME Numbers, TableInv, NEW key \in Names, NEW bytes \in Nat, NEW table, Tried(table, key),
         Link(key) = NULL, CreateDatabase(table, key, bytes)
  PROVE  TableInv'
<1>a. TypeOK /\ SlotPerBlock(kt, segs, freed) /\ SlotPerHandle /\ SlotPerName /\ -1 \notin Names
  BY DEF TableInv, Numbers
<1> DEFINE shm == Len(segs) + 1
           new == [name |-> key, seg |-> shm]
<1>1. /\ kt' = Filled(table, key, shm) /\ segs' = Append(segs, bytes) /\ freed' = freed
      /\ handles' = handles \cup {new} /\ cut' = cut
  BY DEF CreateDatabase, OpenHandle
<1>2. shm \in Nat /\ shm # NULL
  BY <1>a DEF TypeOK, NULL
<1>3. table \in Seq(Slot)
  BY DEF Tried
<1>4. /\ kt' \in Seq(Slot) /\ segs' \in Seq(Nat) /\ freed \subseteq DOMAIN segs'
      /\ SlotPerBlock(kt', segs', freed)
  BY <1>a, <1>1, <1>3, TriedBlocks, CreatedInv
<1>b. new \in [name : Names, seg : Nat] /\ new.name = key /\ new.seg = shm
  BY <1>2
<1> HIDE DEF shm, new
<1>5. TypeOK' /\ SlotPerBlock(kt, segs, freed)'
  BY <1>a, <1>b, <1>1, <1>4 DEF TypeOK
<1>6. /\ OthersKept(key)
      /\ SlotsOf(key) \subseteq SlotsOf(key)' /\ \A i \in SlotsOf(key) : kt'[i].shm = kt[i].shm
      /\ \E i \in SlotsOf(key)' : kt'[i].shm = shm
  BY <1>1, <1>2, AddedKept
<1>d. Longer(table, key, shm, kt')
  BY <1>1, <1>2, <1>3, FilledIs
<1>7. SlotPerHandle'
  <2> SUFFICES ASSUME NEW hd \in handles' \ cut'
               PROVE  hd.seg # NULL /\ \E i \in SlotsOf(hd.name)' : kt'[i].shm = hd.seg
    BY DEF SlotPerHandle
  <2>1. CASE hd = new
    BY <1>b, <1>2, <1>6, <2>1
  <2>2. CASE hd # new /\ hd.name = key
    BY <1>a, <1>1, <1>6, <2>2 DEF SlotPerHandle
  <2>3. CASE hd # new /\ hd.name # key
    BY <1>a, <1>1, <1>6, <2>3, OthersHandles
  <2>4. QED
    BY <2>1, <2>2, <2>3
<1>8. SlotPerName'
  <2> SUFFICES ASSUME NEW k \in Names, ~Hidden(k)' PROVE \A i, j \in SlotsOf(k)' : i = j
    BY DEF SlotPerName
  <2>1. CASE k # key
    BY <1>a, <1>6, <2>1, OthersNames
  <2>2. CASE k = key
    <3>1. /\ DOMAIN kt \subseteq DOMAIN table /\ \A i \in DOMAIN kt : table[i] = kt[i]
          /\ \A i \in DOMAIN table \ DOMAIN kt : table[i].key = key /\ table[i].shm = NULL
      BY DEF Tried
    <3>2. /\ DOMAIN kt' = DOMAIN table \cup {Len(table) + 1}
          /\ \A i \in DOMAIN table : kt'[i] = table[i]
      BY <1>d DEF Longer
    <3>3. \A i \in SlotsOf(key)' : kt'[i].shm # NULL
      BY <2>2 DEF Hidden
    <3>4. SlotsOf(key)' = {i \in DOMAIN kt' : kt'[i].key = key}
      BY DEF SlotsOf
    <3>5. DOMAIN table \ DOMAIN kt = {}
      BY <3>1, <3>2, <3>3, <3>4
    <3>6. ~Hidden(key)
      BY <1>6, <3>3 DEF Hidden
    <3>7. SlotsOf(key) = {}
      BY <1>a, <3>6, LinkOf
    <3>8. \A i \in DOMAIN table : kt'[i].key # key
      BY <3>1, <3>2, <3>5, <3>7 DEF SlotsOf
    <3>9. SlotsOf(key)' \subseteq {Len(table) + 1}
      BY <3>2, <3>4, <3>8
    <3>10. QED
      BY <2>2, <3>9
  <2>3. QED
    BY <2>1, <2>2
<1>9. QED
  BY <1>5, <1>7, <1>8 DEF TableInv

LEMMA InitFailsStep ==
  ASSUME Numbers, TableInv, NEW key \in Names, NEW bytes \in Nat, NEW table, Tried(table, key),
         Link(key) = NULL, InitFails(table, key, bytes)
  PROVE  TableInv'
<1>a. TypeOK /\ SlotPerBlock(kt, segs, freed) /\ SlotPerHandle /\ SlotPerName /\ -1 \notin Names
  BY DEF TableInv, Numbers
<1> DEFINE shm == Len(segs) + 1
           new == Filled(table, key, shm)
           held == Append(segs, bytes)
<1>1. /\ kt' = FreeSlots(new, key) /\ segs' = held /\ freed' = freed \cup Blocks(new, key)
      /\ handles' = handles /\ cut' = (IF Hidden(key) THEN cut \cup HandlesOf(key) ELSE cut)
  BY DEF InitFails
<1>2. shm \in Nat
  BY <1>a DEF TypeOK
<1>3. /\ table \in Seq(Slot) /\ DOMAIN kt \subseteq DOMAIN table /\ \A i \in DOMAIN kt : table[i] = kt[i]
      /\ \A i \in DOMAIN table \ DOMAIN kt : table[i].key = key
  BY DEF Tried
<1>4. /\ new \in Seq(Slot) /\ held \in Seq(Nat) /\ freed \subseteq DOMAIN held
      /\ SlotPerBlock(new, held, freed)
  BY <1>a, <1>3, TriedBlocks, CreatedInv
<1>d. Longer(table, key, shm, new)
  BY <1>2, <1>3, FilledIs
<1>5. /\ DOMAIN new = DOMAIN table \cup {Len(table) + 1} /\ new[Len(table) + 1].key = key
      /\ \A i \in DOMAIN table : new[i] = table[i]
  BY <1>d DEF Longer
<1> HIDE DEF new, held, shm
<1>6. TypeOK' /\ SlotPerBlock(kt, segs, freed)'
  <2>1. /\ freed \cup Blocks(new, key) \subseteq DOMAIN held
        /\ SlotPerBlock(FreeSlots(new, key), held, freed \cup Blocks(new, key))
    BY <1>4, ClearedInv
  <2>2. FreeSlots(new, key) \in Seq(Slot)
    BY <1>4, Cleared
  <2>3. QED
    BY <1>a, <1>1, <1>4, <2>1, <2>2 DEF TypeOK
<1>7. OthersKept(key) /\ SlotsOf(key)' = {}
  <2>1. /\ DOMAIN kt \subseteq DOMAIN new /\ \A i \in DOMAIN kt : new[i] = kt[i]
        /\ \A i \in DOMAIN new \ DOMAIN kt : new[i].key = key
    BY <1>3, <1>5
  <2>2. QED
    BY <1>a, <1>1, <1>4, <2>1, ClearedKept
<1>8. SlotPerHandle'
  <2> SUFFICES ASSUME NEW hd \in handles' \ cut'
               PROVE  hd.seg # NULL /\ \E i \in SlotsOf(hd.name)' : kt'[i].shm = hd.seg
    BY DEF SlotPerHandle
  <2>1. hd \in handles \ cut
    BY <1>1
  <2>2. CASE hd.name # key
    BY <1>a, <1>7, <2>1, <2>2, OthersHandles
  <2>3. CASE hd.name = key
    <3>1. ~Hidden(key)
      BY <1>1, <2>1, <2>3 DEF HandlesOf
    <3>2. SlotsOf(key) = {}
      BY <1>a, <3>1, LinkOf
    <3>3. QED
      BY <1>a, <2>1, <2>3, <3>2 DEF SlotPerHandle
  <2>4. QED
    BY <2>2, <2>3
<1>9. SlotPerName'
  <2> SUFFICES ASSUME NEW k \in Names, ~Hidden(k)' PROVE \A i, j \in SlotsOf(k)' : i = j
    BY DEF SlotPerName
  <2>1. QED
    BY <1>a, <1>7, OthersNames
<1>10. QED
  BY <1>6, <1>8, <1>9 DEF TableInv

LEMMA NoMemoryStep ==
  ASSUME Numbers, TableInv, NEW key \in Names, NEW table, Tried(table, key), NoMemory(table, key)
  PROVE  TableInv'
<1>a. TypeOK /\ SlotPerBlock(kt, segs, freed) /\ SlotPerHandle /\ SlotPerName /\ NULL \in Nat
  BY DEF TableInv, NULL
<1>1. kt' = Filled(table, key, NULL) /\ UNCHANGED <<segs, freed, handles, cut>>
  BY DEF NoMemory
<1>2. /\ table \in Seq(Slot) /\ DOMAIN kt \subseteq DOMAIN table
      /\ \A i \in DOMAIN kt : table[i] = kt[i]
      /\ \A i \in DOMAIN table \ DOMAIN kt : table[i].key = key /\ table[i].shm = NULL
  BY DEF Tried
<1>d. Longer(table, key, NULL, kt')
  BY <1>a, <1>1, <1>2, FilledIs
<1>3. /\ kt' \in Seq(Slot) /\ DOMAIN kt' = DOMAIN table \cup {Len(table) + 1}
      /\ kt'[Len(table) + 1].key = key /\ kt'[Len(table) + 1].shm = NULL
      /\ \A i \in DOMAIN table : kt'[i] = table[i]
  BY <1>d DEF Longer
<1>4. TypeOK' /\ SlotPerBlock(kt, segs, freed)'
  <2>1. /\ DOMAIN kt \subseteq DOMAIN kt' /\ \A i \in DOMAIN kt : kt'[i] = kt[i]
        /\ \A i \in DOMAIN kt' \ DOMAIN kt : kt'[i].key = key /\ kt'[i].shm = NULL
    BY <1>2, <1>3
  <2>2. Tried(kt', key)
    BY <1>3, <2>1 DEF Tried
  <2>3. SlotPerBlock(kt', segs, freed)
    BY <1>a, <2>2, TriedBlocks
  <2>4. QED
    BY <1>a, <1>1, <1>3, <2>3 DEF TypeOK
<1>5. /\ OthersKept(key)
      /\ SlotsOf(key) \subseteq SlotsOf(key)' /\ \A i \in SlotsOf(key) : kt'[i].shm = kt[i].shm
      /\ \E i \in SlotsOf(key)' : kt'[i].shm = NULL
  BY <1>a, <1>1, AddedKept
<1>6. SlotPerHandle'
  <2> SUFFICES ASSUME NEW hd \in handles \ cut
               PROVE  hd.seg # NULL /\ \E i \in SlotsOf(hd.name)' : kt'[i].shm = hd.seg
    BY <1>1 DEF SlotPerHandle
  <2>1. CASE hd.name = key
    BY <1>a, <1>5, <2>1 DEF SlotPerHandle
  <2>2. CASE hd.name # key
    BY <1>a, <1>5, <2>2, OthersHandles
  <2>3. QED
    BY <2>1, <2>2
<1>7. SlotPerName'
  <2> SUFFICES ASSUME NEW k \in Names, ~Hidden(k)' PROVE \A i, j \in SlotsOf(k)' : i = j
    BY DEF SlotPerName
  <2>1. k # key
    BY <1>5 DEF Hidden
  <2>2. QED
    BY <1>a, <1>5, <2>1, OthersNames
<1>8. QED
  BY <1>4, <1>6, <1>7 DEF TableInv

LEMMA AttachStep ==
  ASSUME Numbers, TableInv, NEW key \in Names, NEW minsize \in AskedSizes, NEW size \in AskedSizes,
         Attach(key, minsize, size)
  PROVE  TableInv'
<1> DEFINE bytes == IF size = 0 THEN DefaultSize ELSE size
           failed == Filled(kt, key, NULL)
<1>a. TypeOK /\ SlotPerBlock(kt, segs, freed) /\ SlotPerHandle /\ SlotPerName
      /\ bytes \in Nat /\ minsize \in Nat
  BY DEF TableInv, Numbers
<1>b. Tried(kt, key) /\ Tried(failed, key)
  BY <1>a, FailedTried
<1>c. \/ AttachExisting(key, minsize)
      \/ Link(key) = NULL /\ \/ CreateDatabase(kt, key, bytes) \/ InitFails(kt, key, bytes)
                             \/ CreateDatabase(failed, key, minsize) \/ InitFails(failed, key, minsize)
                             \/ NoMemory(failed, key) \/ NoMemory(kt, key)
  BY DEF Attach
<1> HIDE DEF bytes, failed
<1>1. CASE AttachExisting(key, minsize)
  <2> DEFINE new == [name |-> key, seg |-> Link(key)]
  <2>1. /\ Link(key) # NULL /\ kt' = kt /\ segs' = segs /\ freed' = freed /\ cut' = cut
        /\ handles' = handles \cup {new}
    BY <1>1 DEF AttachExisting, OpenHandle
  <2>2. PICK i \in SlotsOf(key) : Link(key) = kt[i].shm
    BY <1>a, <2>1, LinkOf DEF Link
  <2>3. Link(key) \in Nat /\ new \in [name : Names, seg : Nat] /\ new.name = key /\ new.seg = Link(key)
    <3>1. kt[i] \in Slot
      BY <1>a, <2>2 DEF TypeOK, SlotsOf
    <3>2. QED
      BY <2>2, <3>1 DEF Slot
  <2> HIDE DEF new
  <2>4. TypeOK'
    BY <1>a, <2>1, <2>3 DEF TypeOK
  <2>5. SlotPerHandle'
    <3> SUFFICES ASSUME NEW hd \in (handles \cup {new}) \ cut
                 PROVE  hd.seg # NULL /\ \E j \in SlotsOf(hd.name) : kt[j].shm = hd.seg
      BY <2>1 DEF SlotPerHandle, SlotsOf
    <3>1. CASE hd = new
      BY <2>1, <2>2, <2>3, <3>1
    <3>2. CASE hd # new
      BY <1>a, <3>2 DEF SlotPerHandle
    <3>3. QED
      BY <3>1, <3>2
  <2>6. SlotPerName' /\ SlotPerBlock(kt, segs, freed)'
    BY <1>a, <2>1 DEF SlotPerName, Hidden, SlotsOf
  <2>7. QED
    BY <2>4, <2>5, <2>6 DEF TableInv
<1>2. QED
  BY <1>a, <1>b, <1>c, <1>1, CreateDatabaseStep, InitFailsStep, NoMemoryStep

LEMMA DeleteStep ==
  ASSUME Numbers, TableInv, NEW key \in Names, Delete(key)
  PROVE  TableInv'
<1>a. TypeOK /\ SlotPerBlock(kt, segs, freed) /\ SlotPerHandle /\ SlotPerName /\ -1 \notin Names
  BY DEF TableInv, Numbers
<1>1. /\ kt' = FreeSlots(kt, key) /\ freed' = freed \cup Blocks(kt, key)
      /\ segs' = segs /\ handles' = handles /\ cut' = cut \cup HandlesOf(key)
  BY DEF Delete
<1>2. kt \in Seq(Slot) /\ kt' \in Seq(Slot)
  BY <1>a, <1>1, Cleared DEF TypeOK
<1>3. TypeOK' /\ SlotPerBlock(kt, segs, freed)'
  <2>1. freed \cup Blocks(kt, key) \subseteq DOMAIN segs
        /\ SlotPerBlock(FreeSlots(kt, key), segs, freed \cup Blocks(kt, key))
    BY <1>a, ClearedInv DEF TypeOK
  <2>2. QED
    BY <1>a, <1>1, <1>2, <2>1 DEF TypeOK
<1>4. OthersKept(key) /\ SlotsOf(key)' = {}
  BY <1>a, <1>1, <1>2, ClearedKept
<1>5. SlotPerHandle'
  <2> SUFFICES ASSUME NEW hd \in handles' \ cut'
               PROVE  hd.seg # NULL /\ \E i \in SlotsOf(hd.name)' : kt'[i].shm = hd.seg
    BY DEF SlotPerHandle
  <2>1. hd \in handles \ cut /\ hd.name # key
    BY <1>1 DEF HandlesOf
  <2>2. QED
    BY <1>a, <1>4, <2>1, OthersHandles
<1>6. SlotPerName'
  <2> SUFFICES ASSUME NEW k \in Names, ~Hidden(k)' PROVE \A i, j \in SlotsOf(k)' : i = j
    BY DEF SlotPerName
  <2>1. QED
    BY <1>a, <1>4, OthersNames
<1>7. QED
  BY <1>3, <1>5, <1>6 DEF TableInv

LEMMA TableInvariant ==
  ASSUME Numbers PROVE MemSpec => []TableInv
<1>1. MemInit => TableInv
  BY DEF MemInit, TableInv, TypeOK, SlotPerBlock, SlotPerHandle, SlotPerName, SlotsOf
<1>2. TableInv /\ [MemNext]_memVars => TableInv'
  <2> SUFFICES ASSUME TableInv, [MemNext]_memVars PROVE TableInv'
    OBVIOUS
  <2>1. ASSUME NEW hd \in handles, Detach(hd) PROVE TableInv'
    BY <2>1 DEF Detach, TableInv, TypeOK, SlotPerHandle, SlotPerName, Hidden, SlotsOf
  <2>2. CASE UNCHANGED memVars
    BY <2>2 DEF memVars, TableInv, TypeOK, SlotPerHandle, SlotPerName, Hidden, SlotsOf
  <2>3. QED
    BY <2>1, <2>2, AttachStep, DeleteStep DEF MemNext
<1>3. QED
  BY <1>1, <1>2, PTL DEF MemSpec

-----------------------------------------------------------------------------
(* Attached by one name, the same database, unless a failed malloc hides   *)
(* the name; what is open was not freed, unless by the deletion of its own *)
(* name or by a failed initialisation under it while it was hidden; and    *)
(* every block in use is in one slot, under the name it can be deleted by. *)
THEOREM NamesKept ==
  ASSUME Numbers PROVE MemSpec => []NamesExact
<1>1. ASSUME TableInv PROVE NamesExact
  <2>a. TypeOK /\ SlotPerHandle /\ SlotPerName
    BY <1>1 DEF TableInv
  <2>b. /\ \A i \in DOMAIN kt : kt[i].shm # NULL =>
             kt[i].shm \in DOMAIN segs /\ (kt[i].key = -1 <=> kt[i].shm \in freed)
        /\ \A i, j \in DOMAIN kt : kt[i].shm # NULL /\ kt[i].shm = kt[j].shm => i = j
        /\ \A s \in DOMAIN segs : \E i \in DOMAIN kt : kt[i].shm = s
    BY <1>1 DEF TableInv, SlotPerBlock
  <2>1. \A hd \in handles : hd.name \in Names /\ hd.name # -1
    BY <2>a DEF TypeOK, Numbers
  <2>2. OneDatabasePerName
    <3> SUFFICES ASSUME NEW a \in handles \ cut, NEW b \in handles \ cut, a.name = b.name, ~Hidden(a.name)
                 PROVE  a.seg = b.seg
      BY DEF OneDatabasePerName
    <3>1. PICK i \in SlotsOf(a.name) : kt[i].shm = a.seg
      BY <2>a DEF SlotPerHandle
    <3>2. PICK j \in SlotsOf(b.name) : kt[j].shm = b.seg
      BY <2>a DEF SlotPerHandle
    <3>3. i = j
      BY <2>1, <2>a DEF SlotPerName
    <3>4. QED
      BY <3>1, <3>2, <3>3
  <2>3. HandlesUsable
    <3> SUFFICES ASSUME NEW hd \in handles \ cut PROVE hd.seg \in Live
      BY DEF HandlesUsable
    <3>1. PICK i \in SlotsOf(hd.name) : kt[i].shm = hd.seg
      BY <2>a DEF SlotPerHandle
    <3>2. i \in DOMAIN kt /\ kt[i].key # -1 /\ kt[i].shm # NULL /\ kt[i].shm = hd.seg
      BY <2>1, <2>a, <3>1 DEF SlotsOf, SlotPerHandle
    <3>3. QED
      BY <2>b, <3>2 DEF Live
  <2>4. NothingLeaked
    <3> SUFFICES ASSUME NEW s \in Live
                 PROVE  Cardinality({i \in DOMAIN kt : kt[i].shm = s /\ kt[i].key \in Names}) = 1
      BY DEF NothingLeaked
    <3>1. s \in DOMAIN segs /\ s \notin freed /\ s # NULL
      BY <2>a DEF Live, TypeOK, NULL
    <3>2. PICK i \in DOMAIN kt : kt[i].shm = s
      BY <2>b, <3>1
    <3>3. kt[i].key \in Names
      <4>1. kt[i] \in Slot
        BY <2>a DEF TypeOK
      <4>2. kt[i].key # -1
        BY <2>b, <3>1, <3>2
      <4>3. QED
        BY <4>1, <4>2 DEF Slot
    <3>4. {j \in DOMAIN kt : kt[j].shm = s /\ kt[j].key \in Names} = {i}
      <4>1. ASSUME NEW j \in DOMAIN kt, kt[j].shm = s PROVE j = i
        BY <2>b, <3>1, <3>2, <4>1
      <4>2. QED
        BY <3>2, <3>3, <4>1
    <3>5. QED
      BY <3>4, FS_Singleton
  <2>5. QED
    BY <2>2, <2>3, <2>4 DEF NamesExact
<1>2. QED
  BY TableInvariant, <1>1, PTL

(* Detaching keeps the data: a name leads to the same block until that     *)
(* block is freed by wg_delete_database.                                   *)
THEOREM NamePersists ==
  ASSUME Numbers PROVE MemSpec => PersistsUntilDeleted
<1> DEFINE Kept == \A key \in Names :
                     Link(key) # NULL /\ Link(key)' # Link(key)
                       => Link(key)' = NULL /\ Link(key) \in freed'
<1>1. ASSUME TableInv, [MemNext]_memVars PROVE [Kept]_memVars
  <2>a. TypeOK /\ -1 \notin Names
    BY <1>1 DEF TableInv, Numbers
  <2> SUFFICES ASSUME MemNext, NEW key \in Names, Link(key) # NULL, Link(key)' # Link(key)
               PROVE  Link(key)' = NULL /\ Link(key) \in freed'
    BY <1>1
  <2>1. SlotsOf(key)' = {i \in DOMAIN kt' : kt'[i].key = key}
        /\ SlotsOf(key) = {i \in DOMAIN kt : kt[i].key = key}
    BY DEF SlotsOf
  <2>2. ASSUME NEW other \in Names, NEW minsize \in AskedSizes, NEW size \in AskedSizes,
               Attach(other, minsize, size)
        PROVE  FALSE
    <3> DEFINE bytes == IF size = 0 THEN DefaultSize ELSE size
               failed == Filled(kt, other, NULL)
    <3>1. CASE AttachExisting(other, minsize)
      BY <2>a, <2>1, <3>1, LinkKept DEF AttachExisting
    <3>2. CASE ~AttachExisting(other, minsize)
      <4>1. PICK table \in {kt, failed} :
              /\ Link(other) = NULL
              /\ \/ \E shm \in Nat : kt' = Filled(table, other, shm)
                 \/ \E n \in Nat : kt' = FreeSlots(Filled(table, other, n), other)
        <5>1. Len(segs) + 1 \in Nat /\ NULL \in Nat
          BY <2>a DEF TypeOK, NULL
        <5>2. /\ Link(other) = NULL
              /\ \/ CreateDatabase(kt, other, bytes) \/ InitFails(kt, other, bytes)
                 \/ CreateDatabase(failed, other, minsize) \/ InitFails(failed, other, minsize)
                 \/ NoMemory(failed, other) \/ NoMemory(kt, other)
          BY <2>2, <3>2 DEF Attach
        <5> HIDE DEF failed, bytes
        <5>3. QED
          BY <5>1, <5>2 DEF CreateDatabase, InitFails, NoMemory
      <4>2. Tried(table, other) /\ table \in Seq(Slot) /\ other # key
        BY <2>a, <4>1, FailedTried DEF Tried
      <4>3. OthersKept(other)
        <5>1. CASE \E shm \in Nat : kt' = Filled(table, other, shm)
          BY <4>2, <5>1, AddedKept
        <5>2. ASSUME NEW n \in Nat, kt' = FreeSlots(Filled(table, other, n), other)
              PROVE  OthersKept(other)
          <6> DEFINE new == Filled(table, other, n)
          <6>d. Longer(table, other, n, new)
            BY <4>2, FilledIs
          <6>2. kt' = FreeSlots(new, other)
            BY <5>2
          <6> HIDE DEF new
          <6>1. /\ new \in Seq(Slot) /\ DOMAIN new = DOMAIN table \cup {Len(table) + 1}
                /\ new[Len(table) + 1].key = other /\ \A i \in DOMAIN table : new[i] = table[i]
            BY <6>d DEF Longer
          <6>3. /\ DOMAIN kt \subseteq DOMAIN new /\ \A i \in DOMAIN kt : new[i] = kt[i]
                /\ \A i \in DOMAIN new \ DOMAIN kt : new[i].key = other
            BY <4>2, <6>1 DEF Tried
          <6>4. QED
            BY <2>a, <6>1, <6>2, <6>3, ClearedKept
        <5>3. QED
          BY <4>1, <5>1, <5>2
      <4>4. SlotsOf(key)' = SlotsOf(key) /\ \A i \in SlotsOf(key) : kt'[i].shm = kt[i].shm
        BY <4>2, <4>3 DEF OthersKept
      <4>5. QED
        BY <2>a, <4>4, LinkKept
    <3>3. QED
      BY <3>1, <3>2
  <2>3. ASSUME NEW hd \in handles, Detach(hd) PROVE FALSE
    BY <2>a, <2>1, <2>3, LinkKept DEF Detach
  <2>4. PICK other \in Names : Delete(other)
    BY <2>2, <2>3 DEF MemNext
  <2>5. /\ DOMAIN kt' = DOMAIN kt
        /\ \A i \in DOMAIN kt : /\ kt'[i].shm = kt[i].shm
                                /\ kt[i].key = other => kt'[i].key = -1
                                /\ kt[i].key # other => kt'[i] = kt[i]
    BY <2>a, <2>4, Cleared DEF Delete, TypeOK
  <2>6. CASE other # key
    <3>1. SlotsOf(key)' = SlotsOf(key) /\ \A i \in SlotsOf(key) : kt'[i].shm = kt[i].shm
      BY <2>a, <2>1, <2>5, <2>6
    <3>2. QED
      BY <2>a, <3>1, LinkKept
  <2>7. CASE other = key
    <3>1. SlotsOf(key)' = {}
      BY <2>a, <2>1, <2>5, <2>7
    <3>2. Link(key)' = NULL
      BY <3>1 DEF Link
    <3>3. PICK i \in SlotsOf(key) : Link(key) = kt[i].shm
      BY <2>a, LinkOf DEF Link
    <3>4. Link(key) \in Blocks(kt, key)
      BY <2>1, <3>3 DEF Blocks
    <3>5. QED
      BY <2>4, <2>7, <3>2, <3>4 DEF Delete
  <2>8. QED
    BY <2>6, <2>7
<1>2. QED
  BY TableInvariant, <1>1, PTL DEF MemSpec, PersistsUntilDeleted

-----------------------------------------------------------------------------
(* Dumps and imports *)

\* A complete image is of a state between two transactions; an image is
\* never larger than its header says.
IsImage(f) == f = [locks |-> f.locks, free |-> f.free, data |-> f.data, sum |-> f.sum]
Restorable(f) ==
  /\ IsImage(f)
  /\ f.free \in Nat /\ f.data \in Seq(Nat) /\ Len(f.data) <= f.free
  /\ f.free > 0 /\ Len(f.data) >= f.free => f.data \in committed

Processes == Writers \cup Readers \cup {Dumper}

\* The lock: a writer is alone, the dumper reads while it holds it.
LockInv ==
  /\ holds \in [Processes -> {"none", "read", "write"}]
  /\ \A p, q \in Processes : holds[p] = "write" /\ p # q => holds[q] = "none"
  /\ holds[Dumper] # "write"
  /\ dpc \in {"sum", "write", "unlock"} => holds[Dumper] = "read"

\* The data is committed unless there is a writer.
DataInv ==
  /\ data \in Seq(Nat) /\ Len(data) > 0 /\ version \in Nat
  /\ (\A p \in Processes : holds[p] # "write") => data \in committed
  /\ dbsize \in Nat /\ dbsize <= Len(data)

DumpInv ==
  /\ LockInv /\ DataInv
  /\ Restorable(buf) /\ Restorable(file)
  /\ ImportRestores

-----------------------------------------------------------------------------
LEMMA Prefix ==
  ASSUME NEW s \in Seq(Nat), NEW n \in 0 .. Len(s)
  PROVE  /\ SubSeq(s, 1, n) \in Seq(Nat) /\ Len(SubSeq(s, 1, n)) = n
         /\ n = Len(s) => SubSeq(s, 1, n) = s
OBVIOUS

(* What the dumper copies while it holds the lock is committed if it is    *)
(* complete.                                                               *)
LEMMA ImageRestorable ==
  ASSUME LockInv, DataInv, holds[Dumper] = "read", NEW n \in 0 .. dbsize, NEW sum
  PROVE  Restorable(WithSum(Image(n), sum))
<1>1. n \in 0 .. Len(data)
  BY DEF DataInv
<1>2. \A p \in Processes : holds[p] # "write"
  BY DEF LockInv, Processes
<1>3. data \in committed /\ data \in Seq(Nat) /\ Len(data) \in Nat
  BY <1>2 DEF DataInv
<1> DEFINE f == WithSum(Image(n), sum)
<1>4. /\ IsImage(f)
      /\ f.free = Len(data) /\ f.data = SubSeq(data, 1, n)
  BY DEF WithSum, Image, IsImage
<1> HIDE DEF f
<1>5. f.data \in Seq(Nat) /\ Len(f.data) = n /\ (n = Len(data) => f.data = data)
  BY <1>1, <1>3, <1>4, Prefix
<1>6. f.free \in Nat /\ Len(f.data) <= f.free /\ (Len(f.data) >= f.free => f.data = data)
  BY <1>1, <1>3, <1>4, <1>5
<1>7. Restorable(f)
  BY <1>3, <1>4, <1>5, <1>6 DEF Restorable
<1>8. QED
  BY <1>7 DEF f

LEMMA EmptyRestorable == Restorable(Empty)
BY DEF Restorable, Empty, IsImage

(* So is what a crash or a failing disk lets through to the file.          *)
LEMMA ReachedRestorable ==
  ASSUME Restorable(buf), NEW f \in Reached
  PROVE  Restorable(f)
<1>1. CASE f = Empty
  BY <1>1, EmptyRestorable
<1>2. ASSUME NEW n \in 0 .. Len(buf.data), f = [buf EXCEPT !.data = SubSeq(@, 1, n), !.sum = NoSum]
      PROVE  Restorable(f)
  <2>1. /\ f = [locks |-> buf.locks, free |-> buf.free, data |-> SubSeq(buf.data, 1, n), sum |-> NoSum]
        /\ IsImage(f)
        /\ f.free = buf.free /\ f.data = SubSeq(buf.data, 1, n)
    BY <1>2 DEF Restorable, IsImage
  <2>2. /\ buf.free \in Nat /\ buf.data \in Seq(Nat) /\ Len(buf.data) <= buf.free
        /\ buf.free > 0 /\ Len(buf.data) >= buf.free => buf.data \in committed
    BY DEF Restorable
  <2>3. f.data \in Seq(Nat) /\ Len(f.data) = n /\ (n = Len(buf.data) => f.data = buf.data)
    BY <2>1, <2>2, Prefix
  <2>4. f.free \in Nat /\ Len(f.data) <= f.free /\ (Len(f.data) >= f.free => f.data = buf.data)
    BY <2>1, <2>2, <2>3
  <2>5. QED
    BY <2>1, <2>2, <2>3, <2>4 DEF Restorable
<1>3. QED
  BY <1>1, <1>2 DEF Reached

(* A file stays restorable as states are committed.                        *)
LEMMA CommittedGrow ==
  ASSUME NEW f, Restorable(f), committed \subseteq committed', f' = f
  PROVE  Restorable(f)'
BY DEF Restorable

-----------------------------------------------------------------------------
LEMMA StartOfDump == DumpInit => DumpInv
<1> SUFFICES ASSUME DumpInit PROVE DumpInv
  OBVIOUS
<1>1. LockInv
  BY DEF DumpInit, Lock!Init, Lock!Free, LockInv, Processes
<1>2. DataInv
  BY DEF DumpInit, DataInv
<1>3. Restorable(buf) /\ Restorable(file)
  BY EmptyRestorable DEF DumpInit
<1>4. ImportRestores
  BY DEF DumpInit, ImportRestores
<1>5. QED
  BY <1>1, <1>2, <1>3, <1>4 DEF DumpInv

LEMMA DumpStep ==
  ASSUME Dumper \notin Writers \cup Readers, DumpInv, DumpNext
  PROVE  DumpInv'
<1>a. LockInv /\ DataInv /\ Restorable(buf) /\ Restorable(file) /\ ImportRestores
  BY DEF DumpInv
<1>b. ASSUME UNCHANGED <<buf, file>>, committed \subseteq committed'
      PROVE  Restorable(buf)' /\ Restorable(file)'
  BY <1>a, <1>b, CommittedGrow
<1>c. ASSUME UNCHANGED <<data, version, committed, holds>>, dbsize' \in Nat, dbsize' <= Len(data)
      PROVE  DataInv'
  BY <1>a, <1>c DEF DataInv
<1>d. ASSUME UNCHANGED copy, committed \subseteq committed' PROVE ImportRestores'
  BY <1>a, <1>d DEF ImportRestores
<1>1. ASSUME NEW w \in Writers, Begin(w) PROVE DumpInv'
  <2>1. w \in Processes /\ w # Dumper /\ (\A q \in Processes : holds[q] = "none")
        /\ holds' = [holds EXCEPT ![w] = "write"] /\ version' = version + 1
        /\ UNCHANGED <<data, committed, dpc, dbsize, crc, buf, err, dumpresult, file, ipc, copy>>
    BY <1>1 DEF Begin, Lock!AcquireWrite, Lock!Free, Processes, dumpVars, importVars
  <2>2. LockInv'
    BY <1>a, <2>1 DEF LockInv, Processes
  <2>3. DataInv'
    BY <1>a, <2>1 DEF DataInv, LockInv
  <2>4. QED
    BY <1>b, <1>d, <2>1, <2>2, <2>3 DEF DumpInv
<1>2. ASSUME NEW w \in Writers, StoreData(w) \/ GrowDb(w) PROVE DumpInv'
  <2>1. w \in Processes /\ holds[w] = "write"
        /\ UNCHANGED <<holds, version, committed, dpc, dbsize, crc, buf, err, dumpresult, file, ipc, copy>>
    BY <1>2 DEF StoreData, GrowDb, Processes, dumpVars, importVars
  <2>2. data' \in Seq(Nat) /\ Len(data') >= Len(data)
    <3>1. CASE StoreData(w)
      BY <1>a, <3>1 DEF StoreData, DataInv
    <3>2. CASE GrowDb(w)
      BY <1>a, <3>2 DEF GrowDb, DataInv
    <3>3. QED
      BY <1>2, <3>1, <3>2
  <2>3. LockInv'
    BY <1>a, <2>1 DEF LockInv
  <2>4. DataInv'
    BY <1>a, <2>1, <2>2 DEF DataInv
  <2>5. QED
    BY <1>b, <1>d, <2>1, <2>3, <2>4 DEF DumpInv
<1>3. ASSUME NEW w \in Writers, Commit(w) PROVE DumpInv'
  <2>1. w \in Processes /\ w # Dumper /\ holds' = [holds EXCEPT ![w] = "none"]
        /\ committed' = committed \cup {data}
        /\ UNCHANGED <<data, version, dpc, dbsize, crc, buf, err, dumpresult, file, ipc, copy>>
    BY <1>3 DEF Commit, Lock!Release, Processes, dumpVars, importVars
  <2>2. LockInv'
    BY <1>a, <2>1 DEF LockInv, Processes
  <2>3. DataInv'
    BY <1>a, <2>1 DEF DataInv
  <2>4. QED
    BY <1>b, <1>d, <2>1, <2>2, <2>3 DEF DumpInv
<1>4. ASSUME NEW r \in Readers, ReadLock(r) PROVE DumpInv'
  <2>1. PICK m \in {"none", "read"} : /\ holds' = [holds EXCEPT ![r] = m]
                                      /\ m = "read" => \A q \in Processes : holds[q] # "write"
                                      /\ holds[r] # "write"
    BY <1>4 DEF ReadLock, Lock!AcquireRead, Lock!Release, Processes
  <2>2. r \in Processes /\ r # Dumper
        /\ UNCHANGED <<data, version, committed, dpc, dbsize, crc, buf, err, dumpresult, file, ipc, copy>>
    BY <1>4 DEF ReadLock, Processes, dbVars, dumpVars, importVars
  <2>3. LockInv'
    BY <1>a, <2>1, <2>2 DEF LockInv, Processes
  <2>4. DataInv'
    <3>1. (\A p \in Processes : holds'[p] # "write") => \A p \in Processes : holds[p] # "write"
      BY <1>a, <2>1, <2>2 DEF LockInv
    <3>2. QED
      BY <1>a, <2>2, <3>1 DEF DataInv
  <2>5. QED
    BY <1>b, <1>d, <2>2, <2>3, <2>4 DEF DumpInv
<1>5. CASE StartDump \/ LockTimesOut \/ ComputeSum
  <2>1. /\ UNCHANGED <<holds, data, version, committed, buf, file, copy>>
        /\ dbsize' \in {dbsize, Len(data)}
        /\ dpc' \in {"sum", "write", "unlock"} => dpc \in {"sum", "write", "unlock"}
    BY <1>5 DEF StartDump, LockTimesOut, ComputeSum, DumperAt, dbVars, importVars
  <2>2. LockInv'
    BY <1>a, <2>1 DEF LockInv
  <2>3. DataInv'
    BY <1>a, <1>c, <2>1 DEF DataInv
  <2>4. QED
    BY <1>b, <1>d, <2>1, <2>2, <2>3 DEF DumpInv
<1>6. CASE OpenFile \/ CloseFile \/ Die
  <2>1. /\ UNCHANGED <<holds, data, version, committed, dbsize, copy>>
        /\ file' \in Reached \cup {Empty, file, buf} /\ buf' \in {buf, Empty}
        /\ dpc' \notin {"sum", "write", "unlock"}
    BY <1>6 DEF OpenFile, CloseFile, Die, DumperAt, dbVars, importVars
  <2>2. Restorable(buf') /\ Restorable(file')
    BY <1>a, <2>1, EmptyRestorable, ReachedRestorable
  <2>3. Restorable(buf)' /\ Restorable(file)'
    BY <2>1, <2>2 DEF Restorable
  <2>4. LockInv'
    BY <1>a, <2>1 DEF LockInv
  <2>5. DataInv'
    BY <1>a, <1>c, <2>1 DEF DataInv
  <2>6. QED
    BY <1>d, <2>1, <2>3, <2>4, <2>5 DEF DumpInv
<1>7. CASE LockForDump
  <2>1. /\ \A q \in Processes : holds[q] # "write"
        /\ holds' = [holds EXCEPT ![Dumper] = "read"] /\ dpc' = "sum" /\ Dumper \in Processes
        /\ UNCHANGED <<data, version, committed, dbsize, buf, file, copy>>
    BY <1>7 DEF LockForDump, Lock!AcquireRead, Processes, DumperAt, dbVars, importVars
  <2>2. LockInv'
    BY <1>a, <2>1 DEF LockInv, Processes
  <2>3. DataInv'
    BY <1>a, <2>1 DEF DataInv
  <2>4. QED
    BY <1>b, <1>d, <2>1, <2>2, <2>3 DEF DumpInv
<1>8. CASE WriteImage
  <2>1. /\ dpc = "write" /\ dpc' = "unlock"
        /\ UNCHANGED <<holds, data, version, committed, dbsize, file, copy>>
        /\ \E n \in 0 .. dbsize, sum \in {crc, NoSum} : buf' = WithSum(Image(n), sum)
    BY <1>a, <1>8 DEF WriteImage, DumperAt, dbVars, importVars, DataInv
  <2>2. holds[Dumper] = "read"
    BY <1>a, <2>1 DEF LockInv
  <2>3. Restorable(buf')
    BY <1>a, <2>1, <2>2, ImageRestorable
  <2>4. Restorable(buf)' /\ Restorable(file)'
    BY <1>a, <2>1, <2>3 DEF Restorable
  <2>5. LockInv'
    BY <1>a, <2>1, <2>2 DEF LockInv
  <2>6. DataInv'
    BY <1>a, <1>c, <2>1 DEF DataInv
  <2>7. QED
    BY <1>d, <2>1, <2>4, <2>5, <2>6 DEF DumpInv
<1>9. CASE UnlockAfterDump
  <2>1. /\ holds' = [holds EXCEPT ![Dumper] = "none"] /\ dpc' = "close" /\ Dumper \in Processes
        /\ holds[Dumper] = "read"
        /\ UNCHANGED <<data, version, committed, dbsize, buf, file, copy>>
    BY <1>9, <1>a DEF UnlockAfterDump, Lock!Release, Processes, DumperAt, dbVars, importVars, LockInv
  <2>2. LockInv'
    BY <1>a, <2>1 DEF LockInv, Processes
  <2>3. DataInv'
    <3>1. (\A p \in Processes : holds'[p] # "write") => \A p \in Processes : holds[p] # "write"
      BY <1>a, <2>1 DEF LockInv
    <3>2. QED
      BY <1>a, <2>1, <3>1 DEF DataInv
  <2>4. QED
    BY <1>b, <1>d, <2>1, <2>2, <2>3 DEF DumpInv
<1>10. CASE CheckDump \/ ImportDump
  <2>1. UNCHANGED <<holds, data, version, committed, dpc, dbsize, buf, file>>
    BY <1>10 DEF CheckDump, ImportDump, dbVars, dumpVars
  <2>2. ImportRestores'
    <3>1. CASE CheckDump
      BY <1>d, <2>1, <3>1 DEF CheckDump
    <3>2. CASE ImportDump
      <4>1. CASE file.free = 0 \/ CopyChunks < file.free
        BY <1>d, <2>1, <3>2, <4>1 DEF ImportDump
      <4>2. CASE ~ (file.free = 0 \/ CopyChunks < file.free) /\ Len(file.data) < file.free
        <5>1. copy' = [copy EXCEPT !.sound = FALSE]
          BY <3>2, <4>2 DEF ImportDump
        <5>2. QED
          BY <5>1 DEF ImportRestores
      <4>3. CASE ~ (file.free = 0 \/ CopyChunks < file.free) /\ ~ (Len(file.data) < file.free)
        <5>1. copy' = [sound |-> TRUE, data |-> file.data, locks |-> Lock!Free]
          BY <3>2, <4>3 DEF ImportDump, InitLocks
        <5>2. file.data \in committed
          BY <1>a, <4>3 DEF Restorable
        <5>3. QED
          BY <2>1, <5>1, <5>2 DEF ImportRestores, Lock!Free
      <4>4. QED
        BY <4>1, <4>2, <4>3
    <3>3. QED
      BY <1>10, <3>1, <3>2
  <2>3. LockInv' /\ DataInv'
    BY <1>a, <1>c, <2>1 DEF LockInv, DataInv
  <2>4. QED
    BY <1>b, <2>1, <2>2, <2>3 DEF DumpInv
<1>11. QED
  BY <1>1, <1>2, <1>3, <1>4, <1>5, <1>6, <1>7, <1>8, <1>9, <1>10 DEF DumpNext, Dump

(* wg_import_dump restores what a transaction left, with nobody holding    *)
(* the lock, whatever the writers, the disk and the dumping process did.   *)
THEOREM ImportsAreCommitted ==
  ASSUME Dumper \notin Writers \cup Readers
  PROVE  DumpSpec => []ImportRestores
<1>1. DumpInv /\ [DumpNext]_dumpingVars => DumpInv'
  <2>1. ASSUME DumpInv, UNCHANGED dumpingVars PROVE DumpInv'
    BY <2>1 DEF dumpingVars, dbVars, dumpVars, importVars, DumpInv, LockInv, DataInv, Restorable,
               ImportRestores
  <2>2. QED
    BY <2>1, DumpStep
<1>2. DumpInv => ImportRestores
  BY DEF DumpInv
<1>3. QED
  BY StartOfDump, <1>1, <1>2, PTL DEF DumpSpec
=============================================================================
