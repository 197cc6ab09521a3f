------------------------------- MODULE Mpool -------------------------------
(***************************************************************************)
(* Memory pools of WhiteDB (dbmpool.c): allocation by moving a pointer in  *)
(* the last of a list of blocks from malloc, each larger than the one      *)
(* before; all is given back at once.  The results of a query live in one. *)
(* A location is a block of malloc and an offset in it.  Sizes are bytes.  *)
(* A definition named X_slip is X with a plausible slip, used by no        *)
(* specification; it serves to test the properties.                        *)
(***************************************************************************)
EXTENDS Integers, SequencesExt

CONSTANTS HeaderBytes,   \* sizeof(mpool_header)
          MinFirst,      \* MIN_FIRST_SUBAREA_SIZE
          ALIGNMENT,     \* ALIGNMENT_BYTES
          Requests,      \* the sizes that are asked for
          MaxBlocks      \* bound: the blocks a run takes from malloc

VARIABLES blocks,      \* the size of every block malloc gave out, by number
          owned,       \* the blocks that were not given back
          pool,        \* the pool's subarea table: the numbers of its blocks
          lastsize,    \* the size recorded for the last of them
          freeptr,     \* the offset of the next free byte in it
          given        \* what was allocated: records [block, at, bytes]

mpoolVars == <<blocks, owned, pool, lastsize, freeptr, given>>

Aligned(n) == n + ((ALIGNMENT - (n % ALIGNMENT)) % ALIGNMENT)

MpoolInit ==
  /\ blocks = <<>> /\ owned = {} /\ pool = <<>>
  /\ lastsize = 0 /\ freeptr = 0 /\ given = {}

\* Malloc succeeds; when it does not, the calls return NULL and nothing has
\* changed.
Malloc(bytes) ==
  /\ Len(blocks) < MaxBlocks
  /\ blocks' = Append(blocks, bytes)
  /\ owned' = owned \cup {Len(blocks) + 1}
  /\ pool' = Append(pool, Len(blocks) + 1)

\* wg_create_mpool: the header is in the first block.
wg_create_mpool(origbytes) ==
  LET puresize == IF origbytes < MinFirst + ALIGNMENT THEN MinFirst + ALIGNMENT
                  ELSE origbytes + ALIGNMENT
  IN /\ pool = <<>>
     /\ Malloc(HeaderBytes + puresize)
     /\ lastsize' = puresize
     /\ freeptr' = Aligned(HeaderBytes)
     /\ UNCHANGED given

\* extend_mpool: doubled at least once, until the request fits aligned.
Grown(bytes) == lastsize * 2^(CHOOSE k \in 1 .. 100 :
  /\ lastsize * 2^k >= bytes + ALIGNMENT
  /\ k = 1 \/ lastsize * 2^(k - 1) < bytes + ALIGNMENT)

\* The block is not aligned for the next one.
Take_slip(block, at, bytes) ==
  /\ given' = given \cup {[block |-> block, at |-> at, bytes |-> bytes]}
  /\ freeptr' = at + bytes
Take(block, at, bytes) ==
  /\ given' = given \cup {[block |-> block, at |-> at, bytes |-> bytes]}
  /\ freeptr' = Aligned(at + bytes)

BlockEnd == blocks[Last(pool)]
\* The end of the space is compared with where the space starts.
Fits_slip(bytes) == freeptr < BlockEnd
Fits(bytes) == freeptr + bytes <= BlockEnd

\* wg_alloc_mpool
wg_alloc_mpool(bytes) ==
  /\ pool # <<>>
  /\ \/ /\ Fits(bytes)
        /\ Take(Last(pool), freeptr, bytes)
        /\ UNCHANGED <<blocks, owned, pool, lastsize>>
     \/ /\ ~Fits(bytes)
        /\ Malloc(Grown(bytes))
        /\ lastsize' = Grown(bytes)
        /\ Take(Len(blocks) + 1, 0, bytes)

\* wg_free_mpool
wg_free_mpool ==
  /\ pool # <<>>
  /\ owned' = owned \ Range(pool)
  /\ pool' = <<>> /\ lastsize' = 0 /\ freeptr' = 0 /\ given' = {}
  /\ UNCHANGED blocks

MpoolNext ==
  \/ \E bytes \in Requests : wg_create_mpool(bytes) \/ wg_alloc_mpool(bytes)
  \/ wg_free_mpool

MpoolSpec == MpoolInit /\ [][MpoolNext]_mpoolVars

-----------------------------------------------------------------------------
(* Properties *)

Bytes(x) == x.at .. x.at + x.bytes - 1

\* "every val returned by wg_alloc_mpool is aligned to this", and what is
\* allocated lies in a block the pool still owns, behind the header, apart
\* from everything else in the pool; when the pool is freed nothing stays.
PoolSound ==
  /\ owned = Range(pool)
  /\ \A x \in given :
       /\ x.block \in owned /\ x.at % ALIGNMENT = 0
       /\ x.at + x.bytes <= blocks[x.block]
       /\ x.block = pool[1] => x.at >= HeaderBytes
  /\ \A x, y \in given : x # y /\ x.block = y.block => Bytes(x) \cap Bytes(y) = {}
=============================================================================
