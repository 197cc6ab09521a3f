------------------------------ MODULE SharedMem ------------------------------
(***************************************************************************)
(* Attaching, detaching and deleting databases in WhiteDB (dbmem.c).  The  *)
(* port to WebAssembly has no shared memory: a table KT of keys and blocks *)
(* from malloc stands for it.  A slot of the table is used once; a deleted *)
(* database leaves the key -1 in it.                                       *)
(* A definition named X_slip is X with a plausible slip, used by no        *)
(* specification; it serves to test the properties.                        *)
(***************************************************************************)
EXTENDS Integers, Sequences, FiniteSets

CONSTANTS Names,        \* the database names, as the numbers they stand for, not -1
          AskedSizes,   \* the sizes that are asked for; 0 is no size
          DefaultSize,  \* DEFAULT_MEMDBASE_SIZE
          MinInit,      \* the least size wg_init_db_memsegment succeeds with
          KeyTableSize, \* MAX_KEY_TABLE_SIZE
          MallocFails,  \* malloc may return NULL
          MaxHandles    \* bound: the handles that are open at a time

NULL == 0

VARIABLES kt,      \* KT[0 .. ktIdx - 1]: records [key, shm]
          segs,    \* the size of every block of memory, by the address 1, 2...
          freed,   \* the addresses that were given back
          handles, \* the open handles: records [name, seg]
          cut      \* history: the handles whose database was freed under them
memVars == <<kt, segs, freed, handles, cut>>

Live == DOMAIN segs \ freed

MemInit == kt = <<>> /\ segs = <<>> /\ freed = {} /\ handles = {} /\ cut = {}

\* link_shared_memory: the block of the first slot with the key; NULL if
\* there is none, or if malloc had failed for that slot.
SlotsOf(key) == {i \in DOMAIN kt : kt[i].key = key}
Link(key) ==
  IF SlotsOf(key) = {} THEN NULL
  ELSE kt[CHOOSE i \in SlotsOf(key) : \A j \in SlotsOf(key) : i <= j].shm

\* The slot of an attach that failed for want of memory hides what is created
\* under its name from then on, until the name is deleted.
Hidden(key) == \E i \in SlotsOf(key) : kt[i].shm = NULL

\* The handle is counted by the name it was opened with.
OpenHandle(key, seg) == handles' = handles \cup {[name |-> key, seg |-> seg]}

\* An existing database is used if it is as large as it has to be.
AttachExisting(key, minsize) ==
  /\ Link(key) # NULL
  /\ segs[Link(key)] >= minsize
  /\ OpenHandle(key, Link(key))
  /\ UNCHANGED <<kt, segs, freed, cut>>

\* create_shared_memory fills the next slot of a table whatever malloc returns.
Filled(table, key, shm) == Append(table, [key |-> key, shm |-> shm])

\* The database that was created is known under no name.
CreateDatabase_slip(table, key, bytes) ==
  /\ Len(table) < KeyTableSize /\ bytes >= MinInit
  /\ segs' = Append(segs, bytes) /\ kt' = table
  /\ OpenHandle(key, Len(segs) + 1)
  /\ UNCHANGED <<freed, cut>>

\* A block that malloc returned is initialised.
CreateDatabase(table, key, bytes) ==
  /\ Len(table) < KeyTableSize /\ bytes >= MinInit
  /\ segs' = Append(segs, bytes)
  /\ kt' = Filled(table, key, Len(segs) + 1)
  /\ OpenHandle(key, Len(segs) + 1)
  /\ UNCHANGED <<freed, cut>>

\* free_shared_memory gives back the block of every slot with the key.
FreeSlots(table, key) ==
  [i \in DOMAIN table |->
     IF table[i].key = key THEN [table[i] EXCEPT !.key = -1] ELSE table[i]]
Blocks(table, key) ==
  {table[i].shm : i \in {j \in DOMAIN table : table[j].key = key}} \ {NULL}
HandlesOf(key) == {hd \in handles : hd.name = key}

\* The block is too small for the areas of a database: it is freed, and with it
\* all that were hidden.
InitFails(table, key, bytes) ==
  LET new == Filled(table, key, Len(segs) + 1)
  IN /\ Len(table) < KeyTableSize /\ bytes < MinInit
     /\ segs' = Append(segs, bytes)
     /\ kt' = FreeSlots(new, key)
     /\ freed' = freed \cup Blocks(new, key)
     /\ cut' = IF Hidden(key) THEN cut \cup HandlesOf(key) ELSE cut
     /\ UNCHANGED handles

\* malloc returned NULL for the last attempt.
NoMemory(table, key) ==
  /\ Len(table) < KeyTableSize
  /\ kt' = Filled(table, key, NULL)
  /\ UNCHANGED <<segs, freed, handles, cut>>

\* wg_attach_memsegment, where wg_attach_database passes one size twice: a
\* block of the size asked for, or of the default size, or else of the least
\* size that will do.  After a slot with NULL the code tests an error code that
\* was not set, and may also return without trying: no step here.
Attach(key, minsize, size) ==
  LET bytes == IF size = 0 THEN DefaultSize ELSE size
      failed == Filled(kt, key, NULL)
      again == 0 < minsize /\ minsize < bytes
  IN /\ Cardinality(handles) < MaxHandles
     /\ \/ AttachExisting(key, minsize)
        \/ Link(key) = NULL /\ (CreateDatabase(kt, key, bytes) \/ InitFails(kt, key, bytes))
        \/ /\ Link(key) = NULL /\ MallocFails /\ again /\ Len(kt) < KeyTableSize
           /\ \/ CreateDatabase(failed, key, minsize)
              \/ InitFails(failed, key, minsize)
              \/ NoMemory(failed, key)
        \/ Link(key) = NULL /\ MallocFails /\ ~again /\ NoMemory(kt, key)

\* detach_shared_memory does nothing: only the handle is gone.
Detach(hd) ==
  /\ hd \in handles
  /\ handles' = handles \ {hd} /\ cut' = cut \ {hd}
  /\ UNCHANGED <<kt, segs, freed>>

\* The block is freed, its slot keeps the key.
Delete_slip(key) ==
  /\ SlotsOf(key) # {}
  /\ freed' = freed \cup Blocks(kt, key)
  /\ cut' = cut \cup HandlesOf(key)
  /\ UNCHANGED <<kt, segs, handles>>

\* The slot is cleared, the block is not freed.
Delete_slip_leak(key) ==
  /\ kt' = FreeSlots(kt, key)
  /\ cut' = cut \cup HandlesOf(key)
  /\ UNCHANGED <<segs, freed, handles>>

\* wg_delete_database, also of a database that is open
Delete(key) ==
  /\ kt' = FreeSlots(kt, key)
  /\ freed' = freed \cup Blocks(kt, key)
  /\ cut' = cut \cup HandlesOf(key)
  /\ UNCHANGED <<segs, handles>>

MemNext ==
  \/ \E key \in Names, minsize, size \in AskedSizes : minsize <= size /\ Attach(key, minsize, size)
  \/ \E hd \in handles : Detach(hd)
  \/ \E key \in Names : Delete(key)

MemSpec == MemInit /\ [][MemNext]_memVars

-----------------------------------------------------------------------------
\* "the returned pointer points to the existing database" (dbmem.c:106): all that
\* have a database open by one name have the same one open, even after the name
\* was deleted while others had it open; except while a failed malloc hides it.
OneDatabasePerName ==
  \A a, b \in handles \ cut : a.name = b.name => a.seg = b.seg \/ Hidden(a.name)

\* What is open stays usable, whatever is attached, deleted and refused: only
\* the deletion of its own name frees it, or a failed initialisation under that
\* name while it is hidden.
HandlesUsable == \A hd \in handles \ cut : hd.seg \in Live

\* Every block that is in use is in a slot under the name it can be deleted
\* by, and in one only, so that it is given back exactly once.
NothingLeaked ==
  \A s \in Live :
    Cardinality({i \in DOMAIN kt : kt[i].shm = s /\ kt[i].key \in Names}) = 1

\* What a name leads to, what is open and what is allocated agree, whatever
\* was attached, detached, deleted and refused before.
NamesExact == OneDatabasePerName /\ HandlesUsable /\ NothingLeaked

\* A name stands for the same block until it is deleted, also while nobody
\* has the database open: detaching keeps the data.
PersistsUntilDeleted ==
  [][ \A key \in Names :
        Link(key) # NULL /\ Link(key)' # Link(key)
          => Link(key)' = NULL /\ Link(key) \in freed' ]_memVars
=============================================================================
