------------------------------- MODULE Segment -------------------------------
(* The memory segment of a WhiteDB database, which all areas share.          *)
EXTENDS Integers

CONSTANTS Align,           \* SUBAREA_ALIGNMENT_BYTES: 1 gint natively, 2 on wasm32
          MinimalSubarea,  \* MINIMAL_SUBAREA_SIZE
          SubareaArray,    \* SUBAREA_ARRAY_SIZE
          SegmentSize,
          HeaderSize       \* what the segment header takes

MinObj == 4   \* MIN_VARLENOBJ_SIZE

RoundUp(n, k) == n + ((k - (n % k)) % k)

\* alloc_db_segmentchunk: 0 if the segment would be full.
NextFree(g, size) == RoundUp(g.segfree + size, Align)
SegmentHas(g, size) == NextFree(g, size) < SegmentSize

\* init_db_subarea: what of a subarea is used, from an aligned offset on.
AlignedSize(offset, size) ==
  LET left == size - (RoundUp(offset, Align) - offset) IN left - (left % MinObj)
=============================================================================
