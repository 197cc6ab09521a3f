------------------------------- MODULE StrHash -------------------------------
(***************************************************************************)
(* Long strings of WhiteDB (find_create_longstr and free_field_encoffset in*)
(* dbdata.c, the string hash of dbhash.c): equal strings are stored once,  *)
(* on the chain of their hash bucket, with a reference count.  A string may*)
(* have an extra string (a language, a prefix, a type), which is a string  *)
(* of its own if it is long.  Address 0 is the null offset.                *)
(* A definition named X_slip is X with a plausible slip, used by no        *)
(* specification; it serves to test the properties.                        *)
(***************************************************************************)
EXTENDS Walks, SequencesExt

CONSTANTS LongTexts,   \* texts that do not fit in a short string
          ShortTexts,  \* texts that do
          Hash(_),     \* the bucket of a content (wg_hash_typedstr)
          StrHashSize,
          Fields,      \* the fields of the records of the database
          MaxStrings   \* long strings the area has room for

VARIABLES str,       \* the long strings, by address
          bucket,    \* the heads of the chains
          strfield,  \* the long string in each field, or 0
          lost       \* addresses allocated to nothing

strVars == <<str, bucket, strfield, lost>>

\* What a string is: its text and extra text.  A short text without an extra
\* one is stored elsewhere, unshared.
NoText == "no text"
Contents == [text : LongTexts, extra : LongTexts \cup ShortTexts \cup {NoText}]
Plain(text) == [text |-> text, extra |-> NoText]
HasLongExtra(c) == c.extra \in LongTexts

ASSUME StringsAssumption ==
  /\ NoText \notin LongTexts
  /\ \A c \in Contents : Hash(c) \in 0 .. StrHashSize - 1
  /\ IsFiniteSet(Fields) /\ MaxStrings \in Nat

StrNow == [str |-> str, bucket |-> bucket, lost |-> lost, res |-> 0]
StrRoom(d) == (1 .. MaxStrings) \ (DOMAIN d.str \cup d.lost)

Chain(d, b) == Follow(d.bucket[b], [a \in DOMAIN d.str |-> d.str[a].next])

-----------------------------------------------------------------------------
(* find_create_longstr *)

\* wg_find_strhash_bucket: the first string on the chain with the content c.
FindBucket(d, c) ==
  LET chain == Chain(d, Hash(c))
      same == {n \in DOMAIN chain : d.str[chain[n]].content = c}
  IN IF same = {} THEN 0 ELSE chain[Min(same)]

\* The string at a goes to the front of its chain; head is the front as it
\* was when the chain was searched.
Prepend_slip(d, a, c, extra, head) ==
  [d EXCEPT !.str = [x \in {a} \cup DOMAIN @ |->
                       IF x = a THEN [content |-> c, extra |-> extra, count |-> 0, next |-> 0] ELSE @[x]],
            !.bucket[Hash(c)] = a, !.res = a]
Prepend(d, a, c, extra, head) ==
  [d EXCEPT !.str = [x \in {a} \cup DOMAIN @ |->
                       IF x = a THEN [content |-> c, extra |-> extra, count |-> 0, next |-> head] ELSE @[x]],
            !.bucket[Hash(c)] = a, !.res = a]

Retain(d, a) == IF a = 0 THEN d ELSE [d EXCEPT !.str[a].count = @ + 1]

NewAddress(d) == CHOOSE a \in StrRoom(d) : TRUE

\* A string without a long extra string: res is its address, 0 if it failed.
Create(d, c) ==
  IF FindBucket(d, c) # 0 THEN [d EXCEPT !.res = FindBucket(d, c)]
  ELSE IF StrRoom(d) = {} THEN [d EXCEPT !.res = 0]
  ELSE Prepend(d, NewAddress(d), c, 0, d.bucket[Hash(c)])

\* The extra string is encoded while the string has its space but is not yet
\* on its chain.  If that fails, the space stays allocated.
FindCreate(d, c) ==
  IF FindBucket(d, c) # 0 \/ StrRoom(d) = {} \/ ~HasLongExtra(c) THEN Create(d, c)
  ELSE LET a == NewAddress(d)
           head == d.bucket[Hash(c)]
           e == Create([d EXCEPT !.lost = @ \cup {a}], Plain(c.extra))
       IN IF e.res = 0 THEN e
          ELSE Prepend([Retain(e, e.res) EXCEPT !.lost = @ \ {a}], a, c, e.res, head)

-----------------------------------------------------------------------------
(* free_field_encoffset *)

\* wg_remove_from_strhash; a string that is not on its chain goes unnoticed.
RemoveFromHash(d, a) ==
  LET b == Hash(d.str[a].content)
      before == {x \in Range(Chain(d, b)) : d.str[x].next = a}
  IN IF d.bucket[b] = a THEN [d EXCEPT !.bucket[b] = d.str[a].next]
     ELSE [d EXCEPT !.str = [x \in DOMAIN @ |->
             IF x \in before THEN [@[x] EXCEPT !.next = d.str[a].next] ELSE @[x]]]

FreeString(d, a) ==
  LET e == RemoveFromHash(d, a) IN [e EXCEPT !.str = Restrict(@, DOMAIN @ \ {a})]

\* An extra string has no extra string, so that releasing goes one level down.
Release_slip(d, a) ==
  CASE a = 0 -> d
    [] a # 0 /\ d.str[a].count > 1 -> [d EXCEPT !.str[a].count = @ - 1]
    [] OTHER -> FreeString(d, a)
ReleasePlain(d, a) ==
  CASE a = 0 -> d
    [] a # 0 /\ d.str[a].count > 1 -> [d EXCEPT !.str[a].count = @ - 1]
    [] OTHER -> FreeString(d, a)
Release(d, a) ==
  IF a = 0 \/ d.str[a].count > 1 THEN ReleasePlain(d, a)
  ELSE ReleasePlain(FreeString(d, a), d.str[a].extra)

-----------------------------------------------------------------------------
(* Calls *)

StrResult(d) == str' = d.str /\ bucket' = d.bucket /\ lost' = d.lost

StrInit ==
  /\ str = <<>> /\ bucket = [b \in 0 .. StrHashSize - 1 |-> 0]
  /\ strfield = [f \in Fields |-> 0] /\ lost = {}

\* wg_encode_str, wg_encode_xmlliteral, wg_encode_uri
Encode(c) == StrResult(FindCreate(StrNow, c)) /\ UNCHANGED strfield

\* wg_set_field, with a string that was encoded and is still there
SetField(f, a) ==
  /\ a \in DOMAIN str \cup {0} /\ strfield[f] # a
  /\ StrResult(Release(Retain(StrNow, a), strfield[f]))
  /\ strfield' = [strfield EXCEPT ![f] = a]

\* wg_free_encoded, which counts the caller first
FreeEncoded(a) ==
  /\ a \in DOMAIN str
  /\ StrResult(Release(Retain(StrNow, a), a))
  /\ UNCHANGED strfield

StrNext ==
  \/ \E c \in Contents : Encode(c)
  \/ \E f \in Fields, a \in 0 .. MaxStrings : SetField(f, a)
  \/ \E a \in 1 .. MaxStrings : FreeEncoded(a)

StrSpec == StrInit /\ [][StrNext]_strVars

-----------------------------------------------------------------------------
(* Properties *)

\* "find hash, check if exists and use if found": every string is on the chain
\* of its bucket, once, the chains lead to nothing else, and no two strings
\* are equal, whichever strings around them came and went.
Interned ==
  /\ \A b \in DOMAIN bucket :
       LET chain == Chain(StrNow, b) IN
       /\ IsInjective(chain)
       /\ Range(chain) = {a \in DOMAIN str : Hash(str[a].content) = b}
  /\ \A a1, a2 \in DOMAIN str : str[a1].content = str[a2].content => a1 = a2

\* A string counts the fields that hold it and the strings it is the extra
\* string of, and what they refer to is there and is what it was.
Counted ==
  /\ \A a \in DOMAIN str :
       str[a].count = Cardinality({f \in Fields : strfield[f] = a})
                        + Cardinality({x \in DOMAIN str : str[x].extra = a})
  /\ \A f \in Fields : strfield[f] \in DOMAIN str \cup {0}
  /\ \A a \in DOMAIN str : HasLongExtra(str[a].content) =>
       str[a].extra \in DOMAIN str /\ str[str[a].extra].content = Plain(str[a].content.extra)

\* A string is stored once and for as long as it is used, and found as long
\* as it is stored.
StringsShared == Interned /\ Counted
=============================================================================
