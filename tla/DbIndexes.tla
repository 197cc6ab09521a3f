------------------------------ MODULE DbIndexes ------------------------------
(***************************************************************************)
(* The hash tables and the queries of WhiteDB, side by side: they share no *)
(* state, and what makes each kind correct is stated for both of its kind. *)
(***************************************************************************)
EXTENDS StrHash, HashIndex, GintHash, DocQuery, Queries

\* The index for searches by value and the table for the replay of a journal
\* find all that was entered into them and nothing else.
HashesExact == HashIndexExact /\ GintHashExact

\* A query on columns and a query for documents return what meets all of their
\* conditions, and nothing twice.
QueriesExact == QueryExact /\ MergedExactly
=============================================================================
