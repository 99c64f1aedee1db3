--------------------------- MODULE StoreRefinement ---------------------------
(***************************************************************************)
(* The collection engine implements SessionStore: lazily loaded            *)
(* collections, dirty flags and the saves that pass over clean collections *)
(* cannot be told from a store that reads everything at open and writes    *)
(* whole collections.                                                      *)
(***************************************************************************)
EXTENDS CollectionStore

\* What the client sees of c: its documents once it is loaded, until then what
\* the file will give.
LiveOf(c) ==
  IF dir = NoDir THEN <<>>
  ELSE IF coll[c].loaded THEN coll[c].docs ELSE Content(files[dir][c])

Abstract == INSTANCE SessionStore WITH
  session <- dir,
  live <- [c \in Collections |-> LiveOf(c)],
  disk <- [d \in Dirs |-> [c \in Collections |-> Content(files[d][c])]]

\* Every behaviour of the engine, seen through LiveOf and Content, is one of the
\* abstract store: no put or delete is lost, doubled or reordered by loading,
\* saving, closing, failing saves or a crash, except as Leave and Discard allow.
ImplementsSessionStore == Abstract!Spec
=============================================================================
