---------------------------- MODULE SessionStore -----------------------------
(***************************************************************************)
(* What ApxDB promises a client that opens a directory, works, and closes: *)
(* each collection is a sequence of documents; it starts a session as the  *)
(* directory holds it; puts and deletes change what the client sees; a     *)
(* save writes what the client sees, whole collections at a time; the end  *)
(* of the session leaves each collection either as the client last saw it  *)
(* or as it was on disk.  There are no indexes, no lazy loading, no dirty  *)
(* flags and no index files here.                                          *)
(***************************************************************************)
EXTENDS Integers, Sequences

CONSTANTS Collections, Dirs, NoDir, Keys

VARIABLES
  session,  \* the open directory, or NoDir
  live,     \* live[c]: the documents the client sees
  disk      \* disk[d][c]: the documents a new session would see

vars == <<session, live, disk>>

Document == [id: Nat, keys: Keys]

Init ==
  /\ session = NoDir
  /\ live = [c \in Collections |-> <<>>]
  /\ disk = [d \in Dirs |-> [c \in Collections |-> <<>>]]

Open(d) ==
  /\ session = NoDir
  /\ session' = d
  /\ live' = disk[d]
  /\ UNCHANGED disk

\* A new document has an id no document of its collection has.
Put(c) ==
  /\ session # NoDir
  /\ live'[c] # <<>>
  /\ LET doc == live'[c][Len(live'[c])]
     IN /\ doc \in Document
        /\ \A i \in DOMAIN live[c] : live[c][i].id # doc.id
        /\ live' = [live EXCEPT ![c] = Append(@, doc)]
  /\ UNCHANGED <<session, disk>>

\* Exactly one document leaves; the others keep their order.
Delete(c) ==
  /\ session # NoDir
  /\ \E p \in DOMAIN live[c] :
       live' = [live EXCEPT ![c] = SubSeq(@, 1, p - 1) \o SubSeq(@, p + 1, Len(@))]
  /\ UNCHANGED <<session, disk>>

Written(saved) ==
  [disk EXCEPT ![session] = [c \in Collections |-> IF c \in saved THEN live[c] ELSE @[c]]]

Save(saved) ==
  /\ session # NoDir
  /\ disk' = Written(saved)
  /\ UNCHANGED <<session, live>>

\* The client drops its unsaved changes and goes on with what is on disk.
Discard ==
  /\ session # NoDir
  /\ live' = disk[session]
  /\ UNCHANGED <<session, disk>>

\* Close or crash: some collections are written, the rest stay as on disk.
Leave(saved) ==
  /\ session # NoDir
  /\ disk' = Written(saved)
  /\ session' = NoDir
  /\ live' = [c \in Collections |-> <<>>]

Next ==
  \/ \E d \in Dirs : Open(d)
  \/ \E c \in Collections : Put(c) \/ Delete(c)
  \/ \E saved \in SUBSET Collections : Save(saved) \/ Leave(saved)
  \/ Discard

Spec == Init /\ [][Next]_vars
=============================================================================
