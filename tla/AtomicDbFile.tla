---------------------------- MODULE AtomicDbFile ----------------------------
(***************************************************************************)
(* What wc_save_db promises ("atomic write"): the database file holds one  *)
(* whole table at a time.  A client loads the table, adds rows to its      *)
(* private copy, and either replaces the file by the copy in one step or   *)
(* leaves the file as it was.                                              *)
(***************************************************************************)
EXTENDS Integers, Sequences

CONSTANTS
  Clients,
  Questions,
  None              \* "no file" and "no handle"

VARIABLES
  file,             \* the table in the file, None without one
  view              \* client -> its private copy, None without a handle

NextId(table) == IF table = <<>> THEN 1 ELSE table[Len(table)].id + 1

Contains(table, q) == \E k \in DOMAIN table : table[k].question = q

Init ==
  /\ file = None
  /\ view = [c \in Clients |-> None]

Load(c) ==
  /\ view' = [view EXCEPT ![c] = file]
  /\ UNCHANGED file

StartNew(c) ==
  /\ file = None
  /\ view' = [view EXCEPT ![c] = <<>>]
  /\ UNCHANGED file

AddRow(c, q) ==
  /\ view[c] # None /\ ~Contains(view[c], q)
  /\ view' = [view EXCEPT ![c] = Append(@, [id |-> NextId(@), question |-> q])]
  /\ UNCHANGED file

Replace(c) ==
  /\ view[c] # None
  /\ file' = view[c]
  /\ UNCHANGED view

Leave(c) ==
  /\ view' = [view EXCEPT ![c] = None]
  /\ UNCHANGED file

Next ==
  \E c \in Clients :
    \/ Load(c) \/ StartNew(c) \/ Replace(c) \/ Leave(c)
    \/ \E q \in Questions : AddRow(c, q)

Spec == Init /\ [][Next]_<<file, view>>
=============================================================================
