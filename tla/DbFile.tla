------------------------------- MODULE DbFile -------------------------------
(***************************************************************************)
(* The database file as the clients of wordcard.c use it: every command    *)
(* and every HTTP request loads the whole file, changes its private copy,  *)
(* saves the whole copy to "<path>.tmp" and renames that over the file.    *)
(*                                                                         *)
(* The directory has two names, target and tmp, each naming an inode; an   *)
(* open file keeps its inode when the name moves on.  An inode holds a     *)
(* sequence of cells: first the header with the row count, then the rows.  *)
(* The code writes seven tables one after the other; one table of items    *)
(* stands for all of them, a cell being the unit that is written whole.    *)
(* Loading is one step: it reads an inode which a lone client never        *)
(* writes again, and which a second one may have spoilt already.           *)
(***************************************************************************)
EXTENDS Integers, Sequences, FiniteSets

CONSTANTS
  Clients,          \* command lines and requests
  Questions,        \* the questions they add
  Inodes,
  None,             \* no file, no handle, no open file
  Alone,            \* does at most one client run at a time?
  WritesFail,       \* may fopen, fwrite, fclose or rename fail (disk full)?
  MaxKills          \* bound: clients killed

ASSUME FileAssumption ==
  /\ None \notin Inodes /\ None \notin Questions
  /\ Alone \in BOOLEAN /\ WritesFail \in BOOLEAN /\ MaxKills \in Nat

VARIABLES
  target,           \* the inode of data/wordcard.db
  tmp,              \* the inode of data/wordcard.db.tmp
  data,             \* inode -> its cells
  phase,            \* client -> where it is
  view,             \* client -> its private copy of the table
  fd,               \* client -> the inode it is writing
  off,              \* client -> the cells it has written
  stored,           \* history: the rows whose wc_save_db returned WC_OK
  kills             \* history: clients killed so far

files   == <<target, tmp, data>>
fileVars == <<target, tmp, data, phase, view, fd, off, stored, kills>>

Row     == [id : Nat \ {0}, question : Questions]
ZeroRow == [id |-> 0, question |-> None]

(* The header cell carries the magic number; a cell that was skipped over  *)
(* reads as zeros.                                                         *)
Header(n)  == [magic |-> TRUE,  count |-> n, row |-> ZeroRow]
RowCell(r) == [magic |-> FALSE, count |-> 0, row |-> r]
Hole       == [magic |-> FALSE, count |-> 0, row |-> ZeroRow]

(* What wc_save_db writes for a table.                                     *)
Image(table) ==
  [k \in 1..(Len(table) + 1) |->
     IF k = 1 THEN Header(Len(table)) ELSE RowCell(table[k - 1])]

(* Mutant of Readable: a short file is not noticed.                        *)
ReadableUnchecked(cells) == cells # <<>> /\ cells[1].magic

(* wc_load_db: the header and as many rows as it announces, or nothing.    *)
Readable(cells) ==
  /\ cells # <<>> /\ cells[1].magic
  /\ Len(cells) >= cells[1].count + 1

(* Mutant of Loaded: an unreadable file is taken for an empty one.         *)
LoadedOrNew(i) ==
  IF i = None THEN None
  ELSE IF ~Readable(data[i]) THEN <<>>
  ELSE [k \in 1..data[i][1].count |-> data[i][k + 1].row]

Loaded(i) ==
  IF i = None THEN None
  ELSE IF ~Readable(data[i]) THEN None
  ELSE [k \in 1..data[i][1].count |-> data[i][k + 1].row]

(* Writing at an offset: an open file that was truncated or extended by    *)
(* somebody else gets a hole or keeps its tail.                            *)
Written(cells, k, cell) ==
  [n \in 1..(IF k > Len(cells) THEN k ELSE Len(cells)) |->
     IF n = k THEN cell ELSE IF n <= Len(cells) THEN cells[n] ELSE Hole]

(* Mutant of NextId: the first id is 0.                                    *)
NextIdFromZero(table) ==
  IF table = <<>> THEN 0 ELSE table[Len(table)].id + 1

NextId(table) == IF table = <<>> THEN 1 ELSE table[Len(table)].id + 1

Contains(table, q) == \E k \in DOMAIN table : table[k].question = q

Used == {target, tmp} \cup {fd[c] : c \in Clients}

-----------------------------------------------------------------------------
Init ==
  /\ target = None /\ tmp = None /\ data = [i \in Inodes |-> <<>>]
  /\ phase = [c \in Clients |-> "gone"]
  /\ view = [c \in Clients |-> None]
  /\ fd = [c \in Clients |-> None] /\ off = [c \in Clients |-> 0]
  /\ stored = {} /\ kills = 0

(* WordCardDB.open: without a readable file the client goes on without a   *)
(* handle.                                                                 *)
Open(c) ==
  /\ phase[c] = "gone"
  /\ Alone => \A d \in Clients : phase[d] = "gone"
  /\ phase' = [phase EXCEPT ![c] = "open"]
  /\ view' = [view EXCEPT ![c] = Loaded(target)]
  /\ UNCHANGED <<files, fd, off, stored, kills>>

(* README, step 2: WordCardDB() makes an empty table; done by hand, before *)
(* there is a file and while nothing else runs.                            *)
Bootstrap(c) ==
  /\ target = None /\ \A d \in Clients : phase[d] = "gone"
  /\ phase' = [phase EXCEPT ![c] = "open"]
  /\ view' = [view EXCEPT ![c] = <<>>]
  /\ UNCHANGED <<files, fd, off, stored, kills>>

(* wc_add_item; without a handle it does nothing.                          *)
AddItem(c, q) ==
  /\ phase[c] = "open" /\ view[c] # None
  /\ ~Contains(view[c], q)
  /\ view' = [view EXCEPT ![c] = Append(@, [id |-> NextId(@), question |-> q])]
  /\ UNCHANGED <<files, phase, fd, off, stored, kills>>

(* wc_save_db, fopen "wb": makes the temporary file, or truncates the one  *)
(* that is there.                                                          *)
OpenTmp(c) ==
  /\ phase[c] = "open" /\ view[c] # None
  /\ \E i \in IF tmp # None THEN {tmp} ELSE Inodes \ Used :
       /\ tmp' = i
       /\ data' = [data EXCEPT ![i] = <<>>]
       /\ fd' = [fd EXCEPT ![c] = i]
  /\ off' = [off EXCEPT ![c] = 0]
  /\ phase' = [phase EXCEPT ![c] = "writing"]
  /\ UNCHANGED <<target, view, stored, kills>>

(* fwrite of the next cell.                                                *)
Write(c) ==
  /\ phase[c] = "writing" /\ off[c] < Len(view[c]) + 1
  /\ data' = [data EXCEPT ![fd[c]] =
                Written(@, off[c] + 1, Image(view[c])[off[c] + 1])]
  /\ off' = [off EXCEPT ![c] = @ + 1]
  /\ UNCHANGED <<target, tmp, phase, view, fd, stored, kills>>

(* Mutant of CloseTmp: the file is renamed before everything is written.   *)
CloseTmpEarly(c) ==
  /\ phase[c] = "writing"
  /\ fd' = [fd EXCEPT ![c] = None]
  /\ phase' = [phase EXCEPT ![c] = "written"]
  /\ UNCHANGED <<files, view, off, stored, kills>>

(* fflush and fclose, after the last cell.                                 *)
CloseTmp(c) ==
  /\ phase[c] = "writing" /\ off[c] = Len(view[c]) + 1
  /\ fd' = [fd EXCEPT ![c] = None]
  /\ phase' = [phase EXCEPT ![c] = "written"]
  /\ UNCHANGED <<files, view, off, stored, kills>>

(* rename moves whatever the name tmp stands for by now.                   *)
Rename(c) ==
  /\ phase[c] = "written" /\ tmp # None
  /\ target' = tmp /\ tmp' = None
  /\ stored' = stored \cup {view[c][k] : k \in DOMAIN view[c]}
  /\ phase' = [phase EXCEPT ![c] = "open"]
  /\ off' = [off EXCEPT ![c] = 0]
  /\ UNCHANGED <<data, view, fd, kills>>

(* The name is gone: rename fails, and so does the remove after it.        *)
RenameNothing(c) ==
  /\ phase[c] = "written" /\ tmp = None
  /\ phase' = [phase EXCEPT ![c] = "open"]
  /\ off' = [off EXCEPT ![c] = 0]
  /\ UNCHANGED <<files, view, fd, stored, kills>>

(* A write, the close or the rename fails: the temporary file is removed,  *)
(* whoever made it, and wc_save_db returns WC_ERR_FILE, which no client    *)
(* looks at.  (A failing fopen changes nothing at all.)                    *)
SaveFails(c) ==
  /\ WritesFail /\ phase[c] \in {"writing", "written"}
  /\ tmp' = None
  /\ fd' = [fd EXCEPT ![c] = None] /\ off' = [off EXCEPT ![c] = 0]
  /\ phase' = [phase EXCEPT ![c] = "open"]
  /\ UNCHANGED <<target, data, view, stored, kills>>

(* wc_db_free, and the end of the client.                                  *)
Forget(c) ==
  /\ phase' = [phase EXCEPT ![c] = "gone"]
  /\ view' = [view EXCEPT ![c] = None]
  /\ fd' = [fd EXCEPT ![c] = None] /\ off' = [off EXCEPT ![c] = 0]

Close(c) ==
  /\ phase[c] = "open"
  /\ Forget(c)
  /\ UNCHANGED <<files, stored, kills>>

(* The client is killed at any point; a temporary file stays behind.       *)
Kill(c) ==
  /\ phase[c] # "gone" /\ kills < MaxKills
  /\ Forget(c)
  /\ kills' = kills + 1
  /\ UNCHANGED <<files, stored>>

Next ==
  \E c \in Clients :
    \/ Open(c) \/ Bootstrap(c)
    \/ \E q \in Questions : AddItem(c, q)
    \/ OpenTmp(c) \/ Write(c) \/ CloseTmp(c)
    \/ Rename(c) \/ RenameNothing(c) \/ SaveFails(c)
    \/ Close(c) \/ Kill(c)

Spec == Init /\ [][Next]_fileVars

-----------------------------------------------------------------------------
Table == Seq(Row \cup {ZeroRow})
Cell  == [magic : BOOLEAN, count : Nat, row : Row \cup {ZeroRow}]

TypeOK ==
  /\ target \in Inodes \cup {None} /\ tmp \in Inodes \cup {None}
  /\ data \in [Inodes -> Seq(Cell)]
  /\ phase \in [Clients -> {"gone", "open", "writing", "written"}]
  /\ view \in [Clients -> Table \cup {None}]
  /\ fd \in [Clients -> Inodes \cup {None}]
  /\ off \in [Clients -> Nat]
  /\ stored \subseteq Row \cup {ZeroRow}
  /\ kills \in 0..MaxKills

(* The file always holds one complete table: no reader ever finds it       *)
(* missing again, cut short, or mixed from two saves.  (wc_save_db:        *)
(* "atomic replacement".)                                                  *)
TargetComplete ==
  target # None =>
    LET cells == data[target]
    IN  /\ cells # <<>> /\ cells[1] = Header(Len(cells) - 1)
        /\ \A k \in 2..Len(cells) : /\ cells[k].row \in Row
                                    /\ cells[k].row.id = k - 1

(* A row that wc_save_db once reported as written stays in the file, with  *)
(* its id, through later saves, failures and kills.                        *)
StoredStays ==
  \A r \in stored : /\ Loaded(target) # None
                    /\ \E k \in DOMAIN Loaded(target) : Loaded(target)[k] = r

(* A file that cannot be read is never replaced, by an empty table least   *)
(* of all: clients without a handle do not save, so what is left in it can *)
(* be rescued by hand.  (And only by hand: no client will ever work again.)*)
Unreadable == target # None /\ ~Readable(data[target])

BrokenFileIsKept ==
  [][Unreadable /\ (\A c \in Clients : view[c] = None)
       => /\ target' = target /\ data'[target] = data[target]
          /\ \A c \in Clients : view'[c] = None]_fileVars

(* The whole save, however many writes it takes and wherever it is cut     *)
(* off, is one replacement of the file or none.                            *)
Atomic == INSTANCE AtomicDbFile WITH file <- Loaded(target)
SaveIsAtomic == Atomic!Spec
=============================================================================
