--------------------------- MODULE DbFile_proofs ---------------------------
(***************************************************************************)
(* Proofs about DbFile for any sets of clients, questions and inodes.      *)
(***************************************************************************)
EXTENDS DbFile, TLAPS

(* The image of a table has one header and one cell for every row.         *)
LEMMA ImageCells ==
  ASSUME NEW R, NEW t \in Seq(R)
  PROVE  /\ Len(t) \in Nat /\ DOMAIN t = 1..Len(t)
         /\ Len(Image(t)) = Len(t) + 1
         /\ DOMAIN Image(t) = 1..(Len(t) + 1)
         /\ Image(t)[1] = Header(Len(t))
         /\ \A k \in 2..(Len(t) + 1) : Image(t)[k] = RowCell(t[k - 1])
<1>1. Len(t) \in Nat /\ DOMAIN t = 1..Len(t)
  OBVIOUS
<1>2. DOMAIN Image(t) = 1..(Len(t) + 1)
  BY <1>1 DEF Image
<1>3. Len(Image(t)) = Len(t) + 1
  BY <1>1, <1>2
<1>4. 1 \in 1..(Len(t) + 1) /\ \A k \in 2..(Len(t) + 1) : k \in 1..(Len(t) + 1) /\ k # 1
  BY <1>1
<1> QED
  BY <1>1, <1>2, <1>3, <1>4 DEF Image

(* wc_load_db reads back exactly what wc_save_db wrote.                    *)
LEMMA ReadBack ==
  ASSUME NEW R, NEW t \in Seq(R), NEW i \in Inodes, data[i] = Image(t)
  PROVE  Loaded(i) = t
<1>1. i # None
  BY FileAssumption
<1>2. data[i][1].magic /\ data[i][1].count = Len(t) /\ data[i] # <<>>
  <2>1. data[i][1] = Header(Len(t)) /\ Len(data[i]) = Len(t) + 1 /\ Len(t) \in Nat
    BY ImageCells
  <2>2. data[i][1].magic /\ data[i][1].count = Len(t)
    BY <2>1 DEF Header
  <2>3. Len(data[i]) # 0
    BY <2>1
  <2> QED
    BY <2>2, <2>3
<1>3. Readable(data[i])
  BY <1>2, ImageCells DEF Readable
<1>4. \A k \in 1..Len(t) : data[i][k + 1].row = t[k]
  <2>1. ASSUME NEW k \in 1..Len(t) PROVE data[i][k + 1].row = t[k]
    <3>1. k + 1 \in 2..(Len(t) + 1) /\ (k + 1) - 1 = k
      BY ImageCells
    <3>2. data[i][k + 1] = RowCell(t[(k + 1) - 1])
      BY <3>1, ImageCells
    <3> QED
      BY <3>1, <3>2 DEF RowCell
  <2> QED
    BY <2>1
<1>5. t = [k \in 1..Len(t) |-> t[k]]
  OBVIOUS
<1> QED
  BY <1>1, <1>2, <1>3, <1>4, <1>5 DEF Loaded

(* The first n cells of an image.                                          *)
Prefix(t, n) == [k \in 1..n |-> Image(t)[k]]

(* A writer whose file nobody else touches extends the prefix by a cell.   *)
LEMMA WriteExtends ==
  ASSUME NEW R, NEW t \in Seq(R), NEW n \in Nat, n < Len(t) + 1
  PROVE  Written(Prefix(t, n), n + 1, Image(t)[n + 1]) = Prefix(t, n + 1)
<1>1. DOMAIN Prefix(t, n) = 1..n
  BY DEF Prefix
<1>2. Len(Prefix(t, n)) = n
  BY <1>1
<1>3. \A k \in 1..(n + 1) : k # n + 1 => k <= n /\ k \in 1..n
  OBVIOUS
<1> QED
  BY <1>2, <1>3 DEF Written, Prefix

(* With the last cell the prefix is the image.                             *)
LEMMA PrefixWhole ==
  ASSUME NEW R, NEW t \in Seq(R)
  PROVE  Prefix(t, Len(t) + 1) = Image(t)
  BY ImageCells DEF Prefix, Image

-----------------------------------------------------------------------------
(* Types *)

(* The fields of a cell.                                                   *)
LEMMA CellFields ==
  ASSUME NEW x \in Cell
  PROVE  x.count \in Nat /\ x.row \in Row \cup {ZeroRow}
  BY DEF Cell

(* Whatever cells an inode holds, loading it gives a table or nothing.     *)
LEMMA LoadedType ==
  ASSUME TypeOK, NEW i \in Inodes \cup {None}
  PROVE  Loaded(i) \in Table \cup {None}
<1>1. CASE i # None /\ Readable(data[i])
  <2> DEFINE cells == data[i]
             n == cells[1].count
  <2>1. cells \in Seq(Cell)
    BY <1>1 DEF TypeOK
  <2>2. cells # <<>> /\ Len(cells) >= n + 1
    BY <1>1 DEF Readable
  <2>3. 1 \in 1..Len(cells)
    BY <2>1, <2>2
  <2>4. n \in Nat
    <3>1. cells[1] \in Cell
      BY <2>1, <2>3
    <3> QED
      BY <3>1, CellFields
  <2>5. ASSUME NEW k \in 1..n PROVE cells[k + 1].row \in Row \cup {ZeroRow}
    <3>1. k + 1 \in 1..Len(cells)
      BY <2>1, <2>2, <2>4
    <3>2. cells[k + 1] \in Cell
      BY <2>1, <3>1
    <3> QED
      BY <3>2, CellFields
  <2>6. [k \in 1..n |-> cells[k + 1].row] \in Table
    BY <2>4, <2>5 DEF Table
  <2> QED
    BY <1>1, <2>6 DEF Loaded
<1>2. CASE ~(i # None /\ Readable(data[i]))
  BY <1>2 DEF Loaded
<1> QED
  BY <1>1, <1>2

(* Writing a cell anywhere leaves a sequence of cells.                     *)
LEMMA WrittenType ==
  ASSUME NEW cells \in Seq(Cell), NEW k \in Nat \ {0}, NEW cell \in Cell
  PROVE  Written(cells, k, cell) \in Seq(Cell)
<1>1. Hole \in Cell
  BY DEF Hole, Cell
<1>2. (IF k > Len(cells) THEN k ELSE Len(cells)) \in Nat
  OBVIOUS
<1>3. \A n \in Nat : 0 < n /\ n <= Len(cells) => cells[n] \in Cell
  OBVIOUS
<1> QED
  BY <1>1, <1>2, <1>3 DEF Written

(* The cells of an image of a table.                                       *)
LEMMA ImageType ==
  ASSUME NEW t \in Table, NEW k \in 1..(Len(t) + 1)
  PROVE  Image(t)[k] \in Cell
<1>1. CASE k = 1
  BY <1>1 DEF Image, Header, Cell, Table
<1>2. CASE k # 1
  <2>1. k - 1 \in 1..Len(t)
    BY <1>2 DEF Table
  <2>2. t[k - 1] \in Row \cup {ZeroRow}
    BY <2>1 DEF Table
  <2>3. Image(t)[k] = RowCell(t[k - 1])
    BY <1>2 DEF Image
  <2> QED
    BY <2>2, <2>3 DEF RowCell, Cell
<1> QED
  BY <1>1, <1>2

(* A new row is a row.                                                     *)
LEMMA NewRow ==
  ASSUME NEW t \in Table, NEW q \in Questions
  PROVE  [id |-> NextId(t), question |-> q] \in Row
<1>1. CASE t = <<>>
  BY <1>1 DEF NextId, Row
<1>2. CASE t # <<>>
  <2>1. t[Len(t)] \in Row \cup {ZeroRow}
    BY <1>2 DEF Table
  <2>2. t[Len(t)].id \in Nat
    BY <2>1 DEF Row, ZeroRow
  <2> QED
    BY <1>2, <2>2 DEF NextId, Row
<1> QED
  BY <1>1, <1>2

(* Only a client with a handle writes, and it writes to an open file.      *)
Handles ==
  \A c \in Clients :
    /\ phase[c] \in {"writing", "written"} => view[c] # None
    /\ phase[c] = "writing" => fd[c] # None

(* Every step keeps the types, however many clients run at a time.         *)
LEMMA TypesInductive ==
  ASSUME TypeOK, Handles, [Next]_fileVars
  PROVE  TypeOK' /\ Handles'
<1> USE DEF files
<1>1. ASSUME NEW c \in Clients, Open(c) PROVE TypeOK' /\ Handles'
  <2>1. Loaded(target) \in Table \cup {None}
    BY LoadedType DEF TypeOK
  <2>2. TypeOK'
    BY <1>1, <2>1 DEF Open, TypeOK
  <2> QED
    BY <1>1, <2>2 DEF Open, TypeOK, Handles
<1>2. ASSUME NEW c \in Clients, Bootstrap(c) PROVE TypeOK' /\ Handles'
  <2>1. <<>> \in Table
    BY DEF Table
  <2>2. TypeOK'
    BY <1>2, <2>1 DEF Bootstrap, TypeOK
  <2> QED
    BY <1>2, <2>2 DEF Bootstrap, TypeOK, Handles
<1>3. ASSUME NEW c \in Clients, NEW q \in Questions, AddItem(c, q)
      PROVE  TypeOK' /\ Handles'
  <2>1. view[c] \in Table
    BY <1>3 DEF AddItem, TypeOK
  <2>2. Append(view[c], [id |-> NextId(view[c]), question |-> q]) \in Table
    BY <2>1, NewRow DEF Table
  <2>3. TypeOK'
    BY <1>3, <2>2 DEF AddItem, TypeOK
  <2> QED
    BY <1>3, <2>3 DEF AddItem, TypeOK, Handles
<1>4. ASSUME NEW c \in Clients, OpenTmp(c) PROVE TypeOK' /\ Handles'
  <2>1. PICK i \in Inodes : /\ tmp' = i /\ data' = [data EXCEPT ![i] = <<>>]
                            /\ fd' = [fd EXCEPT ![c] = i]
    BY <1>4 DEF OpenTmp, TypeOK
  <2>2. <<>> \in Seq(Cell)
    OBVIOUS
  <2>3. TypeOK'
    BY <1>4, <2>1, <2>2 DEF OpenTmp, TypeOK
  <2> QED
    BY <1>4, <2>1, <2>3, FileAssumption DEF OpenTmp, TypeOK, Handles
<1>5. ASSUME NEW c \in Clients, Write(c) PROVE TypeOK' /\ Handles'
  <2>1. view[c] \in Table /\ fd[c] \in Inodes
    BY <1>5 DEF Write, TypeOK, Handles
  <2>2. off[c] \in Nat /\ Len(view[c]) \in Nat /\ off[c] < Len(view[c]) + 1
    BY <1>5, <2>1 DEF Write, TypeOK, Table
  <2>3. off[c] + 1 \in 1..(Len(view[c]) + 1) /\ off[c] + 1 \in Nat \ {0}
    BY <2>2
  <2>4. Image(view[c])[off[c] + 1] \in Cell
    BY <2>1, <2>3, ImageType
  <2>5. data[fd[c]] \in Seq(Cell)
    BY <2>1 DEF TypeOK
  <2>6. Written(data[fd[c]], off[c] + 1, Image(view[c])[off[c] + 1]) \in Seq(Cell)
    BY <2>3, <2>4, <2>5, WrittenType
  <2>7. TypeOK'
    BY <1>5, <2>1, <2>3, <2>6 DEF Write, TypeOK
  <2> QED
    BY <1>5, <2>7 DEF Write, TypeOK, Handles
<1>6. ASSUME NEW c \in Clients, CloseTmp(c) PROVE TypeOK' /\ Handles'
  BY <1>6 DEF CloseTmp, TypeOK, Handles
<1>7. ASSUME NEW c \in Clients, Rename(c) PROVE TypeOK' /\ Handles'
  <2>1. view[c] \in Table
    BY <1>7 DEF Rename, TypeOK, Handles
  <2>2. {view[c][k] : k \in DOMAIN view[c]} \subseteq Row \cup {ZeroRow}
    BY <2>1 DEF Table
  <2> QED
    BY <1>7, <2>2 DEF Rename, TypeOK, Handles
<1>8. ASSUME NEW c \in Clients, RenameNothing(c) PROVE TypeOK' /\ Handles'
  BY <1>8 DEF RenameNothing, TypeOK, Handles
<1>9. ASSUME NEW c \in Clients, SaveFails(c) PROVE TypeOK' /\ Handles'
  BY <1>9 DEF SaveFails, TypeOK, Handles
<1>10. ASSUME NEW c \in Clients, Close(c) PROVE TypeOK' /\ Handles'
  BY <1>10 DEF Close, Forget, TypeOK, Handles
<1>11. ASSUME NEW c \in Clients, Kill(c) PROVE TypeOK' /\ Handles'
  <2>1. kills' \in 0..MaxKills
    BY <1>11, FileAssumption DEF Kill, TypeOK
  <2> QED
    BY <1>11, <2>1 DEF Kill, Forget, TypeOK, Handles
<1>12. CASE UNCHANGED fileVars
  BY <1>12 DEF fileVars, TypeOK, Handles
<1> QED
  BY <1>1, <1>2, <1>3, <1>4, <1>5, <1>6, <1>7, <1>8, <1>9, <1>10, <1>11,
     <1>12 DEF Next

(* Both hold in every reachable state.                                     *)
LEMMA TypesAlways == Spec => [](TypeOK /\ Handles)
<1>1. Init => TypeOK /\ Handles
  BY FileAssumption DEF Init, TypeOK, Handles
<1> QED
  BY <1>1, TypesInductive, PTL DEF Spec

-----------------------------------------------------------------------------
(* One client at a time *)

(* Tables as wc_add_item builds them: the id of a row is its position.     *)
Tables == {t \in Seq(Row) : \A k \in 1..Len(t) : t[k].id = k}

RowsOf(t) == {t[k] : k \in DOMAIN t}

(* At most one client is there, and one that is gone has left nothing.     *)
Solo ==
  /\ \A c, d \in Clients : phase[c] # "gone" /\ phase[d] # "gone" => c = d
  /\ \A c \in Clients : phase[c] = "gone" => view[c] = None

(* Private copies, and the file, hold whole tables.                        *)
WholeViews == \A c \in Clients : view[c] # None => view[c] \in Tables

WholeFile == target # None => \E t \in Tables : data[target] = Image(t)

(* The two names never stand for one file.                                 *)
Apart == tmp # None => tmp # target

(* A client that is writing has the temporary file to itself, and has      *)
(* written just the first off cells of its image; once it is done, all.    *)
OwnTmp ==
  \A c \in Clients :
    /\ phase[c] = "writing" =>
         /\ tmp # None /\ fd[c] = tmp /\ off[c] <= Len(view[c]) + 1
         /\ data[tmp] = Prefix(view[c], off[c])
    /\ phase[c] = "written" => tmp # None /\ data[tmp] = Image(view[c])

(* A private copy knows every row that was ever stored.                    *)
Informed == \A c \in Clients : view[c] # None => stored \subseteq RowsOf(view[c])

FileInv ==
  /\ TypeOK /\ Handles /\ Solo /\ WholeViews /\ WholeFile /\ Apart /\ OwnTmp
  /\ Informed /\ StoredStays

(* The file is the same table as long as its inode is left alone.          *)
LEMMA SameFile ==
  ASSUME target' = target, target # None => data'[target] = data[target]
  PROVE  /\ Loaded(target)' = Loaded(target)
         /\ WholeFile => WholeFile'
<1>1. CASE target = None
  BY <1>1 DEF Loaded, WholeFile
<1>2. CASE target # None
  BY <1>2 DEF Loaded, WholeFile
<1> QED
  BY <1>1, <1>2

(* What a whole file loads as.                                             *)
LEMMA LoadedWhole ==
  ASSUME FileInv
  PROVE  /\ Loaded(target) # None => Loaded(target) \in Tables
         /\ Loaded(target) # None => stored \subseteq RowsOf(Loaded(target))
         /\ target = None => Loaded(target) = None /\ stored = {}
<1>1. CASE target = None
  BY <1>1 DEF Loaded, FileInv, StoredStays
<1>2. CASE target # None
  <2>1. PICK t \in Tables : data[target] = Image(t)
    BY <1>2 DEF FileInv, WholeFile
  <2>2. Loaded(target) = t
    BY <1>2, <2>1, ReadBack DEF Tables, FileInv, TypeOK
  <2> QED
    BY <1>2, <2>1, <2>2 DEF FileInv, StoredStays, RowsOf
<1> QED
  BY <1>1, <1>2

(* Adding a row to a table makes a longer table that still has the old     *)
(* rows.                                                                   *)
LEMMA AppendTable ==
  ASSUME NEW t \in Tables, NEW q \in Questions
  PROVE  LET u == Append(t, [id |-> NextId(t), question |-> q])
         IN  u \in Tables /\ RowsOf(t) \subseteq RowsOf(u)
<1> DEFINE row == [id |-> NextId(t), question |-> q]
           u == Append(t, row)
<1>1. t \in Seq(Row) /\ Len(t) \in Nat /\ DOMAIN t = 1..Len(t)
  BY DEF Tables
<1>2. NextId(t) = Len(t) + 1
  <2>1. CASE t = <<>>
    BY <2>1 DEF NextId
  <2>2. CASE t # <<>>
    <3>1. Len(t) \in 1..Len(t)
      BY <1>1, <2>2
    <3> QED
      BY <2>2, <3>1 DEF NextId, Tables
  <2> QED
    BY <2>1, <2>2
<1>3. row \in Row
  BY <1>1, <1>2 DEF Row
<1>4. /\ u \in Seq(Row) /\ Len(u) = Len(t) + 1 /\ DOMAIN u = 1..(Len(t) + 1)
      /\ u[Len(t) + 1] = row
      /\ \A k \in 1..Len(t) : u[k] = t[k]
  BY <1>1, <1>3
<1>5. u \in Tables
  <2>1. ASSUME NEW k \in 1..Len(u) PROVE u[k].id = k
    <3>1. CASE k = Len(t) + 1
      BY <1>2, <1>4, <3>1
    <3>2. CASE k \in 1..Len(t)
      BY <1>4, <3>2 DEF Tables
    <3> QED
      BY <1>1, <1>4, <3>1, <3>2
  <2> QED
    BY <1>4, <2>1 DEF Tables
<1>6. RowsOf(t) \subseteq RowsOf(u)
  <2>1. \A k \in 1..Len(t) : k \in 1..(Len(t) + 1)
    BY <1>1
  <2> QED
    BY <1>1, <1>4, <2>1 DEF RowsOf
<1> QED
  BY <1>5, <1>6

(* What an action that leaves the file and stored alone has to show.       *)
LEMMA StaysStored ==
  ASSUME StoredStays, stored' = stored, Loaded(target)' = Loaded(target)
  PROVE  StoredStays'
  BY DEF StoredStays

(* Every step of a lone client keeps the invariant.                        *)
LEMMA FileInvInductive ==
  ASSUME Alone, FileInv, [Next]_fileVars
  PROVE  FileInv'
<1> USE DEF files
<1>0. TypeOK /\ Handles /\ TypeOK' /\ Handles'
  BY TypesInductive DEF FileInv
<1>1. ASSUME NEW c \in Clients, Open(c) PROVE FileInv'
  <2>1. /\ \A d \in Clients : phase[d] = "gone" /\ view[d] = None
        /\ phase' = [phase EXCEPT ![c] = "open"]
        /\ view' = [view EXCEPT ![c] = Loaded(target)]
        /\ UNCHANGED <<target, tmp, data, fd, off, stored, kills>>
    BY <1>1 DEF Open, FileInv, Solo
  <2>2. Solo' /\ OwnTmp'
    BY <1>0, <2>1 DEF TypeOK, Solo, OwnTmp
  <2>3. WholeViews' /\ Informed'
    BY <1>0, <2>1, LoadedWhole DEF TypeOK, WholeViews, Informed
  <2>4. Loaded(target)' = Loaded(target) /\ WholeFile'
    BY <2>1, SameFile DEF FileInv
  <2>5. StoredStays' /\ Apart'
    BY <2>1, <2>4, StaysStored DEF FileInv, Apart
  <2> QED
    BY <1>0, <2>2, <2>3, <2>4, <2>5 DEF FileInv
<1>2. ASSUME NEW c \in Clients, Bootstrap(c) PROVE FileInv'
  <2>1. /\ \A d \in Clients : phase[d] = "gone" /\ view[d] = None
        /\ phase' = [phase EXCEPT ![c] = "open"]
        /\ view' = [view EXCEPT ![c] = <<>>]
        /\ target = None
        /\ UNCHANGED <<target, tmp, data, fd, off, stored, kills>>
    BY <1>2 DEF Bootstrap, FileInv, Solo
  <2>2. Solo' /\ OwnTmp'
    BY <1>0, <2>1 DEF TypeOK, Solo, OwnTmp
  <2>3. <<>> \in Tables /\ stored = {}
    BY <2>1, LoadedWhole DEF Tables
  <2>4. WholeViews' /\ Informed'
    BY <1>0, <2>1, <2>3 DEF TypeOK, WholeViews, Informed
  <2>5. Loaded(target)' = Loaded(target) /\ WholeFile'
    BY <2>1, SameFile DEF FileInv
  <2>6. StoredStays' /\ Apart'
    BY <2>1, <2>5, StaysStored DEF FileInv, Apart
  <2> QED
    BY <1>0, <2>2, <2>4, <2>5, <2>6 DEF FileInv
<1>3. ASSUME NEW c \in Clients, NEW q \in Questions, AddItem(c, q)
      PROVE  FileInv'
  <2> DEFINE u == Append(view[c], [id |-> NextId(view[c]), question |-> q])
  <2>1. /\ phase[c] = "open" /\ view[c] # None
        /\ view' = [view EXCEPT ![c] = u]
        /\ UNCHANGED <<target, tmp, data, phase, fd, off, stored, kills>>
    BY <1>3 DEF AddItem
  <2>2. view[c] \in Tables /\ stored \subseteq RowsOf(view[c])
    BY <2>1 DEF FileInv, WholeViews, Informed
  <2>3. u \in Tables /\ stored \subseteq RowsOf(u)
    BY <2>2, AppendTable
  <2>4. Solo' /\ OwnTmp'
    BY <1>0, <2>1 DEF TypeOK, Solo, OwnTmp, FileInv
  <2>5. WholeViews' /\ Informed'
    BY <1>0, <2>1, <2>3 DEF TypeOK, WholeViews, Informed, FileInv
  <2>6. Loaded(target)' = Loaded(target) /\ WholeFile'
    BY <2>1, SameFile DEF FileInv
  <2>7. StoredStays' /\ Apart'
    BY <2>1, <2>6, StaysStored DEF FileInv, Apart
  <2> QED
    BY <1>0, <2>4, <2>5, <2>6, <2>7 DEF FileInv
<1>4. ASSUME NEW c \in Clients, OpenTmp(c) PROVE FileInv'
  <2>1. PICK i \in IF tmp # None THEN {tmp} ELSE Inodes \ Used :
           /\ tmp' = i /\ data' = [data EXCEPT ![i] = <<>>]
           /\ fd' = [fd EXCEPT ![c] = i]
    BY <1>4 DEF OpenTmp
  <2>2. /\ phase[c] = "open" /\ view[c] # None
        /\ off' = [off EXCEPT ![c] = 0]
        /\ phase' = [phase EXCEPT ![c] = "writing"]
        /\ UNCHANGED <<target, view, stored, kills>>
    BY <1>4 DEF OpenTmp
  <2>3. i \in Inodes /\ i # None /\ i # target
    BY <1>0, <2>1, FileAssumption DEF Used, FileInv, Apart, TypeOK
  <2>4. Solo' /\ WholeViews' /\ Informed'
    BY <1>0, <2>2 DEF TypeOK, Solo, WholeViews, Informed, FileInv
  <2>5. OwnTmp'
    <3>1. \A d \in Clients : d # c => phase'[d] = "gone"
      BY <1>0, <2>2 DEF TypeOK, Solo, FileInv
    <3>2. phase'[c] = "writing" /\ off'[c] = 0 /\ fd'[c] = tmp' /\ tmp' # None
      BY <1>0, <2>1, <2>2, <2>3 DEF TypeOK
    <3>3. data'[tmp'] = <<>>
      BY <1>0, <2>1, <2>3 DEF TypeOK
    <3>4. view'[c] \in Tables
      BY <2>2 DEF FileInv, WholeViews
    <3>5. off'[c] <= Len(view'[c]) + 1
      BY <3>2, <3>4 DEF Tables
    <3>6. Prefix(view'[c], 0) = <<>>
      BY DEF Prefix
    <3> QED
      BY <3>1, <3>2, <3>3, <3>5, <3>6 DEF OwnTmp, Prefix
  <2>6. Loaded(target)' = Loaded(target) /\ WholeFile'
    BY <1>0, <2>1, <2>2, <2>3, SameFile DEF FileInv, TypeOK
  <2>7. StoredStays' /\ Apart'
    BY <2>1, <2>2, <2>3, <2>6, StaysStored DEF FileInv, Apart
  <2> QED
    BY <1>0, <2>4, <2>5, <2>6, <2>7 DEF FileInv
<1>5. ASSUME NEW c \in Clients, Write(c) PROVE FileInv'
  <2> DEFINE t == view[c]
             n == off[c]
  <2>1. /\ phase[c] = "writing" /\ n < Len(t) + 1
        /\ data' = [data EXCEPT ![fd[c]] = Written(@, n + 1, Image(t)[n + 1])]
        /\ off' = [off EXCEPT ![c] = n + 1]
        /\ UNCHANGED <<target, tmp, phase, view, fd, stored, kills>>
    BY <1>5 DEF Write
  <2>2. /\ tmp # None /\ fd[c] = tmp /\ tmp # target /\ tmp \in Inodes
        /\ data[tmp] = Prefix(t, n)
        /\ t \in Tables /\ n \in Nat /\ Len(t) \in Nat
    BY <1>0, <2>1 DEF FileInv, OwnTmp, Apart, TypeOK, Handles, WholeViews, Tables
  <2>3. Solo' /\ WholeViews' /\ Informed'
    BY <2>1 DEF Solo, WholeViews, Informed, FileInv
  <2>4. OwnTmp'
    <3>1. \A d \in Clients : d # c => phase'[d] = "gone"
      BY <2>1 DEF Solo, FileInv
    <3>2. data'[tmp] = Prefix(t, n + 1)
      BY <1>0, <2>1, <2>2, WriteExtends DEF TypeOK, Tables
    <3>3. off'[c] = n + 1 /\ n + 1 <= Len(t) + 1
      BY <1>0, <2>1, <2>2 DEF TypeOK
    <3> HIDE DEF t, n
    <3> QED
      BY <2>1, <2>2, <3>1, <3>2, <3>3 DEF OwnTmp, t
  <2>5. Loaded(target)' = Loaded(target) /\ WholeFile'
    BY <1>0, <2>1, <2>2, SameFile DEF FileInv, TypeOK
  <2>6. StoredStays' /\ Apart'
    BY <2>1, <2>5, StaysStored DEF FileInv, Apart
  <2> QED
    BY <1>0, <2>3, <2>4, <2>5, <2>6 DEF FileInv
<1>6. ASSUME NEW c \in Clients, CloseTmp(c) PROVE FileInv'
  <2>1. /\ phase[c] = "writing" /\ off[c] = Len(view[c]) + 1
        /\ fd' = [fd EXCEPT ![c] = None]
        /\ phase' = [phase EXCEPT ![c] = "written"]
        /\ UNCHANGED <<target, tmp, data, view, off, stored, kills>>
    BY <1>6 DEF CloseTmp
  <2>2. Solo' /\ WholeViews' /\ Informed' /\ Apart'
    BY <1>0, <2>1 DEF TypeOK, Solo, WholeViews, Informed, Apart, FileInv
  <2>3. OwnTmp'
    <3>1. \A d \in Clients : d # c => phase'[d] = "gone"
      BY <1>0, <2>1 DEF TypeOK, Solo, FileInv
    <3>2. tmp # None /\ data[tmp] = Prefix(view[c], off[c])
      BY <2>1 DEF OwnTmp, FileInv
    <3>3. view[c] \in Tables
      BY <1>0, <2>1 DEF Handles, WholeViews, FileInv
    <3>4. data[tmp] = Image(view[c])
      BY <2>1, <3>2, <3>3, PrefixWhole DEF Tables
    <3> QED
      BY <1>0, <2>1, <3>1, <3>2, <3>4 DEF OwnTmp, TypeOK
  <2>4. Loaded(target)' = Loaded(target) /\ WholeFile'
    BY <2>1, SameFile DEF FileInv
  <2>5. StoredStays'
    BY <2>1, <2>4, StaysStored DEF FileInv
  <2> QED
    BY <1>0, <2>2, <2>3, <2>4, <2>5 DEF FileInv
<1>7. ASSUME NEW c \in Clients, Rename(c) PROVE FileInv'
  <2>1. /\ phase[c] = "written" /\ tmp # None
        /\ target' = tmp /\ tmp' = None
        /\ stored' = stored \cup RowsOf(view[c])
        /\ phase' = [phase EXCEPT ![c] = "open"]
        /\ UNCHANGED <<data, view, fd, kills>>
    BY <1>7 DEF Rename, RowsOf
  <2>2. /\ view[c] \in Tables /\ stored \subseteq RowsOf(view[c])
        /\ view[c] # None /\ tmp \in Inodes /\ data[tmp] = Image(view[c])
    BY <1>0, <2>1 DEF Handles, WholeViews, Informed, OwnTmp, FileInv, TypeOK
  <2>3. \A d \in Clients : d # c => phase[d] = "gone" /\ view[d] = None
    BY <2>1 DEF Solo, FileInv
  <2>4. Solo' /\ OwnTmp' /\ WholeViews' /\ Apart'
    BY <1>0, <2>1, <2>3
    DEF TypeOK, Solo, OwnTmp, WholeViews, Apart, FileInv
  <2>5. stored' = RowsOf(view[c])
    BY <2>1, <2>2
  <2>6. Informed'
    BY <2>1, <2>3, <2>5 DEF Informed
  <2>7. WholeFile'
    BY <2>1, <2>2 DEF WholeFile
  <2>8. Loaded(tmp) = view[c]
    BY <2>2, ReadBack DEF Tables
  <2>9. Loaded(target)' = view[c]
    BY <2>1, <2>8 DEF Loaded
  <2>10. StoredStays'
    BY <2>2, <2>5, <2>9 DEF StoredStays, RowsOf
  <2> QED
    BY <1>0, <2>4, <2>6, <2>7, <2>10 DEF FileInv
<1>8. ASSUME NEW c \in Clients, RenameNothing(c) PROVE FileInv'
  BY <1>8 DEF RenameNothing, OwnTmp, FileInv
<1>9. ASSUME NEW c \in Clients, SaveFails(c) PROVE FileInv'
  <2>1. /\ phase[c] \in {"writing", "written"}
        /\ tmp' = None /\ phase' = [phase EXCEPT ![c] = "open"]
        /\ UNCHANGED <<target, data, view, stored, kills>>
    BY <1>9 DEF SaveFails
  <2>2. Solo' /\ WholeViews' /\ Informed' /\ Apart'
    BY <1>0, <2>1 DEF TypeOK, Solo, WholeViews, Informed, Apart, FileInv
  <2>3. \A d \in Clients : phase'[d] # "writing" /\ phase'[d] # "written"
    BY <1>0, <2>1 DEF TypeOK, Solo, FileInv
  <2>4. OwnTmp'
    BY <2>3 DEF OwnTmp
  <2>5. Loaded(target)' = Loaded(target) /\ WholeFile'
    BY <2>1, SameFile DEF FileInv
  <2>6. StoredStays'
    BY <2>1, <2>5, StaysStored DEF FileInv
  <2> QED
    BY <1>0, <2>2, <2>4, <2>5, <2>6 DEF FileInv
<1>10. ASSUME NEW c \in Clients, Forget(c), UNCHANGED <<files, stored>>
       PROVE  FileInv'
  <2>1. /\ phase' = [phase EXCEPT ![c] = "gone"]
        /\ view' = [view EXCEPT ![c] = None]
        /\ fd' = [fd EXCEPT ![c] = None] /\ off' = [off EXCEPT ![c] = 0]
        /\ UNCHANGED <<target, tmp, data, stored>>
    BY <1>10 DEF Forget
  <2>2. /\ phase'[c] = "gone" /\ view'[c] = None
        /\ \A d \in Clients : d # c =>
             /\ phase'[d] = phase[d] /\ view'[d] = view[d]
             /\ fd'[d] = fd[d] /\ off'[d] = off[d]
    BY <1>0, <2>1 DEF TypeOK
  <2>3. Solo' /\ WholeViews' /\ Informed' /\ Apart' /\ OwnTmp'
    BY <2>1, <2>2 DEF Solo, WholeViews, Informed, Apart, OwnTmp, FileInv
  <2>4. Loaded(target)' = Loaded(target) /\ WholeFile'
    BY <2>1, SameFile DEF FileInv
  <2>5. StoredStays'
    BY <2>1, <2>4, StaysStored DEF FileInv
  <2> QED
    BY <1>0, <2>3, <2>4, <2>5 DEF FileInv
<1>11. ASSUME NEW c \in Clients, Close(c) \/ Kill(c) PROVE FileInv'
  BY <1>10, <1>11 DEF Close, Kill
<1>12. CASE UNCHANGED fileVars
  <2>1. Loaded(target)' = Loaded(target) /\ WholeFile'
    BY <1>12, SameFile DEF fileVars, FileInv
  <2>2. StoredStays'
    BY <1>12, <2>1, StaysStored DEF fileVars, FileInv
  <2>3. Solo' /\ WholeViews' /\ Informed' /\ Apart' /\ OwnTmp'
    BY <1>12 DEF fileVars, Solo, WholeViews, Informed, Apart, OwnTmp, FileInv
  <2> QED
    BY <1>0, <2>1, <2>2, <2>3 DEF FileInv
<1> QED
  BY <1>1, <1>2, <1>3, <1>4, <1>5, <1>6, <1>7, <1>8, <1>9, <1>11, <1>12
  DEF Next

(* A lone client keeps the invariant for ever.                             *)
LEMMA FileInvAlways ==
  ASSUME Alone
  PROVE  Spec => []FileInv
<1>1. Init => FileInv
  <2>1. Init => TypeOK /\ Handles
    BY FileAssumption DEF Init, TypeOK, Handles
  <2> QED
    BY <2>1 DEF Init, FileInv, Solo, WholeViews, WholeFile, Apart, OwnTmp,
       Informed, StoredStays
<1> QED
  BY <1>1, FileInvInductive, PTL DEF Spec

-----------------------------------------------------------------------------
(* The state of the file keeps its types, also when clients overlap.       *)
THEOREM FileTypes == Spec => []TypeOK
<1> QED
  BY TypesAlways, PTL

(* However many clients overlap and whatever fails: once the database file *)
(* cannot be read and no client holds a table from before, no step changes *)
(* the file or gives a client a table it could save over it.               *)
THEOREM BrokenForGood == Spec => BrokenFileIsKept
<1> DEFINE Kept == /\ target' = target /\ data'[target] = data[target]
                  /\ \A c \in Clients : view'[c] = None
           NoTable == \A c \in Clients : view[c] = None
<1>1. ASSUME TypeOK, Handles, Unreadable, NoTable, [Next]_fileVars
      PROVE  Kept
  <2>1. \A c \in Clients : phase[c] \notin {"writing", "written"}
    BY <1>1 DEF Handles
  <2>2. target # None /\ Loaded(target) = None
    BY <1>1 DEF Unreadable, Loaded
  <2>3. view \in [Clients -> Table \cup {None}]
    BY <1>1 DEF TypeOK
  <2>4. ASSUME NEW c \in Clients, Open(c) PROVE Kept
    BY <1>1, <2>2, <2>3, <2>4 DEF Open, files
  <2>5. ASSUME NEW c \in Clients, Bootstrap(c) PROVE Kept
    BY <2>2, <2>5 DEF Bootstrap
  <2>6. ASSUME NEW c \in Clients, NEW q \in Questions, AddItem(c, q)
        PROVE  Kept
    BY <1>1, <2>6 DEF AddItem
  <2>7. ASSUME NEW c \in Clients, OpenTmp(c) PROVE Kept
    BY <1>1, <2>7 DEF OpenTmp
  <2>8. ASSUME NEW c \in Clients,
               Write(c) \/ CloseTmp(c) \/ Rename(c) \/ RenameNothing(c)
                 \/ SaveFails(c)
        PROVE  Kept
    BY <2>1, <2>8 DEF Write, CloseTmp, Rename, RenameNothing, SaveFails
  <2>9. ASSUME NEW c \in Clients, Close(c) \/ Kill(c) PROVE Kept
    BY <1>1, <2>3, <2>9 DEF Close, Kill, Forget, files
  <2>10. CASE UNCHANGED fileVars
    BY <1>1, <2>10 DEF fileVars
  <2> QED
    BY <1>1, <2>4, <2>5, <2>6, <2>7, <2>8, <2>9, <2>10 DEF Next
<1>2. TypeOK /\ Handles /\ [Next]_fileVars
        => [Unreadable /\ NoTable => Kept]_fileVars
  BY <1>1
<1> QED
  BY <1>2, TypesAlways, PTL DEF Spec, BrokenFileIsKept

(* With one client at a time the file always holds one complete table,     *)
(* whatever fails and whenever the client is killed.                       *)
THEOREM FileComplete ==
  ASSUME Alone
  PROVE  Spec => []TargetComplete
<1>1. FileInv => TargetComplete
  <2> SUFFICES ASSUME FileInv, target # None
               PROVE  /\ data[target] # <<>>
                      /\ data[target][1] = Header(Len(data[target]) - 1)
                      /\ \A k \in 2..Len(data[target]) :
                            /\ data[target][k].row \in Row
                            /\ data[target][k].row.id = k - 1
    BY DEF TargetComplete
  <2>1. PICK t \in Tables : data[target] = Image(t)
    BY DEF FileInv, WholeFile
  <2>2. /\ t \in Seq(Row) /\ Len(t) \in Nat
        /\ \A k \in 1..Len(t) : t[k] \in Row /\ t[k].id = k
    BY DEF Tables
  <2>3. /\ Len(data[target]) = Len(t) + 1 /\ data[target][1] = Header(Len(t))
        /\ \A k \in 2..(Len(t) + 1) : data[target][k] = RowCell(t[k - 1])
    BY <2>1, <2>2, ImageCells
  <2>4. data[target] # <<>> /\ Len(data[target]) - 1 = Len(t)
    BY <2>2, <2>3
  <2>5. ASSUME NEW k \in 2..Len(data[target])
        PROVE  data[target][k].row \in Row /\ data[target][k].row.id = k - 1
    <3>1. k - 1 \in 1..Len(t) /\ k \in 2..(Len(t) + 1)
      BY <2>2, <2>3
    <3>2. data[target][k] = RowCell(t[k - 1])
      BY <2>3, <3>1
    <3>3. data[target][k].row = t[k - 1]
      BY <3>2 DEF RowCell
    <3> QED
      BY <2>2, <3>1, <3>3
  <2> QED
    BY <2>3, <2>4, <2>5
<1> QED
  BY <1>1, FileInvAlways, PTL

(* With one client at a time no row that wc_save_db reported as written is *)
(* ever lost or renumbered.                                                *)
THEOREM StoredForGood ==
  ASSUME Alone
  PROVE  Spec => []StoredStays
<1>1. FileInv => StoredStays
  BY DEF FileInv
<1> QED
  BY <1>1, FileInvAlways, PTL

(* With one client at a time wc_save_db implements an atomic replacement   *)
(* of the whole table: rename is the step that replaces it, all the steps  *)
(* before and every failure leave it as it was.                            *)
THEOREM SaveImplementsAtomic ==
  ASSUME Alone
  PROVE  Spec => SaveIsAtomic
<1>1. Init => Atomic!Init
  BY DEF Init, Atomic!Init, Loaded
<1>2. ASSUME FileInv, [Next]_fileVars
      PROVE  [Atomic!Next]_<<Loaded(target), view>>
  <2> USE DEF files
  <2>0. /\ TypeOK /\ Handles /\ WholeViews /\ OwnTmp /\ Apart
        /\ \A c \in Clients : phase[c] = "writing" => fd[c] = tmp /\ fd[c] # target
    BY <1>2 DEF FileInv, OwnTmp, Apart
  <2>1. ASSUME NEW c \in Clients, Open(c) PROVE Atomic!Load(c)
    BY <2>1, SameFile DEF Open, Atomic!Load
  <2>2. ASSUME NEW c \in Clients, Bootstrap(c) PROVE Atomic!StartNew(c)
    BY <2>2, SameFile DEF Bootstrap, Atomic!StartNew, Loaded
  <2>3. ASSUME NEW c \in Clients, NEW q \in Questions, AddItem(c, q)
        PROVE  Atomic!AddRow(c, q)
    BY <2>3, SameFile
    DEF AddItem, Atomic!AddRow, NextId, Atomic!NextId, Contains, Atomic!Contains
  <2>4. ASSUME NEW c \in Clients, OpenTmp(c)
        PROVE  Loaded(target)' = Loaded(target) /\ view' = view
    <3>1. PICK i \in IF tmp # None THEN {tmp} ELSE Inodes \ Used :
             data' = [data EXCEPT ![i] = <<>>]
      BY <2>4 DEF OpenTmp
    <3>2. i # target
      BY <2>0, <3>1 DEF Used, Apart
    <3> QED
      BY <2>0, <2>4, <3>1, <3>2, SameFile DEF OpenTmp, TypeOK
  <2>5. ASSUME NEW c \in Clients, Write(c)
        PROVE  Loaded(target)' = Loaded(target) /\ view' = view
    BY <2>0, <2>5, SameFile DEF Write, TypeOK
  <2>6. ASSUME NEW c \in Clients, CloseTmp(c) \/ RenameNothing(c) \/ SaveFails(c)
        PROVE  Loaded(target)' = Loaded(target) /\ view' = view
    BY <2>6, SameFile DEF CloseTmp, RenameNothing, SaveFails
  <2>7. ASSUME NEW c \in Clients, Rename(c) PROVE Atomic!Replace(c)
    <3>1. /\ phase[c] = "written" /\ target' = tmp /\ UNCHANGED <<data, view>>
      BY <2>7 DEF Rename
    <3>2. /\ view[c] \in Tables /\ view[c] # None
          /\ tmp \in Inodes /\ data[tmp] = Image(view[c])
      BY <2>0, <3>1 DEF Handles, WholeViews, OwnTmp, TypeOK
    <3>3. Loaded(tmp) = view[c]
      BY <3>2, ReadBack DEF Tables
    <3>4. Loaded(target)' = view[c]
      BY <3>1, <3>3 DEF Loaded
    <3> QED
      BY <3>1, <3>2, <3>4 DEF Atomic!Replace
  <2>8. ASSUME NEW c \in Clients, Close(c) \/ Kill(c) PROVE Atomic!Leave(c)
    BY <2>8, SameFile DEF Close, Kill, Forget, Atomic!Leave
  <2>9. CASE UNCHANGED fileVars
    BY <2>9, SameFile DEF fileVars
  <2>10. ASSUME NEW c \in Clients,
                \/ Atomic!Load(c) \/ Atomic!StartNew(c) \/ Atomic!Replace(c)
                \/ Atomic!Leave(c) \/ \E q \in Questions : Atomic!AddRow(c, q)
         PROVE  Atomic!Next
    BY <2>10 DEF Atomic!Next
  <2>11. ASSUME Next PROVE Atomic!Next \/ UNCHANGED <<Loaded(target), view>>
    <3>1. PICK c \in Clients :
            \/ Open(c) \/ Bootstrap(c) \/ \E q \in Questions : AddItem(c, q)
            \/ OpenTmp(c) \/ Write(c) \/ CloseTmp(c)
            \/ Rename(c) \/ RenameNothing(c) \/ SaveFails(c)
            \/ Close(c) \/ Kill(c)
      BY <2>11 DEF Next
    <3> QED
      BY <2>1, <2>2, <2>3, <2>4, <2>5, <2>6, <2>7, <2>8, <2>10, <3>1
  <2> QED
    BY <1>2, <2>9, <2>11
<1> QED
  BY <1>1, <1>2, FileInvAlways, PTL DEF Spec, SaveIsAtomic, Atomic!Spec
=============================================================================
