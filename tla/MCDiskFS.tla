------------------------------ MODULE MCDiskFS ------------------------------
(***************************************************************************)
(* Small images of diskfs for TLC.                                         *)
(***************************************************************************)
EXTENDS DiskFS

FileInode(parent, name, size, first) ==
  [type |-> FILE, parent |-> parent, name |-> name, size |-> size,
   first_sector |-> first, sector_count |-> SectorsForSize(size)]

DirInode(parent, name) == [ZeroInode EXCEPT !.type = DIR, !.parent = parent, !.name = name]

Image(list) == [i \in InodeIds |-> IF i < Len(list) THEN list[i + 1] ELSE ZeroInode]

Fill(size, byte) == [b \in 1 .. size |-> byte]

(* The root and a file "a" of one byte. *)
FlatInodes == Image(<<DirInode(0, ""), FileInode(0, "a", 1, DATA_START)>>)
FlatData == [s \in DataSectors |-> Chunk(IF s = DATA_START THEN <<7>> ELSE <<>>, 0)]
TwoPaths == {<<"a">>, <<"b">>}
ThreePaths == {<<"a">>, <<"b">>, <<"c">>}
FlatBuffers == {<<>>, <<1>>, <<2, 2>>}

(* A directory "d" with a file "a" in it, whose inode comes after that of  *)
(* a file "a" in the root.  Sectors of two bytes.                          *)
TreeInodes ==
  Image(<<DirInode(0, ""), FileInode(0, "a", 3, DATA_START), DirInode(0, "d"),
          FileInode(2, "a", 2, DATA_START + 2)>>)
TreeData ==
  [s \in DataSectors |-> IF s = DATA_START THEN <<7, 7>>
                         ELSE IF s = DATA_START + 1 THEN <<7, 0>>
                         ELSE IF s = DATA_START + 2 THEN <<8, 8>> ELSE <<0, 0>>]
TreePaths == {<<"a">>, <<"b">>, <<"d", "a">>, <<"d", "b">>, <<"b", "a">>}
TreeBuffers == {<<>>, <<1>>, <<2, 2, 2>>}

(* The same image, and calls that name the directory as a file. *)
ClashPaths == {<<"a">>, <<"d">>, <<"d", "a">>}

(* A component that path_part refuses, below a file. *)
LongPaths == {<<"a">>, <<"long">>, <<"a", "long">>, <<"b", "long">>}
==============================================================================
