------------------------------ MODULE Notepad -------------------------------
(***************************************************************************)
(* Notepad (kernel/gui/apps/notepad.cpp) on a file store that the Terminal *)
(* changes too.  The store is the one FileStore promises: a call changes a *)
(* file completely or fails.  The cursor is always at the end of the text, *)
(* for no key moves it.                                                    *)
(***************************************************************************)
EXTENDS Naturals, Sequences, SequencesExt

CONSTANTS BUFFER_SIZE, Chars,
          Paths,        \* paths of the store
          Cut(_),       \* a path as path_[32] holds it
          Files         \* contents that others write

NoFile == <<"no file">>
Untitled == "untitled.txt"

VARIABLES store, opened, path, buffer, dirty, last_save_ok,
          origin,       \* history: the file the text came from or went to, or ""
          touched       \* history: another program changed a file since
vars == <<store, opened, path, buffer, dirty, last_save_ok, origin, touched>>

Init ==
  /\ store \in [Paths -> Files \cup {NoFile}]
  /\ opened = FALSE /\ path = Untitled /\ buffer = <<>> /\ dirty = FALSE /\ last_save_ok = FALSE
  /\ origin = "" /\ touched = FALSE

(* open_window: a new text, unless the window is open. *)
OpenWindow ==
  /\ ~ opened /\ opened' = TRUE
  /\ path' = Untitled /\ buffer' = <<>> /\ dirty' = FALSE /\ last_save_ok' = FALSE
  /\ origin' = "" /\ touched' = FALSE
  /\ UNCHANGED store

(* open_file: the old text is dropped, changed or not. *)
OpenFile(file) ==
  /\ store[file] # NoFile /\ Len(store[file]) =< BUFFER_SIZE
  /\ path' = Cut(file) /\ buffer' = store[file]
  /\ dirty' = FALSE /\ last_save_ok' = FALSE
  /\ opened' = TRUE /\ origin' = file /\ touched' = FALSE
  /\ UNCHANGED store

(* close keeps the text, which the next opening replaces. *)
Close == opened /\ opened' = FALSE /\ UNCHANGED <<store, path, buffer, dirty, last_save_ok, origin, touched>>

InsertChar(c) ==
  /\ opened /\ Len(buffer) < BUFFER_SIZE
  /\ buffer' = Append(buffer, c) /\ dirty' = TRUE
  /\ UNCHANGED <<store, opened, path, last_save_ok, origin, touched>>

Backspace ==
  /\ opened /\ buffer # <<>> /\ buffer' = Front(buffer) /\ dirty' = TRUE
  /\ UNCHANGED <<store, opened, path, last_save_ok, origin, touched>>

(* Mutant: the text counts as saved when the write failed. *)
SaveAlways ==
  /\ opened /\ dirty' = FALSE
  /\ \/ /\ store' = [store EXCEPT ![path] = buffer] /\ last_save_ok' = TRUE /\ touched' = FALSE
        /\ origin' = IF origin = "" THEN path ELSE origin
     \/ last_save_ok' = FALSE /\ UNCHANGED <<store, origin, touched>>
  /\ UNCHANGED <<opened, path, buffer>>

(* save: diskfs_write_file writes the file or fails. *)
Save ==
  /\ opened
  /\ \/ /\ store' = [store EXCEPT ![path] = buffer] /\ last_save_ok' = TRUE /\ dirty' = FALSE
        /\ touched' = FALSE /\ origin' = IF origin = "" THEN path ELSE origin
     \/ last_save_ok' = FALSE /\ UNCHANGED <<store, dirty, origin, touched>>
  /\ UNCHANGED <<opened, path, buffer>>

(* write and delete of the Terminal. *)
Other ==
  /\ \E file \in Paths, f \in Files \cup {NoFile} : store' = [store EXCEPT ![file] = f]
  /\ touched' = TRUE
  /\ UNCHANGED <<opened, path, buffer, dirty, last_save_ok, origin>>

Next ==
  \/ OpenWindow \/ Close \/ Backspace \/ Save \/ Other
  \/ \E file \in Paths : OpenFile(file)
  \/ \E c \in Chars : InsertChar(c)

Spec == Init /\ [][Next]_vars

-----------------------------------------------------------------------------
(* README.md:67-68, "Notepad edits in-memory text and persists changes to  *)
(* diskfs with Ctrl+S": a text that is not shown as modified is the        *)
(* content of the file that was opened, if the path fits into path_ and no *)
(* other program changed a file in the meantime: whichever saves failed,   *)
(* and whatever was opened, closed, typed and taken back before.           *)
CleanIsStored ==
  opened /\ ~ dirty /\ ~ touched /\ origin # "" /\ Cut(origin) = origin => store[origin] = buffer
=============================================================================
