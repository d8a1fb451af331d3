------------------------------ MODULE FileStore ------------------------------
(***************************************************************************)
(* What diskfs promises to the shell, the GUI and the user programs: a map *)
(* from paths to file contents that changes only as asked.  A call is      *)
(* accepted, and later either takes effect as a whole and returns TRUE or  *)
(* has no effect and returns FALSE.                                        *)
(***************************************************************************)
EXTENDS Integers, Sequences

CONSTANTS
  Paths,
  NoFile,        \* what a path without a file reads as
  NoRequest      \* no call in progress

VARIABLES
  files,         \* [Paths -> contents or NoFile]
  request,       \* [call, path, to, buffer]
  ret

storeVars == <<files, request, ret>>

(* The map after the request, for each kind of call. *)
Effect(r) ==
  CASE r.call = "write" -> [files EXCEPT ![r.path] = r.buffer]
    [] r.call = "delete" -> [files EXCEPT ![r.path] = NoFile]
    [] r.call = "rename" -> [files EXCEPT ![r.path] = NoFile, ![r.to] = files[r.path]]

(* A delete or a rename needs its file, and a rename a free target. *)
Sensible(r) ==
  /\ r.call \in {"write", "delete", "rename"}
  /\ r.path \in Paths /\ r.to \in Paths
  /\ r.call # "write" => files[r.path] # NoFile
  /\ r.call = "rename" => files[r.to] = NoFile

Accept ==
  /\ request = NoRequest
  /\ Sensible(request')
  /\ UNCHANGED <<files, ret>>

Succeed ==
  /\ request # NoRequest
  /\ files' = Effect(request)
  /\ request' = NoRequest
  /\ ret' = TRUE

Fail ==
  /\ request # NoRequest
  /\ request' = NoRequest
  /\ ret' = FALSE
  /\ UNCHANGED files

(* A call that has nothing to do, or that is refused at once. *)
Answer ==
  /\ request = NoRequest
  /\ ret' \in BOOLEAN
  /\ UNCHANGED <<files, request>>

FileStoreInit == request = NoRequest

FileStoreNext == Accept \/ Succeed \/ Fail \/ Answer

FileStoreSpec == FileStoreInit /\ [][FileStoreNext]_storeVars
==============================================================================
