--------------------------------- MODULE Ata ---------------------------------
(***************************************************************************)
(* The disk driver, kernel/drivers/storage/ata.c, and the drive it polls.  *)
(*                                                                         *)
(* The drive shows one phase of its status at a time: BSY, DRQ, ERR or     *)
(* none, and takes a command only without BSY and DRQ.  The 256 words of a *)
(* sector are one transfer.  Between two accesses of the driver the drive  *)
(* may do any number of steps.                                             *)
(***************************************************************************)
EXTENDS Naturals

CONSTANTS Lba, Data,
          POLLS        \* reads of the status before a wait is given up: 100000

VARIABLES drive,       \* its phase, the command it works on and the sector it was given
          disk, pc, call, polls,
          result,      \* what the last call returned
          late,        \* history: a wait was given up while the drive was busy
          missed       \* history: the drive had failed the write before the flush
vars == <<drive, disk, pc, call, polls, result, late, missed>>

Init ==
  /\ disk \in [Lba -> Data] /\ pc = "idle" /\ polls = 0 /\ late = FALSE /\ missed = FALSE
  /\ \E l \in Lba, d \in Data :
       /\ drive = [phase |-> "ready", command |-> "none", lba |-> l, data |-> d]
       /\ call = [kind |-> "read", lba |-> l, data |-> d]
       /\ result = [ok |-> FALSE, data |-> d]

(* A command reaches a drive: it clears an error, and is ignored by one    *)
(* that is busy or waits for data.                                         *)
Command(c, l) ==
  IF drive.phase \in {"ready", "error"}
  THEN [drive EXCEPT !.phase = "busy", !.command = c, !.lba = l] ELSE drive

-----------------------------------------------------------------------------
Busy == drive.phase = "busy" /\ UNCHANGED <<pc, call, polls, result, late, missed>>

(* The drive has read a sector, or is ready to be given one. *)
DriveAsks ==
  /\ Busy /\ drive.command \in {"read", "write"}
  /\ drive' = [drive EXCEPT !.phase = "drq"] /\ UNCHANGED disk

(* The drive has stored what it was given, or flushed. *)
DriveDone ==
  /\ Busy /\ drive.command \in {"store", "flush"}
  /\ drive' = [drive EXCEPT !.phase = "ready"]
  /\ disk' = IF drive.command = "store" THEN [disk EXCEPT ![drive.lba] = drive.data] ELSE disk

DriveFails == Busy /\ drive' = [drive EXCEPT !.phase = "error"] /\ UNCHANGED disk

-----------------------------------------------------------------------------
(* ata_read_sector and ata_write_sector up to wait_for_drq. *)
Issue(kind, l, d) ==
  /\ pc = "idle" /\ pc' = "drq" /\ polls' = 0
  /\ call' = [kind |-> kind, lba |-> l, data |-> d]
  /\ drive' = Command(kind, l) /\ missed' = FALSE
  /\ UNCHANGED <<disk, result, late>>

Return(ok, d) == pc' = "idle" /\ result' = [ok |-> ok, data |-> d]

GiveUp ==
  /\ polls + 1 = POLLS /\ late' = (late \/ drive.phase = "busy")
  /\ Return(FALSE, call.data) /\ UNCHANGED <<drive, disk, call, polls, missed>>

PollAgain ==
  /\ polls + 1 < POLLS /\ polls' = polls + 1
  /\ UNCHANGED <<drive, disk, pc, call, result, late, missed>>

PollFails ==
  /\ drive.phase = "error"
  /\ Return(FALSE, call.data) /\ UNCHANGED <<drive, disk, call, polls, late, missed>>

(* One turn of wait_for_drq. *)
WaitForDrq ==
  /\ pc = "drq"
  /\ \/ PollFails
     \/ drive.phase = "drq" /\ pc' = "transfer" /\ UNCHANGED <<drive, disk, call, polls, result, late, missed>>
     \/ drive.phase \in {"busy", "ready"} /\ (PollAgain \/ GiveUp)

(* The words of a sector.  A drive that does not wait for this transfer    *)
(* gives anything and takes nothing.                                       *)
Expected == drive.phase = "drq" /\ drive.command = call.kind

Transfer ==
  /\ pc = "transfer" /\ UNCHANGED <<disk, call, polls, late, missed>>
  /\ \/ /\ call.kind = "read"
        /\ \E d \in Data : (Expected => d = disk[drive.lba]) /\ Return(TRUE, d)
        /\ drive' = IF Expected THEN [drive EXCEPT !.phase = "ready"] ELSE drive
     \/ /\ call.kind = "write" /\ pc' = "flush" /\ UNCHANGED result
        /\ drive' = IF Expected
                    THEN [drive EXCEPT !.phase = "busy", !.command = "store", !.data = call.data]
                    ELSE drive

(* ATA_CMD_CACHE_FLUSH follows the last word at once. *)
Flush ==
  /\ pc = "flush" /\ pc' = "stored" /\ polls' = 0
  /\ drive' = Command("flush", call.lba) /\ missed' = (drive.phase = "error")
  /\ UNCHANGED <<disk, call, result, late>>

(* Mutant: ERR is not looked at. *)
WaitStoredUnchecked ==
  /\ pc = "stored"
  /\ \/ drive.phase # "busy" /\ Return(TRUE, call.data) /\ UNCHANGED <<drive, disk, call, polls, late, missed>>
     \/ drive.phase = "busy" /\ (PollAgain \/ GiveUp)

(* One turn of the loop at the end of ata_write_sector. *)
WaitStored ==
  /\ pc = "stored"
  /\ \/ PollFails
     \/ drive.phase \in {"ready", "drq"} /\ Return(TRUE, call.data) /\ UNCHANGED <<drive, disk, call, polls, late, missed>>
     \/ drive.phase = "busy" /\ (PollAgain \/ GiveUp)

Driver == WaitForDrq \/ Transfer \/ Flush \/ WaitStored
Next ==
  \/ \E l \in Lba, d \in Data : Issue("read", l, d) \/ Issue("write", l, d)
  \/ Driver \/ DriveAsks \/ DriveDone \/ DriveFails
Spec == Init /\ [][Next]_vars

-----------------------------------------------------------------------------
(* README.md:32, "ATA PIO sector read/write": as long as no wait was given *)
(* up on a busy drive, a call that reports success did what it was asked,  *)
(* however the drive's steps fall between the driver's.  A read returned   *)
(* that sector, and a write stored it, unless the drive had failed it      *)
(* before the flush command, which clears the error.                       *)
TrueMeansDone ==
  pc = "idle" /\ result.ok /\ ~ late =>
    IF call.kind = "read" THEN result.data = disk[call.lba]
    ELSE missed \/ disk[call.lba] = call.data
=============================================================================
