---------------------------- MODULE OtaFromFile ----------------------------
(***************************************************************************)
(* The thread of packages/ota_from_file/ota_from_file.c that runs in the   *)
(* application: it polls for a USB stick with a download or a factory      *)
(* package and for a package left by TFTP on the eMMC, copies what it      *)
(* finds into the download or factory partition, and resets the board.     *)
(*                                                                         *)
(* The files belong to others: a stick is plugged in and pulled out, and   *)
(* the TFTP server grows its file, whenever they like.                     *)
(***************************************************************************)
EXTENDS FalPartition

CONSTANTS
    Images,       \* Images[m]: the files that may turn up at path m, as sequences
    NoFile        \* nothing at a path

UsbMode == {"download", "factory"}
Mode == UsbMode \cup {"tftp"}

ASSUME OtaAssumption ==
    /\ DOMAIN Images = Mode
    /\ \A m \in Mode : Images[m] \subseteq Seq(Cell)
    /\ NoFile \notin Seq(Cell)

VARIABLES
    file,         \* what is at each of ops->path[]
    usb,          \* the storage device ops->devname is registered
    devsta,       \* ops->devsta
    updatesta,    \* ops->updatesta
    opc,          \* where ota_thread_entry is
    mode,         \* the path it is handling
    fd_ok,        \* the open file can still be read
    total,        \* ops->update_file_total_size
    sec,          \* the sector being erased
    cur,          \* ops->update_file_cur_size
    is_reboot     \* a USB package has been stored in this round

otaRam == <<devsta, updatesta, opc, mode, fd_ok, total, sec, cur, is_reboot>>
otaVars == <<file, usb, devsta, updatesta, opc, mode, fd_ok, total, sec, cur,
             is_reboot>>

\* ops->part[]: TFTP packages go to the download partition.
Dest == IF mode = "factory" THEN "factory" ELSE "download"

\* A file size that Dest cannot take, and any smaller one.
AnySize == 0 .. PartLen[Dest] + 1

OtaTypeOK ==
    /\ file \in [Mode -> Seq(Cell) \cup {NoFile}]
    /\ usb \in BOOLEAN
    /\ devsta \in {0, 1}
    /\ updatesta \in {"ReadyToUpdate", "FileNotExist", "FileNotCheck",
                      "FileIsSame", "PartNotExist"}
    /\ opc \in {"poll", "open", "begin", "erase", "data", "end", "reboot"}
    /\ mode \in Mode
    /\ fd_ok \in BOOLEAN
    /\ fd_ok => /\ opc \in {"begin", "erase", "data", "end"}
                /\ file[mode] # NoFile
    /\ ~usb => \A m \in UsbMode : file[m] = NoFile
    /\ total \in Nat /\ sec \in Nat /\ cur \in Nat
    /\ opc \in {"erase", "data", "end"} /\ fd_ok => total \in 2 .. PartLen[Dest]
    /\ is_reboot \in BOOLEAN
---------------------------------------------------------------------------
(***************************************************************************)
(* Routing in ota_thread_entry: download and factory from the stick, then  *)
(* TFTP, then round again.  reb says if the round has stored a package.    *)
(***************************************************************************)
NextPass(reb) ==
    /\ opc' = IF mode = "tftp" THEN "poll"
              ELSE IF mode = "factory" /\ reb THEN "reboot" ELSE "open"
    /\ mode' = CASE mode = "download" -> "factory"
                 [] mode = "factory" /\ ~reb -> "tftp"
                 [] OTHER -> mode

\* Mutant: the file is unlinked but not closed.
UnlinkOnly ==
    /\ file' = IF mode = "tftp" THEN [file EXCEPT !["tftp"] = NoFile] ELSE file
    /\ UNCHANGED fd_ok

\* close(); a TFTP file is unlinked whether it could be stored or not.
CloseFile ==
    /\ fd_ok' = FALSE
    /\ file' = IF mode = "tftp" THEN [file EXCEPT !["tftp"] = NoFile] ELSE file

\* ota_on_begin fails with ops->updatesta = sta; the USB pass overwrites that.
BeginFails(sta) ==
    /\ CloseFile
    /\ NextPass(is_reboot)
    /\ updatesta' = IF mode = "tftp" THEN sta ELSE "PartNotExist"

\* The head of the loop: the stick is noticed to come and to go.
Poll ==
    /\ opc = "poll"
    /\ devsta' = IF usb THEN 1 ELSE 0
    /\ updatesta' = IF devsta = 0 /\ usb THEN "ReadyToUpdate" ELSE updatesta
    /\ opc' = "open"
    /\ IF usb /\ updatesta' = "ReadyToUpdate"
         THEN mode' = "download" /\ is_reboot' = FALSE
         ELSE mode' = "tftp" /\ UNCHANGED is_reboot
    /\ UNCHANGED <<part, faults, file, usb, fd_ok, total, sec, cur>>

OpenFile ==
    /\ opc = "open"
    /\ \/ /\ file[mode] # NoFile
          /\ opc' = "begin"
          /\ fd_ok' = TRUE
          /\ UNCHANGED <<mode, updatesta>>
       \/ /\ file[mode] = NoFile
          /\ NextPass(is_reboot)
          /\ updatesta' = IF mode = "tftp" THEN updatesta ELSE "FileNotExist"
          /\ UNCHANGED fd_ok
    /\ UNCHANGED <<part, faults, file, usb, devsta, total, sec, cur, is_reboot>>

(***************************************************************************)
(* ota_on_begin up to the erase.  The firmware check runs only for a file  *)
(* no longer than the header, which has no body and fails it.  For any     *)
(* other file fw_info is never filled in, and whether it equals the header *)
(* in the partition is up to the stack.  If the stick is gone fstat fails  *)
(* and the size is up to the stack too.                                    *)
(***************************************************************************)
Begin ==
    /\ opc = "begin"
    /\ total' \in IF fd_ok THEN {Len(file[mode])} ELSE AnySize
    /\ cur' = 0
    /\ sec' = 0
    /\ \/ total' <= 1 /\ BeginFails("FileNotCheck")
       \/ total' > PartLen[Dest] /\ BeginFails(updatesta)
       \/ /\ total' \in 2 .. PartLen[Dest]
          /\ \/ BeginFails("FileIsSame")
             \/ opc' = "erase" /\ UNCHANGED <<file, fd_ok, mode, updatesta>>
    /\ UNCHANGED <<part, faults, usb, devsta, is_reboot>>

EraseDest ==
    /\ opc = "erase"
    /\ \E ok \in BOOLEAN :
         /\ Erase(Dest, sec, ok)
         /\ IF ~ok THEN BeginFails(updatesta) /\ UNCHANGED sec
            ELSE /\ \/ /\ sec = LastSector(0, total) \/ GivesUp(Dest)
                       /\ opc' = "data" /\ UNCHANGED sec
                    \/ /\ sec # LastSector(0, total)
                       /\ opc' = "erase" /\ sec' = sec + 1
                 /\ UNCHANGED <<file, fd_ok, mode, updatesta>>
    /\ UNCHANGED <<usb, devsta, total, cur, is_reboot>>

\* Mutant: the cell is not read back.
StoreUnread(c) ==
    \E ok \in BOOLEAN :
      /\ Write(Dest, cur, c, ok)
      /\ IF ok THEN cur' = cur + 1 /\ UNCHANGED opc
               ELSE opc' = "end" /\ UNCHANGED cur

(***************************************************************************)
(* ota_on_data for one cell: program it, read it back, compare.  A read    *)
(* back that fails, reported or not, leaves another block in the buffer.   *)
(***************************************************************************)
StoreCell(c) ==
    \/ \E ok \in BOOLEAN, clobbered \in ClobberedBy(Dest) :
         /\ Write(Dest, cur, c, ok)
         /\ IF ok /\ (clobbered \/ part'[Dest][cur] = c)
              THEN cur' = cur + 1 /\ UNCHANGED opc
              ELSE opc' = "end" /\ UNCHANGED cur
    \/ Fault /\ ProgramCell(Dest, cur, c) /\ opc' = "end" /\ UNCHANGED cur

(***************************************************************************)
(* The write of 2^32 - 1 bytes to on-chip flash from cur on: the buffer is *)
(* all zeros, and zeros can be written over anything; what follows it in   *)
(* memory goes behind, and through the end of download into factory        *)
(* (fal_cfg.c:142-145), until a word reads back different or the memory    *)
(* comes to an end.  It stops soon or late: no package needs what is       *)
(* behind a cell of zeros, and factory has none without its first cell.    *)
(***************************************************************************)
Reach(p) ==
    IF p = Dest THEN {a \in Addr(p) : a > cur}
    ELSE IF p = "factory" /\ p \notin NorParts THEN {0} ELSE {}

Overrun ==
    \E c \in {Zero, Junk}, reached \in {{}, {Dest}, PartName} :
      part' = [p \in PartName |-> [a \in Addr(p) |->
                 IF p = Dest /\ a = cur THEN Zero
                 ELSE IF p \in reached /\ a \in Reach(p) THEN c ELSE part[p][a]]]

(***************************************************************************)
(* read() fails: it returns -1 into an unsigned length, and ota_on_data is *)
(* to write so much.  At offset 0 FAL refuses.  Behind it offset + length  *)
(* wraps round and passes every check: drv_flash_f4.c programs what it     *)
(* finds; the driver for NOR flash counts in an int32, programs nothing,   *)
(* and may say so, else the read back runs over the memory.  (Where the    *)
(* end of the range is computed, as in drv_flash_h7.c, nothing happens.)   *)
(* In any case the write fails in the end, if the board lives to see it.   *)
(***************************************************************************)
ReadError ==
    /\ \/ opc' = "end" /\ UNCHANGED part
       \/ /\ cur > 0
          /\ opc' \in {"end", "reboot"}
          /\ IF Dest \in NorParts THEN UNCHANGED part ELSE Overrun
    /\ UNCHANGED <<faults, cur>>

(***************************************************************************)
(* The programming loop.  The file is read to its end, which need not be   *)
(* where fstat saw it.                                                     *)
(***************************************************************************)
Data ==
    /\ opc = "data"
    /\ IF ~fd_ok THEN ReadError
       ELSE IF cur < Len(file[mode]) /\ InPart(Dest, cur, 1)
         THEN StoreCell(file[mode][cur + 1])
         ELSE opc' = "end" /\ UNCHANGED <<part, faults, cur>>
    /\ UNCHANGED <<file, usb, devsta, updatesta, mode, fd_ok, total, sec, is_reboot>>

\* The package counts as stored if as many bytes were written as fstat saw.
End ==
    /\ opc = "end"
    /\ CloseFile
    /\ IF mode = "tftp" /\ total = cur
         THEN opc' = "reboot" /\ UNCHANGED <<mode, is_reboot>>
         ELSE /\ is_reboot' = (is_reboot \/ (mode # "tftp" /\ total = cur))
              /\ NextPass(is_reboot')
    /\ UNCHANGED <<part, faults, usb, devsta, updatesta, total, sec, cur>>

OtaThread == Poll \/ OpenFile \/ Begin \/ EraseDest \/ Data \/ End
---------------------------------------------------------------------------
(***************************************************************************)
(* The stick and the TFTP server.                                          *)
(***************************************************************************)
Plug ==
    /\ ~usb
    /\ usb' = TRUE
    /\ \E d \in Images["download"] \cup {NoFile}, f \in Images["factory"] \cup {NoFile} :
         file' = [file EXCEPT !["download"] = d, !["factory"] = f]
    /\ UNCHANGED <<part, faults, otaRam>>

\* What is open on the stick cannot be read any more, even from another one.
Unplug ==
    /\ usb
    /\ usb' = FALSE
    /\ file' = [file EXCEPT !["download"] = NoFile, !["factory"] = NoFile]
    /\ fd_ok' = (fd_ok /\ mode = "tftp")
    /\ UNCHANGED <<part, faults, devsta, updatesta, opc, mode, total, sec, cur,
                   is_reboot>>

TftpCreate ==
    /\ Images["tftp"] # {}
    /\ file["tftp"] = NoFile
    /\ file' = [file EXCEPT !["tftp"] = <<>>]
    /\ UNCHANGED <<part, faults, usb, otaRam>>

TftpWrite ==
    /\ file["tftp"] # NoFile
    /\ \E s \in Images["tftp"] :
         /\ Len(s) > Len(file["tftp"])
         /\ SubSeq(s, 1, Len(file["tftp"])) = file["tftp"]
         /\ file' = [file EXCEPT !["tftp"] = SubSeq(s, 1, Len(file["tftp"]) + 1)]
    /\ UNCHANGED <<part, faults, usb, otaRam>>

OtaWorld == Plug \/ Unplug \/ TftpCreate \/ TftpWrite
---------------------------------------------------------------------------
\* The struct ota_from_file is static: all zero when the application starts.
OtaInit ==
    /\ devsta = 0
    /\ updatesta = "ReadyToUpdate"
    /\ opc = "poll"
    /\ mode = "download"
    /\ fd_ok = FALSE
    /\ total = 0 /\ sec = 0 /\ cur = 0
    /\ is_reboot = FALSE
    /\ file = [m \in Mode |-> NoFile]
    /\ usb = FALSE

\* A reset wipes the RAM and leaves the stick and the eMMC alone.
OtaReset ==
    /\ devsta' = 0
    /\ updatesta' = "ReadyToUpdate"
    /\ opc' = "poll"
    /\ mode' = "download"
    /\ fd_ok' = FALSE
    /\ total' = 0 /\ sec' = 0 /\ cur' = 0
    /\ is_reboot' = FALSE
    /\ UNCHANGED <<file, usb>>

\* What a power loss can leave half done, as for the bootloader.
OtaInFlight ==
    CASE opc = "erase" -> <<Dest, SectorCellsOf(Dest, sec)>>
      [] opc = "data"  -> <<Dest, {cur}>>
      [] OTHER         -> <<Dest, {}>>
---------------------------------------------------------------------------
(***************************************************************************)
(* ota_on_data compares each block after writing it: up to cur the         *)
(* partition holds the file.                                               *)
(***************************************************************************)
ReadBackSees ==
    opc \in {"data", "end"} /\ fd_ok =>
      /\ cur <= Len(file[mode])
      /\ \A i \in 0 .. cur - 1 : part[Dest][i] = file[mode][i + 1]

(***************************************************************************)
(* The comparison does what it is for, whatever the flash, the stick and   *)
(* the uploader do, on every flash but the NOR flash.                      *)
(***************************************************************************)
StoredIsRead == Dest \notin NorParts => ReadBackSees
=============================================================================
