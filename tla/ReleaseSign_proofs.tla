------------------------- MODULE ReleaseSign_proofs -------------------------
(***************************************************************************)
(* SignedMeansReleased for every set of packages and every geometry that   *)
(* put the sign in a sector the package needs, and for USB files that are  *)
(* as long as their header says, as long as no failing read has written    *)
(* to download.                                                            *)
(*                                                                         *)
(* The argument: while a file is stored, the part of its sectors behind    *)
(* the current position stays erased (ErasedInv), so the header written is *)
(* the file's (HeadInv), and the moment the package becomes valid its      *)
(* sign's cell is still erased; and a sign is written only for the package *)
(* in download that has just been verified.                                *)
(***************************************************************************)
EXTENDS FirmwareUpgrade_proofs

\* A sign behind a whole package is the one of the last release.
HonestSign ==
    faults = 0 /\ ~spilled =>
      \A f \in Firmware : Holds("download", f) /\ Signed("download", f) => released = f

\* The files are the ones of Images, and total is the open one's length.
FilesInv ==
    /\ file["tftp"] = NoFile
    /\ file["download"] \in Images["download"] \cup {NoFile}
    /\ opc \in {"erase", "data"} /\ fd_ok => total = Len(file[mode])

ErasedInv ==
    faults = 0 /\ mode = "download" =>
      /\ opc = "erase" =>
           \A a \in Addr("download") : SectorOf(a) < sec => part["download"][a] = Erased
      /\ opc = "data" =>
           \A a \in Addr("download") :
             a >= cur /\ SectorOf(a) <= LastSector(0, total) => part["download"][a] = Erased

HeadInv ==
    /\ opc = "erase" => cur = 0
    /\ faults = 0 /\ mode = "download" /\ opc = "data" /\ fd_ok /\ cur > 0 =>
         part["download"][0] = file["download"][1]

SigningInv == bpc = "sign" => stage = "release" /\ released = fw_info

SignInv == HonestSign /\ FilesInv /\ ErasedInv /\ HeadInv /\ SigningInv

LEMMA SignInit == Init => SignInv
<1> SUFFICES ASSUME Init PROVE SignInv
  OBVIOUS
<1>1. part["download"][0] = Erased
  <2>1. part["download"] = Fresh("download", <<>>)
    BY DEF Init, PartName
  <2>2. 0 \in Addr("download")
    BY PartLens DEF Addr, PartName
  <2> QED
    BY <2>1, <2>2 DEF Fresh
<1>2. HonestSign
  BY <1>1, CellsDiffer DEF HonestSign, Holds
<1>3. FilesInv /\ ErasedInv /\ HeadInv /\ SigningInv
  BY DEF Init, BootInit, OtaInit, FilesInv, ErasedInv, HeadInv, SigningInv, Mode, UsbMode
<1> QED
  BY <1>2, <1>3 DEF SignInv

\* A fault is never undone.
LEMMA FaultsGrow ==
    ASSUME TypeInv, [Next]_vars
    PROVE  faults \in Nat /\ (faults' = 0 => faults = 0)
<1>1. faults \in Nat
  BY GeometryAssumption DEF TypeInv, TypeOK, PartTypeOK, GeometryAssumption
<1>2. Fault => faults' # 0
  BY <1>1 DEF Fault
<1>3. ASSUME NEW p, NEW s, NEW ok, Erase(p, s, ok), faults' = 0
      PROVE  faults = 0
  BY <1>2, <1>3 DEF Erase
<1>4. ASSUME NEW p, NEW a, NEW c, NEW ok, Write(p, a, c, ok), faults' = 0
      PROVE  faults = 0
  BY <1>2, <1>4 DEF Write
<1>5. /\ ReadFails => faults' # 0
      /\ \A q : ReadsStale(q) => faults' # 0
      /\ \A l : SignUnread(l) => faults' # 0
  BY <1>2 DEF ReadFails, ReadsStale, SignUnread
<1>6. ASSUME BootNext, faults' = 0
      PROVE  faults = 0
  <2>1. CASE \/ Start \/ CheckPasses \/ CheckMisled \/ CheckFails \/ StartRelease
             \/ VerifyPasses \/ VerifyFails \/ Jump
    BY <1>5, <1>6, <2>1 DEF Start, CheckPasses, CheckMisled, CheckFails, StartRelease,
       VerifyPasses, VerifyFails, Jump
  <2>2. CASE \/ EraseApp \/ EraseTail \/ CopyCell \/ CopyMisled \/ WriteInfo \/ WriteSign
    BY <1>3, <1>4, <1>5, <1>6, <2>2 DEF EraseApp, EraseTail, CopyCell, CopyMisled, WriteInfo,
       WriteSign
  <2> QED
    BY <1>6, <2>1, <2>2 DEF BootNext
<1>7. ASSUME OtaThread, faults' = 0
      PROVE  faults = 0
  BY <1>2, <1>3, <1>4, <1>7
     DEF OtaThread, Poll, OpenFile, Begin, EraseDest, Data, StoreCell, ReadError, End
<1>8. OtaWorld => faults' = faults
  BY OtaWorldType DEF TypeInv, TypeOK
<1> QED
  BY <1>1, <1>6, <1>7, <1>8 DEF Next, Boot, App, Reboot, PowerLoss, World, vars
\* Without a fault the bootloader is not misled by what it could not read.
LEMMA NotMisled ==
    ASSUME PartTypeOK, faults' = 0
    PROVE  /\ ~ReadFails /\ ~CheckMisled /\ ~CopyMisled
           /\ \A l : ~SignUnread(l)
BY FaultProps DEF ReadFails, CheckMisled, CopyMisled, ReadsStale, SignUnread

\* Without a fault a cell that counts as stored has been written.
LEMMA StoredClean ==
    ASSUME PartTypeOK, faults' = 0, NEW c, StoreCell(c)
    PROVE  \E ok \in BOOLEAN : Write(Dest, cur, c, ok)
BY FaultProps DEF StoreCell

---------------------------------------------------------------------------
(***************************************************************************)
(* The files.                                                              *)
(***************************************************************************)
LEMMA FilesStep ==
    ASSUME WholeFiles, TypeInv, FilesInv, [Next]_vars
    PROVE  FilesInv'
<1> USE DEF TypeInv, TypeOK, FilesInv
<1>1. CASE Boot
  BY <1>1 DEF Boot, otaVars
<1>2. CASE App
  <2>0. OtaThread /\ mode \in Mode /\ DOMAIN file = Mode
    BY <1>2 DEF App, OtaTypeOK
  <2>1. ASSUME CloseFile, opc' \notin {"erase", "data"}
        PROVE  FilesInv'
    BY <2>0, <2>1 DEF CloseFile, Mode, UsbMode
  <2>2. ASSUME NEW sta, BeginFails(sta)
        PROVE  FilesInv'
    BY <2>1, <2>2 DEF BeginFails, NextPass
  <2>3. CASE Poll \/ OpenFile
    BY <2>3 DEF Poll, OpenFile, NextPass
  <2>4. CASE Begin
    BY <2>2, <2>4 DEF Begin
  <2>5. CASE EraseDest
    BY <2>2, <2>5 DEF EraseDest
  <2>6. CASE Data
    BY <2>6 DEF Data
  <2>7. CASE End
    BY <2>1, <2>7 DEF End, NextPass
  <2> QED
    BY <2>0, <2>3, <2>4, <2>5, <2>6, <2>7 DEF OtaThread
<1>3. CASE Reboot \/ PowerLoss
  BY <1>3 DEF Reboot, PowerLoss, OtaReset
<1>4. CASE World
  <2>1. DOMAIN file = Mode /\ (~usb => ~fd_ok)
    BY DEF OtaTypeOK, Mode
  <2>2. CASE Plug
    BY <2>1, <2>2 DEF Plug, otaRam, Mode, UsbMode
  <2>3. CASE Unplug
    <3>1. ~fd_ok'
      BY <2>3 DEF Unplug, OtaTypeOK
    <3> QED
      BY <2>1, <2>3, <3>1 DEF Unplug, Mode, UsbMode
  <2>4. CASE TftpCreate \/ TftpWrite
    BY <2>4 DEF TftpCreate, TftpWrite, WholeFiles
  <2> QED
    BY <1>4, <2>2, <2>3, <2>4 DEF World, OtaWorld
<1>5. CASE UNCHANGED vars
  BY <1>5 DEF vars, otaVars
<1> QED
  BY <1>1, <1>2, <1>3, <1>4, <1>5 DEF Next
---------------------------------------------------------------------------
(***************************************************************************)
(* What is erased.                                                         *)
(***************************************************************************)
LEMMA ErasedStep ==
    ASSUME TypeInv, ErasedInv, [Next]_vars
    PROVE  ErasedInv'
<1> USE DEF TypeInv, TypeOK
<1>0. /\ \A a \in Addr("download") : a \in Nat /\ SectorOf(a) \in Nat
      /\ "download" \in PartName
      /\ faults' = 0 => faults = 0
  BY SectorProps, PartLens, FaultsGrow DEF Addr, PartName
<1>1. ASSUME opc' \notin {"erase", "data"}
      PROVE  ErasedInv'
  BY <1>1 DEF ErasedInv
<1>2. ASSUME NEW sta, BeginFails(sta)
      PROVE  ErasedInv'
  BY <1>1, <1>2 DEF BeginFails, NextPass
<1>3. CASE Poll \/ OpenFile \/ End
  BY <1>1, <1>3 DEF Poll, OpenFile, End, NextPass
<1>4. CASE Begin
  <2>1. ASSUME opc' = "erase"
        PROVE  ErasedInv'
    BY <1>0, <1>4, <2>1 DEF Begin, ErasedInv
  <2> QED
    BY <1>2, <1>4, <2>1 DEF Begin
<1>5. CASE EraseDest
  <2>1. ASSUME opc' \in {"erase", "data"}, faults' = 0, mode' = "download"
        PROVE  /\ opc' = "erase" =>
                    \A a \in Addr("download") : SectorOf(a) < sec' => part'["download"][a] = Erased
               /\ opc' = "data" =>
                    \A a \in Addr("download") :
                      a >= cur' /\ SectorOf(a) <= LastSector(0, total)' => part'["download"][a] = Erased
    <3>1. PICK ok \in BOOLEAN :
             /\ Erase(Dest, sec, ok)
             /\ IF ~ok THEN BeginFails(updatesta) /\ UNCHANGED sec
                ELSE /\ \/ /\ sec = LastSector(0, total) \/ GivesUp(Dest)
                           /\ opc' = "data" /\ UNCHANGED sec
                        \/ /\ sec # LastSector(0, total)
                           /\ opc' = "erase" /\ sec' = sec + 1
                     /\ UNCHANGED <<file, fd_ok, mode, updatesta>>
      BY <1>5 DEF EraseDest
    <3>2. ok
      BY <2>1, <3>1 DEF BeginFails, NextPass
    <3>3. /\ mode = "download" /\ Dest = "download" /\ faults = 0 /\ sec \in Nat
          /\ UNCHANGED total /\ ~GivesUp(Dest)
      BY <1>0, <1>5, <2>1, <3>1, <3>2 DEF EraseDest, Dest, OtaTypeOK, GivesUp
    <3>4. /\ \A a \in Addr("download") : part'["download"][a] \in {part["download"][a], Erased, Junk}
          /\ \A a \in Addr("download") : SectorOf(a) # sec => part'["download"][a] = part["download"][a]
          /\ \A a \in Addr("download") : SectorOf(a) = sec => part'["download"][a] = Erased
      BY <1>0, <2>1, <3>1, <3>3, EraseProps
    <3>5. \A a \in Addr("download") : SectorOf(a) < sec => part["download"][a] = Erased
      BY <1>5, <3>3 DEF ErasedInv, EraseDest
    <3>6. \A a \in Addr("download") : SectorOf(a) <= sec => part'["download"][a] = Erased
      BY <1>0, <3>3, <3>4, <3>5
    <3>7. CASE sec = LastSector(0, total)
      <4>1. opc' = "data"
        BY <3>1, <3>2, <3>3, <3>7
      <4>2. LastSector(0, total)' = sec
        BY <3>3, <3>7 DEF LastSector
      <4> QED
        BY <3>6, <4>1, <4>2
    <3>8. CASE sec # LastSector(0, total)
      <4>1. opc' = "erase" /\ sec' = sec + 1
        BY <3>1, <3>2, <3>3, <3>8
      <4> QED
        BY <1>0, <3>3, <3>6, <4>1
    <3> QED
      BY <3>7, <3>8
  <2> QED
    BY <1>1, <2>1 DEF ErasedInv
<1>6. CASE Data
  <2>1. ASSUME faults' = 0, mode' = "download", opc' = "data"
        PROVE  \A a \in Addr("download") :
                 a >= cur' /\ SectorOf(a) <= LastSector(0, total)' => part'["download"][a] = Erased
    <3>1. fd_ok /\ cur < Len(file[mode]) /\ InPart(Dest, cur, 1) /\ StoreCell(file[mode][cur + 1])
      BY <1>6, <2>1 DEF Data, ReadError
    <3>2. mode = "download" /\ Dest = "download" /\ faults = 0 /\ UNCHANGED total /\ opc = "data"
      BY <1>0, <1>6, <2>1 DEF Data, Dest
    <3>3. file[mode] \in Seq(Cell) /\ cur \in Nat /\ PartLen[Dest] \in Nat
      BY <3>1, DestPart, PartLens DEF OtaTypeOK
    <3>4. file[mode][cur + 1] \in Cell /\ cur \in Addr(Dest)
      BY <3>1, <3>3, ElementOfSeq, LenProperties DEF InPart, Addr
    <3>5. cur' = cur + 1
      BY <2>1, <3>1 DEF StoreCell
    <3>6. \A b \in Addr("download") : b # cur => part'["download"][b] = part["download"][b]
      BY <1>0, <2>1, <3>1, <3>2, <3>4, WriteProps, StoredClean
    <3>7. LastSector(0, total)' = LastSector(0, total)
      BY <3>2 DEF LastSector
    <3>8. \A a \in Addr("download") : a >= cur' => a # cur /\ a >= cur
      BY <1>0, <3>3, <3>5
    <3> QED
      BY <3>2, <3>6, <3>7, <3>8 DEF ErasedInv
  <2>2. opc' \in {"data", "end", "reboot"}
    BY <1>6 DEF Data, StoreCell, ReadError
  <2> QED
    BY <2>1, <2>2 DEF ErasedInv
<1>7. CASE App
  BY <1>3, <1>4, <1>5, <1>6, <1>7 DEF App, OtaThread
<1>8. CASE Boot
  BY <1>1, <1>8 DEF Boot, otaVars, BootBounds
<1>9. CASE Reboot \/ PowerLoss
  BY <1>1, <1>9 DEF Reboot, PowerLoss, OtaReset
<1>10. CASE World
  BY <1>0, <1>10, OtaWorldType DEF World, OtaWorld, Plug, Unplug, TftpCreate, TftpWrite, otaRam,
     ErasedInv, LastSector
<1>11. CASE UNCHANGED vars
  BY <1>11 DEF vars, otaVars, ErasedInv, LastSector
<1> QED
  BY <1>7, <1>8, <1>9, <1>10, <1>11 DEF Next
\* Whatever is erased, its first sector is.
LEMMA FirstSector ==
    ASSUME NEW n \in Nat \ {0}
    PROVE  SectorOf(0) <= LastSector(0, n)
<1>1. 0 \in Nat /\ n - 1 \in Nat /\ 0 <= n - 1 /\ 0 + n - 1 = n - 1
  OBVIOUS
<1> QED
  BY <1>1, SectorProps DEF LastSector

\* Cell 0 is erased when the header is written there, and not written again.
LEMMA HeadStep ==
    ASSUME TypeInv, ErasedInv, HeadInv, [Next]_vars
    PROVE  HeadInv'
<1> USE DEF TypeInv, TypeOK
<1>0. /\ "download" \in PartName /\ 0 \in Addr("download")
      /\ faults' = 0 => faults = 0
  BY PartLens, FaultsGrow DEF Addr, PartName
<1>1. ASSUME opc' \notin {"erase", "data"} \/ cur' = 0
      PROVE  HeadInv'
  BY <1>1 DEF HeadInv
<1>2. ASSUME UNCHANGED <<part, mode, opc, cur>>, fd_ok' => fd_ok,
             fd_ok' /\ mode = "download" => file'["download"] = file["download"]
      PROVE  HeadInv'
  BY <1>0, <1>2 DEF HeadInv
<1>3. CASE App
  <2>1. CASE Poll \/ OpenFile \/ Begin \/ End
    BY <1>1, <2>1 DEF Poll, OpenFile, Begin, End, BeginFails, NextPass
  <2>2. CASE EraseDest
    BY <1>1, <2>2 DEF EraseDest, BeginFails, NextPass, HeadInv
  <2>3. CASE Data
    <3> SUFFICES ASSUME faults' = 0, mode' = "download", opc' = "data", fd_ok', cur' > 0
                 PROVE  part'["download"][0] = file'["download"][1]
      BY <2>3 DEF HeadInv, Data, StoreCell, ReadError
    <3>1. /\ opc = "data" /\ mode = "download" /\ Dest = "download" /\ fd_ok /\ file' = file
          /\ cur < Len(file[mode]) /\ InPart(Dest, cur, 1) /\ StoreCell(file[mode][cur + 1])
      BY <2>3 DEF Data, Dest
    <3>6. PICK ok \in BOOLEAN : Write(Dest, cur, file[mode][cur + 1], ok)
      BY <3>1, StoredClean
    <3>2. file[mode] \in Seq(Cell) /\ cur \in Nat /\ PartLen[Dest] \in Nat
      BY <3>1, DestPart, PartLens DEF OtaTypeOK
    <3>3. file[mode][cur + 1] \in Cell /\ cur \in Addr(Dest)
      BY <3>1, <3>2, ElementOfSeq, LenProperties DEF InPart, Addr
    <3>4. CASE cur = 0
      <4>1. total \in Nat \ {0, 1}
        BY <3>1, <3>2 DEF OtaTypeOK
      <4>2. part["download"][0] = Erased
        BY <1>0, <3>1, <3>4, <4>1, FirstSector DEF ErasedInv
      <4>3. part'["download"][0] = Programmed(Erased, file[mode][1])
        BY <1>0, <3>1, <3>3, <3>4, <3>6, <4>2, WriteProps
      <4> QED
        BY <3>1, <4>3 DEF Programmed
    <3>5. CASE cur # 0
      <4>1. part'["download"][0] = part["download"][0]
        BY <1>0, <3>1, <3>3, <3>5, <3>6, WriteProps
      <4> QED
        BY <1>0, <3>1, <3>2, <3>5, <4>1 DEF HeadInv
    <3> QED
      BY <3>4, <3>5
  <2> QED
    BY <1>3, <2>1, <2>2, <2>3 DEF App, OtaThread
<1>4. CASE Boot
  BY <1>1, <1>4 DEF Boot, otaVars, BootBounds
<1>5. CASE Reboot \/ PowerLoss
  BY <1>1, <1>5 DEF Reboot, PowerLoss, OtaReset
<1>6. CASE World
  <2>1. DOMAIN file = Mode /\ (~usb /\ mode = "download" => ~fd_ok)
    BY DEF OtaTypeOK, Mode, UsbMode
  <2>2. CASE Plug
    BY <1>2, <2>1, <2>2 DEF Plug, otaRam
  <2>3. CASE Unplug
    BY <1>2, <2>3 DEF Unplug
  <2>4. CASE TftpCreate \/ TftpWrite
    BY <1>2, <2>1, <2>4 DEF TftpCreate, TftpWrite, otaRam, Mode, UsbMode
  <2> QED
    BY <1>6, <2>2, <2>3, <2>4 DEF World, OtaWorld
<1>7. CASE UNCHANGED vars
  BY <1>2, <1>7 DEF vars, otaVars
<1> QED
  BY <1>3, <1>4, <1>5, <1>6, <1>7 DEF Next
---------------------------------------------------------------------------
(***************************************************************************)
(* What is signed.                                                         *)
(***************************************************************************)
LEMMA SigningStep ==
    ASSUME TypeInv, SigningInv, [Next]_vars
    PROVE  SigningInv'
<1> USE DEF SigningInv
<1>1. CASE Boot
  <2>1. StageFails => bpc' # "sign"
    BY RoutingType DEF TypeInv, TypeOK
  <2>2. CASE VerifyPasses
    BY <1>1, <2>2 DEF Boot, EndsRelease, VerifyPasses, SignUnread, Goto
  <2>3. CASE Start \/ CheckPasses \/ CheckMisled \/ CheckFails \/ StartRelease \/ EraseApp
    BY <2>1, <2>3 DEF Start, CheckPasses, CheckMisled, CheckFails, StartRelease, EraseApp,
       Accepted, SignUnread, Goto
  <2>4. CASE EraseTail \/ CopyCell \/ CopyMisled \/ WriteInfo \/ VerifyFails
    BY <2>1, <2>4 DEF EraseTail, CopyCell, CopyMisled, WriteInfo, VerifyFails, Goto
  <2>5. CASE WriteSign \/ Jump
    BY <2>5 DEF WriteSign, Jump, Goto, GoOn
  <2> QED
    BY <1>1, <2>2, <2>3, <2>4, <2>5 DEF Boot, BootNext
<1>2. CASE App \/ World
  BY <1>2 DEF App, World, bootVars, history
<1>3. CASE Reboot \/ PowerLoss
  BY <1>3 DEF Reboot, PowerLoss, BootReset
<1>4. CASE UNCHANGED vars
  BY <1>4 DEF vars, bootVars, history
<1> QED
  BY <1>1, <1>2, <1>3, <1>4 DEF Next

\* Erasing cells and filling them with garbage completes no package.
LEMMA NothingCompleted ==
    ASSUME HonestSign, faults' = 0 => faults = 0, ~spilled' => ~spilled,
           released' = released,
           \A a \in Addr("download") :
             part'["download"][a] \in {part["download"][a], Erased, Junk}
    PROVE  HonestSign'
<1> SUFFICES ASSUME faults = 0, ~spilled, NEW f \in Firmware,
                    Holds("download", f)', Signed("download", f)'
             PROVE  released = f
  BY DEF HonestSign
<1>1. /\ f.pkg_size \in Nat \ {0} /\ SignCell(f) = f.pkg_size + 1
      /\ PartLen["download"] \in Nat
  BY FirmwareFields, PartLens DEF PartName
<1>2. f.pkg_size + 1 <= PartLen["download"] /\ SignCell(f) + 1 <= PartLen["download"]
  BY <1>1 DEF Holds, Signed, InPart
<1>3. 0 \in Addr("download") /\ SignCell(f) \in Addr("download")
      /\ \A i \in 1 .. f.pkg_size : i \in Addr("download")
  BY <1>1, <1>2 DEF Addr
<1>4. part["download"][0] = Hdr(f)
  BY <1>3, CellsDiffer DEF Holds
<1>5. \A i \in 1 .. f.pkg_size : part["download"][i] = Pkg(f, i)
  BY <1>3, CellsDiffer DEF Holds
<1>6. part["download"][SignCell(f)] = Zero
  BY <1>3, CellsDiffer DEF Signed
<1> QED
  BY <1>4, <1>5, <1>6 DEF HonestSign, Holds, Signed

\* The sign's sector is one the package needs.
LEMMA SignSector ==
    ASSUME SignErased, NEW f \in Firmware
    PROVE  SectorOf(SignCell(f)) <= SectorOf(f.pkg_size)
<1>1. f.pkg_size \in Nat
  BY FirmwareFields
<1>2. SectorOf(f.pkg_size) \in Nat
  BY <1>1, SectorProps
<1> QED
  BY <1>2 DEF SignErased

\* The step that completes the package leaves its sign's cell erased.
LEMMA StoredUnsigned ==
    ASSUME SignErased, WholeFiles, TypeInv, FilesInv, ErasedInv, HeadInv, HonestSign,
           Data, mode = "download", fd_ok, cur < Len(file[mode]), InPart(Dest, cur, 1),
           NEW ok, Write(Dest, cur, file[mode][cur + 1], ok),
           faults = 0, faults' = 0,
           NEW f \in Firmware
    PROVE  ~(Holds("download", f)' /\ Signed("download", f)')
<1> SUFFICES ASSUME Holds("download", f)', Signed("download", f)'
             PROVE  FALSE
  OBVIOUS
<1> DEFINE s == file["download"]
<1>00. PartTypeOK /\ OtaTypeOK
  BY DEF TypeInv, TypeOK
<1>0. opc = "data" /\ Dest = "download" /\ cur \in Nat /\ "download" \in PartName
  BY <1>00 DEF Data, Dest, OtaTypeOK, PartName
<1>1. s \in Images["download"] /\ s \in Seq(Cell) /\ total = Len(s)
  BY <1>0, <1>00 DEF FilesInv, OtaTypeOK, Mode, UsbMode
<1>2. Len(s) \in Nat /\ s[cur + 1] \in Cell /\ s # <<>>
  BY <1>0, <1>1, ElementOfSeq, LenProperties
<1>3. /\ f.pkg_size \in Nat \ {0} /\ SignCell(f) = f.pkg_size + 1
      /\ PartLen["download"] \in Nat
  BY FirmwareFields, PartLens DEF PartName
<1>4. /\ SignCell(f) + 1 <= PartLen["download"]
      /\ part'["download"][0] = Hdr(f)
      /\ part'["download"][SignCell(f)] = Zero
  BY DEF Holds, Signed, InPart
<1>5. 0 \in Addr("download") /\ SignCell(f) \in Addr("download") /\ cur \in Addr("download")
  <2>1. cur + 1 <= PartLen["download"]
    BY <1>0 DEF InPart
  <2> HIDE DEF s
  <2> QED
    BY <1>0, <1>3, <1>4, <2>1 DEF Addr
<1>6. /\ \A b \in Addr("download") : b # cur => part'["download"][b] = part["download"][b]
      /\ part'["download"][cur] \in {part["download"][cur], s[cur + 1], Junk}
      /\ part'["download"][cur] = Programmed(part["download"][cur], s[cur + 1])
  BY <1>0, <1>00, <1>2, <1>5, WriteProps
<1>7. Programmed(part["download"][cur], s[cur + 1]) \in {s[cur + 1], Junk}
  BY <1>0, <1>00, <1>2, <1>5, ProgrammedProps DEF PartTypeOK
<1>8. s[1] = Hdr(f)
  <2>1. CASE cur = 0
    BY <1>4, <1>6, <1>7, <2>1, CellsDiffer
  <2>2. CASE cur # 0
    <3>1. part["download"][0] = s[1]
      BY <1>0, <2>2 DEF HeadInv
    <3> QED
      BY <1>4, <1>5, <1>6, <2>2, <3>1
  <2> QED
    BY <2>1, <2>2
<1>9. total = f.pkg_size + 1
  BY <1>1, <1>2, <1>8 DEF WholeFiles
<1>10. SectorOf(SignCell(f)) <= LastSector(0, total) /\ SignCell(f) > cur
  <2>1. LastSector(0, total) = SectorOf(f.pkg_size)
    BY <1>3, <1>9 DEF LastSector
  <2>2. SectorOf(SignCell(f)) <= SectorOf(f.pkg_size)
    BY SignSector
  <2>3. cur < total
    BY <1>0, <1>1
  <2> HIDE DEF s
  <2> QED
    BY <1>0, <1>3, <1>9, <2>1, <2>2, <2>3
<1>11. part["download"][SignCell(f)] = Erased /\ SignCell(f) # cur
  BY <1>0, <1>3, <1>5, <1>10 DEF ErasedInv
<1> QED
  BY <1>4, <1>5, <1>6, <1>11, CellsDiffer

\* A step of the sign's write, or its loss: whatever is signed is fw_info.
LEMMA SignOfReleased ==
    ASSUME TypeInv, KeepInv, SigningInv, bpc = "sign", faults = 0, released' = released,
           \A a \in Addr("download") :
             a # SignCell(fw_info) => part'["download"][a] = part["download"][a]
    PROVE  HonestSign'
<1> SUFFICES ASSUME NEW f \in Firmware, Holds("download", f)'
             PROVE  released = f
  BY DEF HonestSign
<1>1. fw_info \in Firmware
  BY DEF TypeInv, TypeOK, BootTypeOK
<1>2. 0 \in Addr("download") /\ 0 # SignCell(fw_info)
  BY <1>1, FirmwareFields, PartLens DEF Addr, PartName
<1>3. Source = "download" /\ Holds("download", fw_info) /\ released = fw_info
  BY DEF KeepInv, SigningInv, Source
<1> QED
  BY <1>2, <1>3, CellsDiffer DEF Holds

\* The erase that clears spilled takes the header away.
LEMMA HeaderErased ==
    ASSUME PartTypeOK, NEW ok, Erase("download", 0, ok), faults' = faults
    PROVE  \A f \in Firmware : ~Holds("download", f)'
<1>1. "download" \in PartName /\ 0 \in Addr("download") /\ SectorOf(0) = 0
  BY PartLens, SectorProps DEF Addr, PartName
<1>2. part'["download"][0] = Erased
  BY <1>1, EraseProps
<1> QED
  BY <1>2, CellsDiffer DEF Holds

LEMMA HonestStep ==
    ASSUME SignErased, WholeFiles, TypeInv, KeepInv, SignInv, [Next]_vars
    PROVE  HonestSign'
<1> USE DEF TypeInv, TypeOK, SignInv
<1>0. faults \in Nat /\ (faults' = 0 => faults = 0) /\ "download" \in PartName /\ "app" \in PartName
  BY FaultsGrow DEF PartName
<1>1. ASSUME part'["download"] = part["download"], released' = released, ~spilled' => ~spilled
      PROVE  HonestSign'
  BY <1>0, <1>1 DEF HonestSign, Holds, Signed
<1>2. ASSUME faults' # 0 \/ spilled' \/ \A f \in Firmware : ~Holds("download", f)'
      PROVE  HonestSign'
  BY <1>2 DEF HonestSign
<1>3. CASE Boot
  <2>0. BootNext /\ (~VerifyPasses => released' = released) /\ spilled' = spilled
    BY <1>3 DEF Boot, EndsRelease
  <2>1. CASE VerifyPasses
    <3>1. PICK g \in Firmware : DestVerified(g) /\ fw_info' = g
      BY <2>1 DEF VerifyPasses
    <3>2. part' = part /\ bpc = "verify"
      BY <2>1 DEF VerifyPasses
    <3>3. CASE stage # "release"
      BY <1>1, <1>3, <2>0, <3>2, <3>3 DEF Boot, EndsRelease
    <3>4. CASE stage = "release" /\ faults = 0
      <4>1. released' = g
        BY <1>3, <2>1, <3>1, <3>4 DEF Boot, EndsRelease
      <4>2. g = fw_info /\ Holds("download", fw_info)
        BY <3>1, <3>2, <3>4 DEF KeepInv, Stale, DestVerified, Source
      <4>3. ASSUME NEW f \in Firmware, Holds("download", f)'
            PROVE  f = g
        BY <3>2, <4>2, <4>3, CellsDiffer DEF Holds
      <4> QED
        BY <4>1, <4>3 DEF HonestSign
    <3> QED
      BY <1>0, <1>2, <3>3, <3>4
  <2>2. CASE WriteSign
    <3>1. CASE ~InPart(Source, SignCell(fw_info), 1)
      BY <1>1, <2>0, <2>2, <3>1 DEF WriteSign, VerifyPasses
    <3>2. CASE InPart(Source, SignCell(fw_info), 1) /\ faults = 0
      <4>1. bpc = "sign" /\ fw_info \in Firmware /\ Source = "download"
        BY <2>2 DEF WriteSign, BootTypeOK, SigningInv, Source
      <4>2. SignCell(fw_info) \in Addr("download")
        BY <3>2, <4>1, FirmwareFields, PartLens DEF InPart, Addr, PartName
      <4>3. PICK ok \in BOOLEAN : Write("download", SignCell(fw_info), Zero, ok)
        BY <2>2, <3>2, <4>1 DEF WriteSign
      <4>4. \A b \in Addr("download") : b # SignCell(fw_info) => part'["download"][b] = part["download"][b]
        BY <1>0, <4>2, <4>3, WriteProps, CellTypes
      <4>5. released' = released
        BY <2>0, <2>2 DEF WriteSign, VerifyPasses
      <4> QED
        BY <3>2, <4>1, <4>4, <4>5, SignOfReleased
    <3> QED
      BY <1>0, <1>2, <3>1, <3>2
  <2>3. CASE (Start \/ CheckPasses \/ CheckFails \/ StartRelease \/ VerifyFails \/ Jump)
             /\ ~VerifyPasses
    <3>1. UNCHANGED part
      BY <2>3 DEF Start, CheckPasses, CheckFails, StartRelease, VerifyFails, Jump, ReadFails
    <3> QED
      BY <1>1, <2>0, <2>3, <3>1
  <2>4. CASE EraseApp \/ EraseTail
    BY <1>0, <1>1, <2>0, <2>4, EraseProps DEF EraseApp, EraseTail, VerifyPasses
  <2>5. CASE CopyCell
    <3>1. fw_info \in Firmware /\ at \in Nat /\ at < fw_info.raw_size /\ Releasable(fw_info)
      BY <2>5, PartLens DEF CopyCell, BootBounds, BootTypeOK, PartName
    <3>2. fw_info.raw_size \in Nat /\ PartLen["app"] \in Nat /\ fw_info.raw_size <= PartLen["app"]
      BY <3>1, FirmwareFields, LastSectorBound, PartLens DEF PartName
    <3>3. Unpacked(Source, fw_info, at) \in Cell /\ at \in Addr("app")
      BY <3>1, <3>2, CellTypes DEF Unpacked, Addr
    <3>4. part'["download"] = part["download"]
      BY <1>0, <2>5, <3>3, WriteProps DEF CopyCell, ReadFails
    <3> QED
      BY <1>1, <2>0, <2>5, <3>4 DEF CopyCell, VerifyPasses
  <2>6. CASE WriteInfo
    <3>1. Hdr(fw_info) \in Cell /\ TailCell("app") \in Addr("app")
      BY <2>6, CellTypes, PartLens DEF WriteInfo, BootTypeOK, PartName
    <3>2. part'["download"] = part["download"]
      BY <1>0, <2>6, <3>1, WriteProps DEF WriteInfo
    <3> QED
      BY <1>1, <2>0, <2>6, <3>2 DEF WriteInfo, VerifyPasses
  <2>7. CASE CheckMisled \/ CopyMisled
    BY <1>2, <2>7, NotMisled
  <2> QED
    BY <2>0, <2>1, <2>2, <2>3, <2>4, <2>5, <2>6, <2>7 DEF BootNext
<1>4. CASE App
  <2>0. /\ OtaThread /\ released' = released
        /\ opc # "erase" /\ ~spilled' => ~spilled /\ ~Spills
        /\ ~(opc = "erase" /\ sec = 0 /\ Dest = "download") => (~spilled' => ~spilled)
    BY <1>4 DEF App
  <2>1. CASE Poll \/ OpenFile \/ Begin \/ End
    BY <1>1, <2>0, <2>1 DEF Poll, OpenFile, Begin, End
  <2>2. CASE EraseDest
    <3>1. PICK ok \in BOOLEAN : Erase(Dest, sec, ok)
      BY <2>2 DEF EraseDest
    <3>2. CASE Dest # "download"
      BY <1>0, <1>1, <2>0, <3>1, <3>2, EraseProps, DestPart
    <3>3. CASE Dest = "download" /\ sec # 0
      BY <1>0, <2>0, <3>1, <3>3, EraseProps, NothingCompleted
    <3>4. CASE Dest = "download" /\ sec = 0
      BY <1>0, <1>2, <3>1, <3>4, HeaderErased
    <3> QED
      BY <3>2, <3>3, <3>4
  <2>3. CASE Data
    <3>0. ~spilled' => ~spilled /\ ~Spills
      BY <2>0, <2>3 DEF Data
    <3>1. CASE UNCHANGED part
      BY <1>1, <2>0, <3>0, <3>1
    <3>3. CASE ~fd_ok
      <4>1. CASE Dest = "download" /\ part' # part
        BY <1>2, <2>3, <3>0, <3>3, <4>1 DEF Spills, Data
      <4>2. CASE Dest = "factory" /\ part' # part
        BY <1>0, <1>1, <2>0, <2>3, <3>0, <3>3, <4>2, OverrunProps DEF Data, ReadError
      <4> QED
        BY <3>1, <4>1, <4>2, DestPart
    <3>2. ASSUME fd_ok, cur < Len(file[mode]), InPart(Dest, cur, 1), NEW ok \in BOOLEAN,
                 Write(Dest, cur, file[mode][cur + 1], ok)
          PROVE  HonestSign'
      <4>1. CASE mode = "download" /\ faults' = 0
        BY <1>0, <2>3, <3>2, <4>1, StoredUnsigned DEF HonestSign
      <4>2. CASE mode # "download"
        <5>1. Dest = "factory" /\ Dest \in PartName /\ Dest # "download"
          BY <3>2, <4>2 DEF FilesInv, OtaTypeOK, Dest, Mode, UsbMode, PartName
        <5>2. file[mode] \in Seq(Cell) /\ cur \in Nat /\ PartLen[Dest] \in Nat
          BY <3>2, DestPart, PartLens DEF OtaTypeOK
        <5>3. file[mode][cur + 1] \in Cell /\ cur \in Addr(Dest)
          BY <3>2, <5>2, ElementOfSeq, LenProperties DEF InPart, Addr
        <5>4. part'["download"] = part["download"]
          BY <1>0, <3>2, <5>1, <5>3, WriteProps
        <5> QED
          BY <1>1, <2>0, <3>0, <5>4
      <4> QED
        BY <1>2, <4>1, <4>2
    <3> QED
      BY <1>2, <2>3, <3>1, <3>2, <3>3, StoredClean DEF Data
  <2> QED
    BY <2>0, <2>1, <2>2, <2>3 DEF OtaThread
<1>5. CASE Reboot
  BY <1>1, <1>5 DEF Reboot, history
<1>6. CASE PowerLoss
  <2>1. released' = released /\ faults' = faults /\ spilled' = spilled
    BY <1>6 DEF PowerLoss
  <2>2. CASE UNCHANGED part
    BY <1>1, <2>1, <2>2
  <2>3. CASE Spoil(InFlight[1], InFlight[2])
    <3>1. InFlight[1] \in PartName
      BY DEF InFlight, BootInFlight, OtaInFlight, Source, Dest, PartName
    <3>2. CASE InFlight[1] # "download"
      BY <1>0, <1>1, <2>1, <2>3, <3>1, <3>2, SpoilProps
    <3>3. CASE InFlight[1] = "download"
      <4>1. \A a \in Addr("download") :
               part'["download"][a] \in {part["download"][a], Erased, Junk}
        BY <2>3, <3>1, <3>3, SpoilProps
      <4> QED
        BY <2>1, <4>1, NothingCompleted
    <3> QED
      BY <3>2, <3>3
  <2> QED
    BY <1>6, <2>2, <2>3 DEF PowerLoss
<1>7. CASE World
  BY <1>1, <1>7, OtaWorldType DEF World, history
<1>8. CASE UNCHANGED vars
  BY <1>1, <1>8 DEF vars, history
<1> QED
  BY <1>3, <1>4, <1>5, <1>6, <1>7, <1>8 DEF Next

LEMMA SignStep ==
    ASSUME SignErased, WholeFiles
    PROVE  TypeInv /\ KeepInv /\ SignInv /\ [Next]_vars => SignInv'
BY FilesStep, ErasedStep, HeadStep, SigningStep, HonestStep DEF SignInv

(***************************************************************************)
(* With the sign in a sector the package needs, and whole files only, a    *)
(* package the bootloader skips because it is signed is the one it has     *)
(* last unpacked and verified, unless a failing read has written to        *)
(* download since it was erased.  Without one of these it is false: see    *)
(* stale_sign.cfg and pulled_stick.cfg.                                    *)
(***************************************************************************)
THEOREM SignIsHonest ==
    ASSUME SignErased, WholeFiles
    PROVE  Spec => []SignedMeansReleased
<1>1. SignInv => SignedMeansReleased
  BY DEF SignInv, HonestSign, SignedMeansReleased, FwCheck
<1>2. TypeInv /\ KeepInv /\ SignInv /\ [Next]_vars => SignInv'
  BY SignStep
<1>3. Spec => [](TypeInv /\ KeepInv)
  BY TypeInvariant, KeepInit, KeepStep, PTL DEF Spec
<1> QED
  BY <1>1, <1>2, <1>3, SignInit, PTL DEF Spec
=============================================================================
