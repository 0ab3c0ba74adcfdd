------------------------ MODULE ReleaseOutcome_proofs ------------------------
(***************************************************************************)
(* What a release leaves behind, for every set of packages, every geometry *)
(* and any number of losses of power, if no flash operation fails and no   *)
(* code fills the app partition to its end (HeaderFits):                   *)
(* TornIsRecoverable, TornReleaseNeverRuns and, for packages that can be   *)
(* verified and signed (SignFits), ReleasedOnce.                           *)
(*                                                                         *)
(* The argument for the first two: from the check on, the package of a     *)
(* release is whole and unsigned (ReadyInv), so a loss of power leaves     *)
(* something to start from again; and what a release has not copied yet is *)
(* erased (CopyInv), so the copy is complete when the header is written,   *)
(* verified or not.                                                        *)
(***************************************************************************)
EXTENDS ReleaseSign_proofs

Releasing == {"erase", "erase_tail", "copy", "info", "verify"}

\* The bootloader will unpack package f from download.
Recoverable(f) == FwCheck("download", f) /\ Releasable(f) /\ ~Signed("download", f)

ReadyInv ==
    stage = "release" /\ bpc \in {"start"} \cup Releasing =>
      FwCheck("download", fw_info) /\ ~Signed("download", fw_info)

WriterInv == bpc \in Releasing => writer = stage

\* How far the app partition is erased and written.
CopyInv ==
    /\ bpc = "erase" =>
         \A a \in Addr("app") : SectorOf(a) < at => part["app"][a] = Erased
    /\ bpc = "erase_tail" => at = 0
    /\ bpc \in {"erase_tail", "copy"} =>
         \A a \in 0 .. fw_info.raw_size - 1 :
           part["app"][a] = IF a < at THEN Raw(fw_info, a) ELSE Erased
    /\ bpc \in {"copy", "info"} => part["app"][TailCell("app")] = Erased
    /\ bpc \in {"info", "verify"} => Runs("app", fw_info)
    /\ bpc = "verify" => part["app"][TailCell("app")] = Hdr(fw_info)

\* What a release leaves behind, wherever the power goes.
OutcomeInv ==
    writer = "release" =>
      /\ Intact \/ \E f \in Firmware : Recoverable(f)
      /\ bpc \in {"sign", "jump", "app"} \/ stage \in {"download", "factory"} => Intact

TornInv ==
    faults = 0 =>
      /\ ReadyInv
      /\ WriterInv
      /\ stage = "release" => CopyInv
      /\ OutcomeInv

LEMMA TornInit == Init => TornInv
BY DEF Init, BootInit, TornInv, ReadyInv, WriterInv, CopyInv, OutcomeInv, Releasing
---------------------------------------------------------------------------
(***************************************************************************)
(* Flash operations that do not fail report success.                       *)
(***************************************************************************)
LEMMA CleanErase ==
    ASSUME PartTypeOK, NEW p, NEW s, NEW ok \in BOOLEAN, Erase(p, s, ok), faults' = faults
    PROVE  ok
BY FaultProps DEF Erase, PartTypeOK

LEMMA CleanWrite ==
    ASSUME PartTypeOK, NEW p, NEW a, NEW c, NEW ok \in BOOLEAN, Write(p, a, c, ok),
           part[p][a] = Erased, faults' = faults
    PROVE  ok
BY FaultProps DEF Write, Programmed, PartTypeOK

\* Without a fault the bootloader is never misled, and reads every sign.
CleanNext ==
    \/ Start \/ CheckPasses \/ CheckFails
    \/ StartRelease \/ EraseApp \/ EraseTail \/ CopyCell \/ WriteInfo
    \/ VerifyPasses \/ VerifyFails
    \/ WriteSign
    \/ Jump

LEMMA CleanBoot ==
    ASSUME PartTypeOK, BootNext, faults' = 0
    PROVE  CleanNext
BY NotMisled DEF BootNext, CleanNext

LEMMA CleanCheck ==
    ASSUME PartTypeOK, CheckPasses, faults' = 0
    PROVE  \E f \in Firmware : FwCheck(Source, f) /\ fw_info' = f /\ Accepted(f)
BY NotMisled DEF CheckPasses

LEMMA CleanVerify ==
    ASSUME PartTypeOK, VerifyPasses, faults' = 0
    PROVE  \E g \in Firmware :
             /\ DestVerified(g)
             /\ fw_info' = g
             /\ Goto(IF stage = "release" /\ ~Signed(Source, g) THEN "sign" ELSE "jump")
BY NotMisled DEF VerifyPasses

LEMMA IntactKept ==
    ASSUME \A a \in Addr("app") : part'["app"][a] = part["app"][a], Intact
    PROVE  Intact'
<1>1. PICK f \in Firmware : Runs("app", f)
  BY DEF Intact
<1>2. f.raw_size \in Nat /\ PartLen["app"] \in Nat /\ f.raw_size <= PartLen["app"]
  BY <1>1, FirmwareFields, PartLens DEF Runs, InPart, PartName
<1>3. \A i \in 0 .. f.raw_size - 1 : i \in Addr("app")
  BY <1>2 DEF Addr
<1>4. Runs("app", f)'
  BY <1>1, <1>3 DEF Runs
<1> QED
  BY <1>4 DEF Intact

LEMMA PackageKept ==
    ASSUME \A a \in Addr("download") : part'["download"][a] = part["download"][a],
           NEW f \in Firmware
    PROVE  /\ FwCheck("download", f)' <=> FwCheck("download", f)
           /\ Signed("download", f)' <=> Signed("download", f)
<1>1. f.pkg_size \in Nat \ {0} /\ PartLen["download"] \in Nat \ {0} /\ SignCell(f) = f.pkg_size + 1
  BY FirmwareFields, PartLens DEF PartName
<1>2. 0 \in Addr("download")
  BY <1>1 DEF Addr
<1>3. InPart("download", 0, f.pkg_size + 1) => \A i \in 1 .. f.pkg_size : i \in Addr("download")
  BY <1>1 DEF Addr, InPart
<1>4. InPart("download", SignCell(f), 1) => SignCell(f) \in Addr("download")
  BY <1>1 DEF Addr, InPart
<1>5. Holds("download", f)' <=> Holds("download", f)
  BY <1>2, <1>3 DEF Holds
<1> QED
  BY <1>4, <1>5 DEF FwCheck, Signed

LEMMA RecoverableKept ==
    ASSUME \A a \in Addr("download") : part'["download"][a] = part["download"][a],
           \E f \in Firmware : Recoverable(f)
    PROVE  (\E f \in Firmware : Recoverable(f))'
<1>1. PICK f \in Firmware : Recoverable(f)
  OBVIOUS
<1>2. Recoverable(f)'
  BY <1>1, PackageKept DEF Recoverable
<1> QED
  BY <1>2

\* A header names one package.
LEMMA OnePackage ==
    ASSUME NEW f, NEW g, FwCheck("download", f), FwCheck("download", g)
    PROVE  f = g
BY CellsDiffer DEF FwCheck, Holds

LEMMA Routes ==
    ASSUME StageFails, stage \in Stage
    PROVE  \/ stage = "release" /\ bpc' = "jump" /\ stage' = "release"
           \/ stage = "key" /\ bpc' = "check" /\ stage' = "release"
           \/ stage = "download" /\ bpc' = "check" /\ stage' = "factory"
           \/ stage = "factory" /\ bpc' = "reset" /\ stage' = "factory"
BY DEF StageFails, GoOn, NextStage, Stage
---------------------------------------------------------------------------
(***************************************************************************)
(* The bootloader's steps without failures.                                *)
(***************************************************************************)

\* A stage gives up before it has touched the app, or a stage other than the release.
LEMMA GivesUpTorn ==
    ASSUME TypeInv, TornInv, faults = 0, StageFails,
           writer' = writer,
           writer = "release" => /\ UNCHANGED part
                                 /\ stage = "release" => Intact
    PROVE  TornInv'
<1>1. stage \in Stage
  BY DEF TypeInv, TypeOK, BootTypeOK
<1>2. bpc' \in {"jump", "check", "reset"}
  BY <1>1, Routes
<1>3. ReadyInv' /\ WriterInv' /\ CopyInv'
  BY <1>2 DEF ReadyInv, WriterInv, CopyInv, Releasing
<1>4. OutcomeInv'
  <2> SUFFICES ASSUME writer = "release" PROVE OutcomeInv'
    BY DEF OutcomeInv
  <2>1. (Intact' <=> Intact) /\ ((\E f \in Firmware : Recoverable(f))' <=> \E f \in Firmware : Recoverable(f))
    BY DEF Intact, Runs, Recoverable, FwCheck, Holds, Signed
  <2>2. /\ Intact \/ \E f \in Firmware : Recoverable(f)
        /\ stage \in {"download", "factory"} => Intact
    BY DEF TornInv, OutcomeInv
  <2> QED
    BY <1>1, <2>1, <2>2, Routes DEF OutcomeInv
<1> QED
  BY <1>3, <1>4 DEF TornInv

\* What a resume does to the app is not the release's.
LEMMA ResumeTorn ==
    ASSUME TypeInv, TornInv, faults = 0, faults' = 0, stage # "release", bpc \in Releasing,
           CleanNext
    PROVE  TornInv'
<1>1. writer = stage /\ stage \in Stage
  BY DEF TornInv, WriterInv, TypeInv, TypeOK, BootTypeOK
<1>2. \/ EraseApp \/ EraseTail \/ CopyCell \/ WriteInfo \/ VerifyPasses \/ VerifyFails
  BY DEF CleanNext, Releasing, Start, CheckPasses, CheckFails, StartRelease, WriteSign, Jump
<1>3. writer' = writer
  BY <1>2 DEF EraseApp, EraseTail, CopyCell, WriteInfo, VerifyPasses, VerifyFails
<1>4. StageFails => TornInv'
  BY <1>1, <1>3, GivesUpTorn
<1>5. ASSUME UNCHANGED stage
      PROVE  TornInv'
  BY <1>1, <1>3, <1>5 DEF TornInv, ReadyInv, WriterInv, OutcomeInv
<1>6. StageFails \/ UNCHANGED stage
  BY <1>2 DEF EraseApp, EraseTail, CopyCell, WriteInfo, VerifyPasses, SignUnread, VerifyFails, Goto
<1> QED
  BY <1>4, <1>5, <1>6

\* A release that goes on with the package that can be released again.
LEMMA GoesOnTorn ==
    ASSUME TypeInv, TornInv, faults = 0, stage = "release", bpc \in Releasing,
           UNCHANGED <<stage, fw_info, writer>>, bpc' \in Releasing,
           PartTypeOK', part'["download"] = part["download"], CopyInv'
    PROVE  TornInv'
<1>1. fw_info \in Firmware /\ Releasable(fw_info)
  BY DEF TypeInv, TypeOK, BootTypeOK, BootBounds, Releasing
<1>2. FwCheck("download", fw_info) /\ ~Signed("download", fw_info) /\ writer = stage
  BY DEF TornInv, ReadyInv, WriterInv
<1>3. FwCheck("download", fw_info)' /\ ~Signed("download", fw_info)'
  BY <1>1, <1>2, PackageKept
<1>4. (\E f \in Firmware : Recoverable(f))'
  BY <1>1, <1>2, RecoverableKept DEF Recoverable
<1> QED
  BY <1>2, <1>3, <1>4 DEF TornInv, ReadyInv, WriterInv, OutcomeInv, Releasing

LEMMA CheckTorn ==
    ASSUME TypeInv, TornInv, faults = 0, faults' = 0, CheckPasses \/ CheckFails \/ StartRelease
    PROVE  TornInv'
<1>1. UNCHANGED part /\ ~ReadFails /\ stage \in Stage
  BY FaultProps DEF CheckPasses, CheckFails, StartRelease, ReadFails, TypeInv, TypeOK, BootTypeOK,
     PartTypeOK
<1>2. ASSUME writer = "release"
      PROVE  /\ Intact \/ \E f \in Firmware : Recoverable(f)
             /\ stage \in {"download", "factory"} => Intact
  BY <1>2 DEF TornInv, OutcomeInv
<1>3. /\ Intact' <=> Intact
      /\ (\E f \in Firmware : Recoverable(f))' <=> \E f \in Firmware : Recoverable(f)
  BY <1>1 DEF Intact, Runs, Recoverable, FwCheck, Holds, Signed
<1>4. CASE CheckPasses
  <2>1. PICK f \in Firmware : FwCheck(Source, f) /\ fw_info' = f
          /\ \/ /\ stage = "release"
                /\ Goto(IF Signed(Source, f) THEN "jump" ELSE "start")
             \/ /\ stage # "release"
                /\ Goto("start") \/ StageFails
    BY <1>4, CleanCheck DEF Accepted, TypeInv, TypeOK
  <2>2. writer' = writer
    BY <1>4 DEF CheckPasses
  <2>3. CASE stage # "release" /\ StageFails
    BY <1>1, <2>2, <2>3, GivesUpTorn
  <2>4. CASE stage # "release" /\ Goto("start")
    BY <1>2, <1>3, <2>2, <2>4 DEF Goto, TornInv, ReadyInv, WriterInv, CopyInv, OutcomeInv, Releasing
  <2>5. CASE stage = "release" /\ ~Signed("download", f)
    <3>1. bpc' = "start" /\ stage' = "release" /\ FwCheck("download", f)
      BY <2>1, <2>5 DEF Goto, Source
    <3>2. FwCheck("download", fw_info)' /\ ~Signed("download", fw_info)'
      BY <1>1, <2>1, <2>5, <3>1 DEF FwCheck, Holds, Signed
    <3> QED
      BY <1>2, <1>3, <2>2, <3>1, <3>2
         DEF TornInv, ReadyInv, WriterInv, CopyInv, OutcomeInv, Releasing
  <2>6. CASE stage = "release" /\ Signed("download", f)
    <3>1. bpc' = "jump" /\ stage' = "release" /\ FwCheck("download", f)
      BY <2>1, <2>6 DEF Goto, Source
    <3>2. ~ \E g \in Firmware : Recoverable(g)
      BY <2>6, <3>1, OnePackage DEF Recoverable
    <3> QED
      BY <1>2, <1>3, <2>2, <3>1, <3>2
         DEF TornInv, ReadyInv, WriterInv, CopyInv, OutcomeInv, Releasing
  <2> QED
    BY <2>1, <2>3, <2>4, <2>5, <2>6
<1>5. CASE CheckFails
  <2>1. \A f \in Firmware : ~FwCheck(Source, f)
    BY <1>1, <1>5 DEF CheckFails
  <2>2. stage = "release" => ~ \E f \in Firmware : Recoverable(f)
    BY <2>1 DEF Recoverable, Source
  <2> QED
    BY <1>1, <1>2, <1>5, <2>2, GivesUpTorn DEF CheckFails
<1>6. CASE StartRelease
  <2>0. bpc = "start" /\ fw_info' = fw_info /\ fw_info \in Firmware
    BY <1>6 DEF StartRelease, TypeInv, TypeOK, BootTypeOK
  <2>1. stage = "release" => FwCheck("download", fw_info) /\ ~Signed("download", fw_info)
    BY <2>0 DEF TornInv, ReadyInv
  <2>2. CASE Releasable(fw_info)
    <3>1. bpc' = "erase" /\ stage' = stage /\ at' = 0 /\ writer' = stage
      BY <1>6, <2>2 DEF StartRelease, Goto
    <3>2. ReadyInv'
      BY <1>1, <2>0, <2>1, <3>1 DEF ReadyInv, FwCheck, Holds, Signed
    <3>3. \A a \in Addr("app") : ~(SectorOf(a) < 0)
      BY SectorProps, PartLens DEF Addr, PartName
    <3>4. CopyInv'
      BY <3>1, <3>3 DEF CopyInv
    <3>5. OutcomeInv'
      BY <1>3, <2>0, <2>1, <2>2, <3>1 DEF OutcomeInv, Recoverable
    <3> QED
      BY <3>1, <3>2, <3>4, <3>5 DEF TornInv, WriterInv
  <2>3. CASE ~Releasable(fw_info)
    <3>1. StageFails /\ writer' = writer
      BY <1>6, <2>3 DEF StartRelease
    <3>2. stage = "release" => ~ \E f \in Firmware : Recoverable(f)
      BY <2>1, <2>3, OnePackage DEF Recoverable
    <3> QED
      BY <1>1, <1>2, <3>1, <3>2, GivesUpTorn
  <2> QED
    BY <2>2, <2>3
<1> QED
  BY <1>4, <1>5, <1>6

LEMMA EraseTorn ==
    ASSUME TypeInv, TornInv, faults = 0, faults' = 0, stage = "release", EraseApp \/ EraseTail
    PROVE  TornInv'
<1> USE DEF TypeInv, TypeOK
<1>0. /\ "app" \in PartName /\ "download" \in PartName /\ "app" # "download"
      /\ \A a \in Addr("app") : a \in Nat /\ SectorOf(a) \in Nat
      /\ TailCell("app") \in Addr("app")
  BY SectorProps, PartLens DEF Addr, PartName
<1>1. bpc \in {"erase", "erase_tail"} /\ fw_info \in Firmware /\ Releasable(fw_info) /\ at \in Nat
  BY PartLens DEF EraseApp, EraseTail, BootTypeOK, BootBounds, PartName
<1>2. fw_info.raw_size \in Nat \ {0} /\ fw_info.raw_size <= PartLen["app"] /\ PartLen["app"] \in Nat
  BY <1>1, FirmwareFields, LastSectorBound, PartLens DEF PartName
<1>3. \A a \in 0 .. fw_info.raw_size - 1 : a \in Addr("app") /\ a \in Nat
  BY <1>2 DEF Addr
<1>4. CopyInv
  BY DEF TornInv
<1>5. CASE EraseApp
  <2>1. PICK ok \in BOOLEAN :
          /\ Erase("app", at, ok)
          /\ IF ~ok THEN StageFails /\ UNCHANGED at
             ELSE IF at = LastSector(0, fw_info.raw_size)
               THEN Goto("erase_tail") /\ at' = 0
               ELSE Goto("erase") /\ at' = at + 1
    BY <1>5 DEF EraseApp
  <2>2. ok
    BY <2>1, CleanErase
  <2>3. /\ PartTypeOK' /\ part'["download"] = part["download"]
        /\ \A a \in Addr("app") : SectorOf(a) # at => part'["app"][a] = part["app"][a]
        /\ \A a \in Addr("app") : SectorOf(a) = at => part'["app"][a] = Erased
    BY <1>0, <2>1, EraseProps
  <2>4. \A a \in Addr("app") : SectorOf(a) < at => part["app"][a] = Erased
    BY <1>4, <1>5 DEF CopyInv, EraseApp
  <2>5. \A a \in Addr("app") : SectorOf(a) <= at => part'["app"][a] = Erased
    BY <1>0, <1>1, <2>3, <2>4
  <2>6. UNCHANGED <<fw_info, writer>>
    BY <1>5 DEF EraseApp
  <2>7. CASE at = LastSector(0, fw_info.raw_size)
    <3>1. bpc' = "erase_tail" /\ stage' = stage /\ at' = 0
      BY <2>1, <2>2, <2>7 DEF Goto
    <3>2. 0 + fw_info.raw_size - 1 \in Nat
      BY <1>2
    <3>3. \A a \in 0 .. fw_info.raw_size - 1 : a <= 0 + fw_info.raw_size - 1
      BY <1>2
    <3>4. \A a \in 0 .. fw_info.raw_size - 1 : SectorOf(a) <= at
      BY <1>3, <2>7, <3>2, <3>3, SectorProps DEF LastSector
    <3>5. \A a \in 0 .. fw_info.raw_size - 1 : part'["app"][a] = Erased /\ ~(a < 0)
      BY <1>3, <2>5, <3>4
    <3>6. CopyInv'
      BY <2>6, <3>1, <3>5 DEF CopyInv
    <3> QED
      BY <1>1, <2>3, <2>6, <3>1, <3>6, GoesOnTorn DEF Releasing
  <2>8. CASE at # LastSector(0, fw_info.raw_size)
    <3>1. bpc' = "erase" /\ stage' = stage /\ at' = at + 1
      BY <2>1, <2>2, <2>8 DEF Goto
    <3>2. \A a \in Addr("app") : SectorOf(a) < at + 1 => SectorOf(a) <= at
      BY <1>0, <1>1
    <3>3. CopyInv'
      BY <2>5, <3>1, <3>2 DEF CopyInv
    <3> QED
      BY <1>1, <2>3, <2>6, <3>1, <3>3, GoesOnTorn DEF Releasing
  <2> QED
    BY <2>7, <2>8
<1>6. CASE EraseTail
  <2>1. PICK ok \in BOOLEAN : Erase("app", SectorOf(TailCell("app")), ok)
                              /\ IF ok THEN Goto("copy") ELSE StageFails
    BY <1>6 DEF EraseTail
  <2>2. bpc' = "copy" /\ stage' = stage /\ UNCHANGED <<fw_info, writer, at>> /\ bpc = "erase_tail"
    BY <1>6, <2>1, CleanErase DEF EraseTail, Goto
  <2>3. /\ PartTypeOK' /\ part'["download"] = part["download"]
        /\ \A a \in Addr("app") : part'["app"][a] \in {part["app"][a], Erased}
        /\ part'["app"][TailCell("app")] = Erased
    BY <1>0, <2>1, EraseProps
  <2>4. at = 0 /\ \A a \in 0 .. fw_info.raw_size - 1 : part["app"][a] = Erased
    BY <1>3, <1>4, <2>2 DEF CopyInv
  <2>5. \A a \in 0 .. fw_info.raw_size - 1 : part'["app"][a] = Erased /\ ~(a < at)
    BY <1>3, <2>3, <2>4
  <2>6. CopyInv'
    BY <2>2, <2>3, <2>5 DEF CopyInv
  <2> QED
    BY <1>1, <2>2, <2>3, <2>6, GoesOnTorn DEF Releasing
<1> QED
  BY <1>5, <1>6

LEMMA CopyTorn ==
    ASSUME HeaderFits, TypeInv, TornInv, faults = 0, faults' = 0, stage = "release",
           CopyCell \/ WriteInfo
    PROVE  TornInv'
<1> USE DEF TypeInv, TypeOK
<1>0. /\ "app" \in PartName /\ "download" \in PartName /\ "app" # "download"
      /\ TailCell("app") \in Addr("app")
  BY PartLens DEF PartName
<1>1. bpc \in {"copy", "info"} /\ fw_info \in Firmware /\ Releasable(fw_info) /\ at \in Nat
  BY PartLens DEF CopyCell, WriteInfo, BootTypeOK, BootBounds, PartName
<1>2. /\ fw_info.raw_size \in Nat \ {0} /\ PartLen["app"] \in Nat
      /\ fw_info.raw_size < PartLen["app"] /\ TailCell("app") = PartLen["app"] - 1
  BY <1>1, FirmwareFields, PartLens DEF PartName, HeaderFits, TailCell
<1>3. \A a \in 0 .. fw_info.raw_size - 1 : a \in Addr("app") /\ a \in Nat /\ a # TailCell("app")
  BY <1>2 DEF Addr
<1>4. CopyInv /\ FwCheck("download", fw_info) /\ ~ReadFails
  BY <1>1, FaultProps DEF TornInv, ReadyInv, Releasing, ReadFails, PartTypeOK
<1>5. CASE CopyCell
  <2>1. PICK ok \in BOOLEAN :
          /\ Write("app", at, Unpacked(Source, fw_info, at), ok)
          /\ IF ~ok THEN StageFails /\ UNCHANGED at
             ELSE /\ at' = at + 1
                  /\ Goto(IF at + 1 < fw_info.raw_size THEN "copy" ELSE "info")
    BY <1>4, <1>5 DEF CopyCell
  <2>2. bpc = "copy" /\ at < fw_info.raw_size /\ UNCHANGED <<fw_info, writer>>
    BY <1>5 DEF CopyCell, BootBounds
  <2>3. at \in 0 .. fw_info.raw_size - 1
    BY <1>1, <1>2, <2>2
  <2>4. part["app"][at] = Erased
    BY <1>1, <1>4, <2>2, <2>3 DEF CopyInv
  <2>5. ok
    BY <2>1, <2>4, CleanWrite
  <2>6. Unpacked(Source, fw_info, at) = Raw(fw_info, at) /\ Raw(fw_info, at) \in Cell
    BY <1>1, <1>4, <2>3, CellTypes DEF Unpacked, Source, FwCheck
  <2>7. Programmed(Erased, Raw(fw_info, at)) = Raw(fw_info, at)
    BY DEF Programmed
  <2>8. /\ PartTypeOK' /\ part'["download"] = part["download"]
        /\ \A a \in Addr("app") : a # at => part'["app"][a] = part["app"][a]
        /\ part'["app"][at] = Raw(fw_info, at)
    BY <1>0, <1>3, <2>1, <2>3, <2>4, <2>6, <2>7, WriteProps
  <2>9. \A a \in 0 .. fw_info.raw_size - 1 :
          part'["app"][a] = IF a < at + 1 THEN Raw(fw_info, a) ELSE Erased
    <3> SUFFICES ASSUME NEW a \in 0 .. fw_info.raw_size - 1
                 PROVE  part'["app"][a] = IF a < at + 1 THEN Raw(fw_info, a) ELSE Erased
      OBVIOUS
    <3>1. part["app"][a] = IF a < at THEN Raw(fw_info, a) ELSE Erased
      BY <1>4, <2>2 DEF CopyInv
    <3>2. CASE a = at
      BY <1>1, <2>8, <3>2
    <3>3. CASE a # at
      <4>1. part'["app"][a] = part["app"][a]
        BY <1>3, <2>8, <3>3
      <4>2. a < at + 1 <=> a < at
        BY <1>1, <1>3, <3>3
      <4> QED
        BY <3>1, <4>1, <4>2
    <3> QED
      BY <3>2, <3>3
  <2>10. part'["app"][TailCell("app")] = Erased
    BY <1>0, <1>3, <1>4, <2>2, <2>3, <2>8 DEF CopyInv
  <2>11. CASE at + 1 < fw_info.raw_size
    <3>1. bpc' = "copy" /\ stage' = stage /\ at' = at + 1
      BY <2>1, <2>5, <2>11 DEF Goto
    <3>2. CopyInv'
      BY <2>2, <2>9, <2>10, <3>1 DEF CopyInv
    <3> QED
      BY <1>1, <2>2, <2>8, <3>1, <3>2, GoesOnTorn DEF Releasing
  <2>12. CASE ~(at + 1 < fw_info.raw_size)
    <3>1. bpc' = "info" /\ stage' = stage
      BY <2>1, <2>5, <2>12 DEF Goto
    <3>2. \A a \in 0 .. fw_info.raw_size - 1 : a < at + 1
      BY <1>1, <1>2, <2>12
    <3>3. Runs("app", fw_info)'
      BY <1>1, <2>2, <2>9, <3>2 DEF Runs, Releasable
    <3>4. CopyInv'
      BY <2>10, <3>1, <3>3 DEF CopyInv
    <3> QED
      BY <1>1, <2>2, <2>8, <3>1, <3>4, GoesOnTorn DEF Releasing
  <2> QED
    BY <2>11, <2>12
<1>6. CASE WriteInfo
  <2>1. PICK ok \in BOOLEAN : Write("app", TailCell("app"), Hdr(fw_info), ok)
                              /\ IF ok THEN Goto("verify") ELSE StageFails
    BY <1>6 DEF WriteInfo
  <2>2. bpc = "info" /\ UNCHANGED <<fw_info, writer>>
    BY <1>6 DEF WriteInfo
  <2>3. part["app"][TailCell("app")] = Erased /\ Runs("app", fw_info)
    BY <1>4, <2>2 DEF CopyInv
  <2>4. bpc' = "verify" /\ stage' = stage
    BY <2>1, <2>3, CleanWrite DEF Goto
  <2>5. Hdr(fw_info) \in Cell /\ Programmed(Erased, Hdr(fw_info)) = Hdr(fw_info)
    BY <1>1, CellTypes DEF Programmed
  <2>6. /\ PartTypeOK' /\ part'["download"] = part["download"]
        /\ \A a \in Addr("app") : a # TailCell("app") => part'["app"][a] = part["app"][a]
        /\ part'["app"][TailCell("app")] = Hdr(fw_info)
    BY <1>0, <2>1, <2>3, <2>5, WriteProps
  <2>7. Runs("app", fw_info)'
    BY <1>3, <2>2, <2>3, <2>6 DEF Runs
  <2>8. CopyInv'
    BY <2>2, <2>4, <2>6, <2>7 DEF CopyInv
  <2> QED
    BY <1>1, <2>2, <2>4, <2>6, <2>8, GoesOnTorn DEF Releasing
<1> QED
  BY <1>5, <1>6

LEMMA VerifyTorn ==
    ASSUME TypeInv, TornInv, faults = 0, faults' = 0, stage = "release",
           VerifyPasses \/ VerifyFails
    PROVE  TornInv'
<1>1. bpc = "verify" /\ fw_info \in Firmware /\ UNCHANGED <<part, writer>>
  BY DEF VerifyPasses, VerifyFails, ReadFails, TypeInv, TypeOK, BootTypeOK
<1>2. Runs("app", fw_info)
  BY <1>1 DEF TornInv, CopyInv
<1>3. Intact /\ Intact'
  BY <1>1, <1>2 DEF Intact, Runs
<1>4. CASE VerifyPasses
  <2>1. bpc' \in {"sign", "jump"} /\ stage' = stage
    BY <1>4, CleanVerify DEF Goto, TypeInv, TypeOK
  <2> QED
    BY <1>3, <2>1 DEF TornInv, ReadyInv, WriterInv, CopyInv, OutcomeInv, Releasing
<1>5. CASE VerifyFails
  BY <1>1, <1>3, <1>5, GivesUpTorn DEF VerifyFails
<1> QED
  BY <1>4, <1>5

LEMMA SignTorn ==
    ASSUME TypeInv, TornInv, faults = 0, WriteSign \/ Jump \/ Start
    PROVE  TornInv'
<1>0. "app" \in PartName /\ Source \in PartName /\ Source # "app"
  BY DEF Source, PartName
<1>1. ASSUME writer = "release"
      PROVE  /\ Intact \/ \E f \in Firmware : Recoverable(f)
             /\ bpc \in {"sign", "jump"} \/ stage \in {"download", "factory"} => Intact
  BY <1>1 DEF TornInv, OutcomeInv
<1>2. CASE WriteSign
  <2>1. fw_info \in Firmware /\ bpc = "sign" /\ bpc' = "jump" /\ UNCHANGED <<stage, writer>>
    BY <1>2 DEF WriteSign, Goto, TypeInv, TypeOK, BootTypeOK
  <2>2. part'["app"] = part["app"]
    <3>1. CASE UNCHANGED part
      BY <3>1
    <3>2. CASE InPart(Source, SignCell(fw_info), 1)
               /\ \E ok \in BOOLEAN : Write(Source, SignCell(fw_info), Zero, ok)
      <4>1. SignCell(fw_info) \in Addr(Source)
        BY <1>0, <2>1, <3>2, FirmwareFields, PartLens DEF InPart, Addr
      <4> QED
        BY <1>0, <3>2, <4>1, WriteProps, CellTypes DEF TypeInv, TypeOK
    <3> QED
      BY <1>2, <3>1, <3>2 DEF WriteSign
  <2>3. Intact => Intact'
    BY <2>2, IntactKept
  <2> QED
    BY <1>1, <2>1, <2>3 DEF TornInv, ReadyInv, WriterInv, CopyInv, OutcomeInv, Releasing
<1>3. CASE Jump \/ Start
  <2>1. UNCHANGED <<part, writer>>
    BY <1>3 DEF Jump, Start
  <2>2. /\ Intact' <=> Intact
        /\ (\E f \in Firmware : Recoverable(f))' <=> \E f \in Firmware : Recoverable(f)
    BY <2>1 DEF Intact, Runs, Recoverable, FwCheck, Holds, Signed
  <2>3. bpc' \in {"app", "check", "reset"}
    BY <1>3 DEF Jump, Start, Goto, GoOn
  <2>4. CASE Jump
    BY <1>1, <2>1, <2>2, <2>3, <2>4
       DEF Jump, TornInv, ReadyInv, WriterInv, CopyInv, OutcomeInv, Releasing
  <2>5. CASE Start
    <3>1. bpc' = "check" /\ stage' \in {"key", "release"}
      BY <2>5 DEF Start
    <3> QED
      BY <1>1, <2>1, <2>2, <3>1 DEF TornInv, ReadyInv, WriterInv, CopyInv, OutcomeInv, Releasing
  <2> QED
    BY <1>3, <2>4, <2>5
<1> QED
  BY <1>2, <1>3
---------------------------------------------------------------------------
(***************************************************************************)
(* The update thread and the power.                                        *)
(***************************************************************************)
LEMMA OtaSparesApp ==
    ASSUME TypeInv, OtaThread
    PROVE  part'["app"] = part["app"]
<1>0. "app" \in PartName /\ Dest \in PartName /\ Dest # "app"
  BY DEF Dest, PartName
<1>1. CASE Poll \/ OpenFile \/ Begin \/ End
  BY <1>1 DEF Poll, OpenFile, Begin, End
<1>2. CASE EraseDest
  BY <1>0, <1>2, EraseProps DEF EraseDest, TypeInv, TypeOK
<1>3. CASE Data
  <2>1. ASSUME fd_ok, cur < Len(file[mode]), InPart(Dest, cur, 1), StoreCell(file[mode][cur + 1])
        PROVE  part'["app"] = part["app"]
    <3>1. file[mode] \in Seq(Cell) /\ cur \in Nat
      BY <2>1 DEF TypeInv, TypeOK, OtaTypeOK
    <3>2. file[mode][cur + 1] \in Cell
      BY <2>1, <3>1, ElementOfSeq, LenProperties
    <3>3. cur \in Addr(Dest)
      BY <2>1, <3>1, DestPart, PartLens DEF InPart, Addr
    <3> QED
      BY <1>0, <2>1, <3>2, <3>3, WriteProps, ProgramProps DEF StoreCell, TypeInv, TypeOK
  <2>2. ASSUME ReadError
        PROVE  part'["app"] = part["app"]
    BY <2>2, OverrunProps DEF ReadError, TypeInv, TypeOK
  <2> QED
    BY <1>3, <2>1, <2>2 DEF Data
<1> QED
  BY <1>1, <1>2, <1>3 DEF OtaThread

LEMMA PowerTorn ==
    ASSUME TypeInv, TornInv, faults = 0, PowerLoss
    PROVE  TornInv'
<1>0. /\ bpc' = "reset" /\ stage' = "release" /\ writer' = writer
      /\ PartTypeOK /\ {"app", "download", "factory"} = PartName
      /\ UNCHANGED part \/ Spoil(InFlight[1], InFlight[2])
  BY DEF PowerLoss, BootReset, TypeInv, TypeOK, PartName
<1>1. ASSUME writer = "release"
      PROVE  (Intact \/ \E f \in Firmware : Recoverable(f))'
  <2>1. ASSUME \A a \in Addr("app") : part'["app"][a] = part["app"][a],
               \A a \in Addr("download") : part'["download"][a] = part["download"][a]
        PROVE  (Intact \/ \E f \in Firmware : Recoverable(f))'
    BY <1>1, <2>1, IntactKept, RecoverableKept DEF TornInv, OutcomeInv
  <2>2. CASE UNCHANGED part
    BY <2>1, <2>2
  <2>3. CASE Spoil(InFlight[1], InFlight[2]) /\ bpc \in {"app", "sign"}
    <3>1. InFlight[1] \in PartName /\ InFlight[1] # "app"
      BY <2>3 DEF InFlight, BootInFlight, OtaInFlight, Source, Dest, PartName
    <3>2. part'["app"] = part["app"]
      BY <1>0, <2>3, <3>1, SpoilProps
    <3>3. Intact
      BY <1>1, <2>3 DEF TornInv, OutcomeInv
    <3> QED
      BY <3>2, <3>3, IntactKept
  <2>4. CASE Spoil(InFlight[1], InFlight[2]) /\ bpc \in Releasing
    <3>1. InFlight[1] = "app"
      BY <2>4 DEF InFlight, BootInFlight, Releasing
    <3>2. part'["download"] = part["download"]
      BY <1>0, <2>4, <3>1, SpoilProps
    <3>3. stage = "release" /\ fw_info \in Firmware /\ Recoverable(fw_info)
      BY <1>1, <2>4 DEF TornInv, WriterInv, ReadyInv, Releasing, Recoverable, TypeInv, TypeOK,
         BootTypeOK, BootBounds
    <3> QED
      BY <3>2, <3>3, RecoverableKept
  <2>5. CASE Spoil(InFlight[1], InFlight[2]) /\ bpc \in {"reset", "check", "start", "jump"}
    <3>1. InFlight = <<"app", {}>>
      BY <2>5 DEF InFlight, BootInFlight
    <3>2. /\ part'["download"] = part["download"]
          /\ \A a \in Addr("app") : part'["app"][a] = part["app"][a]
      BY <1>0, <2>5, <3>1, SpoilProps
    <3> QED
      BY <2>1, <3>2
  <2> QED
    BY <1>0, <2>2, <2>3, <2>4, <2>5 DEF TypeInv, TypeOK, BootTypeOK, BootPc, Releasing
<1> QED
  BY <1>0, <1>1 DEF TornInv, ReadyInv, WriterInv, CopyInv, OutcomeInv, Releasing

LEMMA TornStep ==
    ASSUME HeaderFits
    PROVE  TypeInv /\ TornInv /\ [Next]_vars => TornInv'
<1> SUFFICES ASSUME TypeInv, TornInv, [Next]_vars, faults' = 0 PROVE TornInv'
  BY DEF TornInv
<1>0. faults = 0
  BY FaultsGrow
<1>1. CASE Boot
  <2>1. CleanNext
    BY <1>1, CleanBoot DEF Boot, TypeInv, TypeOK
  <2>2. CASE bpc \in Releasing /\ stage # "release"
    BY <1>0, <2>1, <2>2, ResumeTorn
  <2>3. CASE ~(bpc \in Releasing /\ stage # "release")
    <3>1. EraseApp \/ EraseTail \/ CopyCell \/ WriteInfo \/ VerifyPasses \/ VerifyFails
            => stage = "release"
      BY <2>3 DEF EraseApp, EraseTail, CopyCell, WriteInfo, VerifyPasses, VerifyFails, Releasing
    <3> QED
      BY <1>0, <2>1, <3>1, CheckTorn, EraseTorn, CopyTorn, VerifyTorn, SignTorn DEF CleanNext
  <2> QED
    BY <2>2, <2>3
<1>2. CASE App
  <2>1. bpc' = "app" /\ Intact /\ part'["app"] = part["app"]
    BY <1>2, OtaSparesApp DEF App, bootVars
  <2>2. Intact'
    BY <2>1, IntactKept
  <2> QED
    BY <2>1, <2>2 DEF TornInv, ReadyInv, WriterInv, CopyInv, OutcomeInv, Releasing
<1>3. CASE Reboot
  <2>1. bpc = "app" /\ bpc' = "reset" /\ UNCHANGED <<part, writer>>
    BY <1>3 DEF Reboot, BootReset
  <2>2. writer = "release" => Intact
    BY <1>0, <2>1 DEF TornInv, OutcomeInv
  <2>3. Intact => Intact'
    BY <2>1 DEF Intact, Runs
  <2> QED
    BY <2>1, <2>2, <2>3 DEF TornInv, ReadyInv, WriterInv, CopyInv, OutcomeInv, Releasing
<1>4. CASE PowerLoss
  BY <1>0, <1>4, PowerTorn
<1>5. CASE World \/ UNCHANGED vars
  <2>1. UNCHANGED <<part, faults, bootVars>>
    BY <1>5, OtaWorldType DEF World, vars, TypeInv, TypeOK
  <2> QED
    BY <1>0, <2>1 DEF bootVars, TornInv, ReadyInv, WriterInv, CopyInv, OutcomeInv, Recoverable,
       FwCheck, Holds, Signed, Intact, Runs
<1> QED
  BY <1>1, <1>2, <1>3, <1>4, <1>5 DEF Next

LEMMA TornInvariant ==
    ASSUME HeaderFits
    PROVE  Spec => []TornInv
<1>1. TypeInv /\ TornInv /\ [Next]_vars => TornInv'
  BY TornStep
<1> QED
  BY <1>1, TornInit, TypeInvariant, PTL DEF Spec
---------------------------------------------------------------------------
(***************************************************************************)
(* A release that has left the app half written can be repeated: its       *)
(* package is still in download, whole, unsigned and accepted, wherever    *)
(* the power went and however often.                                       *)
(***************************************************************************)
THEOREM TornRecoverable ==
    ASSUME HeaderFits
    PROVE  Spec => []TornIsRecoverable
<1>1. TornInv => TornIsRecoverable
  BY DEF TornInv, OutcomeInv, Recoverable, TornIsRecoverable
<1> QED
  BY <1>1, TornInvariant, PTL

(***************************************************************************)
(* The bootloader never jumps into what a release has left half written,   *)
(* though the jump itself looks at two words only.                         *)
(***************************************************************************)
THEOREM TornNeverRuns ==
    ASSUME HeaderFits
    PROVE  Spec => []TornReleaseNeverRuns
<1>1. TornInv => TornReleaseNeverRuns
  BY DEF TornInv, OutcomeInv, TornReleaseNeverRuns
<1> QED
  BY <1>1, TornInvariant, PTL
---------------------------------------------------------------------------
(***************************************************************************)
(* ReleasedOnce.  A release that has been started and is not cut off ends  *)
(* with a sign, for none of its operations and not the verification can    *)
(* fail; and what is signed stays so until the update thread erases the    *)
(* header.                                                                 *)
(***************************************************************************)
\* There is nothing in download to release.
Quiet ==
    \A f \in Firmware :
      FwCheck("download", f) /\ Releasable(f) => Signed("download", f)

InProgress == stage = "release" /\ bpc \in Releasing \cup {"sign"}

CountInv ==
    releases > cuts => releases = cuts + 1 /\ (Quiet \/ InProgress)

\* The count starts again before the download package is replaced.
StoringInv ==
    Dest = "download" /\ (opc = "data" \/ (opc = "erase" /\ sec > 0)) => releases = 0

ToSignInv ==
    bpc = "sign" => stage = "release" /\ Releasable(fw_info) /\ FwCheck("download", fw_info)

OnceInv == faults = 0 => CountInv /\ StoringInv /\ ToSignInv

LEMMA OnceInit == Init => OnceInv
BY DEF Init, BootInit, OtaInit, OnceInv, CountInv, StoringInv, ToSignInv

LEMMA CountTypes == TypeInv => releases \in Nat /\ cuts \in Nat /\ MaxRelease \in Nat
BY CrashAssumption DEF TypeInv, TypeOK, CrashAssumption, MaxRelease

LEMMA QuietKept ==
    ASSUME \A a \in Addr("download") : part'["download"][a] = part["download"][a], Quiet
    PROVE  Quiet'
BY PackageKept DEF Quiet

\* Without a header there is no package.
LEMMA NoHeader ==
    ASSUME part'["download"][0] = Junk
    PROVE  Quiet'
BY CellsDiffer DEF Quiet, FwCheck, Holds
---------------------------------------------------------------------------
\* A release without failures goes on to the sign.
LEMMA ReleaseGoesOn ==
    ASSUME SignFits, TypeInv, TornInv, faults = 0, faults' = 0,
           stage = "release", bpc \in Releasing, CleanNext
    PROVE  stage' = "release" /\ bpc' \in Releasing \cup {"sign"}
<1> USE DEF TypeInv, TypeOK
<1>0. /\ fw_info \in Firmware /\ Releasable(fw_info) /\ ~ReadFails /\ at \in Nat
      /\ CopyInv /\ FwCheck("download", fw_info) /\ ~Signed("download", fw_info)
  BY FaultProps, PartLens
     DEF BootTypeOK, BootBounds, Releasing, TornInv, ReadyInv, ReadFails, PartTypeOK, PartName
<1>1. CASE EraseApp
  BY <1>1, CleanErase DEF EraseApp, Goto, Releasing
<1>2. CASE EraseTail
  BY <1>2, CleanErase DEF EraseTail, Goto, Releasing
<1>3. CASE CopyCell
  <2>1. bpc = "copy" /\ at < fw_info.raw_size
    BY <1>3 DEF CopyCell, BootBounds
  <2>2. at \in 0 .. fw_info.raw_size - 1
    BY <1>0, <2>1, FirmwareFields
  <2>3. part["app"][at] = Erased
    BY <1>0, <2>1, <2>2 DEF CopyInv
  <2> QED
    BY <1>0, <1>3, <2>3, CleanWrite DEF CopyCell, Goto, Releasing
<1>4. CASE WriteInfo
  <2>1. part["app"][TailCell("app")] = Erased
    BY <1>0, <1>4 DEF CopyInv, WriteInfo
  <2> QED
    BY <1>4, <2>1, CleanWrite DEF WriteInfo, Goto, Releasing
<1>5. CASE VerifyPasses \/ VerifyFails
  <2>1. part["app"][TailCell("app")] = Hdr(fw_info) /\ Runs("app", fw_info)
    BY <1>0, <1>5 DEF CopyInv, VerifyPasses, VerifyFails
  <2>2. DestVerified(fw_info)
    BY <1>0, <2>1 DEF DestVerified, SignFits
  <2>3. VerifyPasses
    BY <1>0, <1>5, <2>2 DEF VerifyFails
  <2>4. \A g \in Firmware : DestVerified(g) => g = fw_info
    BY <2>1, CellsDiffer DEF DestVerified
  <2> QED
    BY <1>0, <2>3, <2>4, CleanVerify DEF Goto, Source
<1>6. ~(Start \/ CheckPasses \/ CheckFails \/ StartRelease \/ WriteSign \/ Jump)
  BY DEF Start, CheckPasses, CheckFails, StartRelease, WriteSign, Jump, Releasing
<1> QED
  BY <1>1, <1>2, <1>3, <1>4, <1>5, <1>6 DEF CleanNext

\* The bootloader writes nothing to download but the sign.
LEMMA BootSparesDownload ==
    ASSUME TypeInv, BootNext, bpc # "sign"
    PROVE  part'["download"] = part["download"]
<1> USE DEF TypeInv, TypeOK
<1>0. "app" \in PartName /\ "download" \in PartName /\ "app" # "download"
  BY DEF PartName
<1>1. CASE \/ Start \/ CheckPasses \/ CheckMisled \/ CheckFails \/ StartRelease
           \/ VerifyPasses \/ VerifyFails \/ Jump
  BY <1>1 DEF Start, CheckPasses, CheckMisled, CheckFails, StartRelease, VerifyPasses, VerifyFails,
     Jump, ReadFails
<1>2. CASE EraseApp \/ EraseTail
  BY <1>0, <1>2, EraseProps DEF EraseApp, EraseTail
<1>3. CASE CopyCell \/ CopyMisled
  <2>1. fw_info \in Firmware /\ at \in Nat /\ at < fw_info.raw_size /\ Releasable(fw_info)
    BY <1>3, PartLens DEF CopyCell, CopyMisled, BootBounds, BootTypeOK, PartName
  <2>2. fw_info.raw_size \in Nat /\ PartLen["app"] \in Nat /\ fw_info.raw_size <= PartLen["app"]
    BY <2>1, FirmwareFields, LastSectorBound, PartLens DEF PartName
  <2>3. Unpacked(Source, fw_info, at) \in Cell /\ at \in Addr("app")
    BY <2>1, <2>2, CellTypes DEF Unpacked, Addr
  <2> QED
    BY <1>0, <1>3, <2>3, WriteProps, ProgramProps, CellTypes DEF CopyCell, CopyMisled, ReadFails
<1>4. CASE WriteInfo
  <2>1. Hdr(fw_info) \in Cell /\ TailCell("app") \in Addr("app")
    BY <1>4, CellTypes, PartLens DEF WriteInfo, BootTypeOK, PartName
  <2> QED
    BY <1>0, <1>4, <2>1, WriteProps DEF WriteInfo
<1>5. ~WriteSign
  BY DEF WriteSign
<1> QED
  BY <1>1, <1>2, <1>3, <1>4, <1>5 DEF BootNext

\* With the sign there is nothing left to release.
LEMMA SignQuiets ==
    ASSUME SignFits, TypeInv, ToSignInv, faults = 0, faults' = 0, WriteSign
    PROVE  Quiet'
<1> USE DEF TypeInv, TypeOK
<1>1. /\ bpc = "sign" /\ fw_info \in Firmware /\ Source = "download" /\ "download" \in PartName
      /\ Releasable(fw_info) /\ FwCheck("download", fw_info) /\ fw_info' = fw_info
  BY DEF WriteSign, ToSignInv, Source, BootTypeOK, PartName
<1>2. /\ InPart("download", SignCell(fw_info), 1)
      /\ fw_info.pkg_size \in Nat \ {0} /\ SignCell(fw_info) = fw_info.pkg_size + 1
      /\ PartLen["download"] \in Nat \ {0}
  BY <1>1, FirmwareFields, PartLens DEF SignFits
<1>3. SignCell(fw_info) \in Addr("download") /\ 0 \in Addr("download") /\ SignCell(fw_info) # 0
  BY <1>2 DEF InPart, Addr
<1>4. PICK ok \in BOOLEAN : Write("download", SignCell(fw_info), Zero, ok)
  BY <1>1, <1>2 DEF WriteSign
<1>5. /\ part'["download"][0] = part["download"][0]
      /\ part'["download"][SignCell(fw_info)] = Zero
  BY <1>1, <1>3, <1>4, WriteProps, CellTypes DEF Programmed
<1>6. Signed("download", fw_info)'
  BY <1>1, <1>2, <1>5 DEF Signed
<1>7. \A f \in Firmware : FwCheck("download", f)' => f = fw_info
  BY <1>1, <1>5, CellsDiffer DEF FwCheck, Holds
<1> QED
  BY <1>1, <1>6, <1>7 DEF Quiet
---------------------------------------------------------------------------
LEMMA BootOnce ==
    ASSUME SignFits, TypeInv, TornInv, OnceInv, faults = 0, faults' = 0, Boot
    PROVE  OnceInv'
<1>0. /\ BootNext /\ CleanNext /\ PartTypeOK /\ UNCHANGED <<otaVars, cuts>>
      /\ releases \in Nat /\ cuts \in Nat /\ MaxRelease \in Nat
      /\ releases' = IF StartsRelease /\ releases < MaxRelease THEN releases + 1 ELSE releases
  BY CountTypes, CleanBoot DEF Boot, TypeInv, TypeOK
<1>1. ToSignInv'
  <2> SUFFICES ASSUME bpc' = "sign" PROVE ToSignInv'
    BY DEF ToSignInv
  <2>1. VerifyPasses
    BY <1>0, CleanCheck, RoutingType DEF CleanNext, Start, Accepted, CheckFails, StartRelease,
       EraseApp, EraseTail, CopyCell, WriteInfo, VerifyFails, WriteSign, Jump, Goto, GoOn, TypeInv,
       TypeOK
  <2>2. bpc = "verify" /\ stage = "release" /\ UNCHANGED <<part, stage>>
    BY <1>0, <2>1, CleanVerify DEF VerifyPasses, Goto
  <2>3. part["app"][TailCell("app")] = Hdr(fw_info) /\ FwCheck("download", fw_info)
        /\ Releasable(fw_info)
    BY <2>2 DEF TornInv, CopyInv, ReadyInv, Releasing, TypeInv, BootBounds
  <2>4. fw_info' = fw_info
    BY <2>1, <2>3, CellsDiffer DEF VerifyPasses, DestVerified
  <2> QED
    BY <2>2, <2>3, <2>4 DEF ToSignInv, FwCheck, Holds
<1>2. StoringInv'
  <2>1. opc = "poll"
    BY DEF Boot, TypeInv, BootBounds
  <2> QED
    BY <1>0, <2>1 DEF StoringInv, otaVars
<1>3. CountInv'
  <2>1. CASE StartsRelease
    <3>1. StartRelease /\ stage = "release" /\ Releasable(fw_info) /\ fw_info \in Firmware
      BY <1>0, <2>1, RoutingType DEF StartsRelease, CleanNext, Start, CheckPasses, CheckFails,
         StartRelease, EraseApp, EraseTail, CopyCell, WriteInfo, VerifyPasses, VerifyFails,
         WriteSign, Jump, TypeInv, TypeOK, BootTypeOK
    <3>2. ~Quiet /\ ~InProgress
      BY <2>1, <3>1 DEF Quiet, InProgress, StartsRelease, TornInv, ReadyInv, Releasing
    <3>3. releases <= cuts
      BY <1>0, <3>2 DEF OnceInv, CountInv
    <3>4. InProgress'
      BY <2>1, <3>1 DEF StartsRelease, InProgress, StartRelease, Goto, Releasing
    <3> QED
      BY <1>0, <3>3, <3>4 DEF CountInv
  <2>2. CASE ~StartsRelease
    <3>1. releases' = releases /\ cuts' = cuts
      BY <1>0, <2>2
    <3>2. CASE bpc = "sign"
      <4>1. WriteSign
        BY <1>0, <3>2 DEF CleanNext, Start, CheckPasses, CheckFails, StartRelease, EraseApp,
           EraseTail, CopyCell, WriteInfo, VerifyPasses, VerifyFails, Jump
      <4>2. Quiet'
        BY <4>1, SignQuiets DEF OnceInv
      <4> QED
        BY <3>1, <4>2 DEF OnceInv, CountInv
    <3>3. CASE bpc # "sign" /\ Quiet
      BY <1>0, <3>1, <3>3, BootSparesDownload, QuietKept DEF OnceInv, CountInv
    <3>4. CASE bpc # "sign" /\ InProgress
      <4>1. InProgress'
        BY <1>0, <3>4, ReleaseGoesOn DEF InProgress
      <4> QED
        BY <3>1, <4>1 DEF OnceInv, CountInv
    <3> QED
      BY <3>1, <3>2, <3>3, <3>4 DEF OnceInv, CountInv
  <2> QED
    BY <2>1, <2>2
<1> QED
  BY <1>1, <1>2, <1>3 DEF OnceInv

LEMMA OtaOnce ==
    ASSUME TypeInv, OnceInv, faults = 0, faults' = 0, App
    PROVE  OnceInv'
<1>0. /\ OtaThread /\ UNCHANGED bootVars /\ bpc = "app"
      /\ IF opc = "erase" /\ sec = 0 /\ Dest = "download"
           THEN releases' = 0 /\ cuts' = 0
           ELSE UNCHANGED <<releases, cuts>>
      /\ releases \in Nat /\ cuts \in Nat /\ sec \in Nat
  BY CountTypes DEF App, TypeInv, TypeOK, OtaTypeOK
<1>1. ToSignInv'
  BY <1>0 DEF ToSignInv, bootVars
<1>2. StoringInv'
  <2>1. ASSUME NEW sta, BeginFails(sta)
        PROVE  opc' \notin {"erase", "data"}
    BY <2>1 DEF BeginFails, NextPass
  <2>2. CASE Poll \/ OpenFile \/ End
    BY <2>2 DEF Poll, OpenFile, End, NextPass, StoringInv
  <2>3. CASE Begin
    BY <2>1, <2>3 DEF Begin, StoringInv
  <2>4. CASE EraseDest
    <3>1. opc = "erase" /\ (opc' \in {"erase", "data"} => mode' = mode)
      BY <2>1, <2>4 DEF EraseDest
    <3> QED
      BY <1>0, <3>1 DEF OnceInv, StoringInv, Dest
  <2>5. CASE Data
    BY <1>0, <2>5 DEF Data, OnceInv, StoringInv, Dest
  <2> QED
    BY <1>0, <2>2, <2>3, <2>4, <2>5 DEF OtaThread
<1>3. CountInv'
  <2>1. CASE part'["download"] = part["download"]
    <3>1. Quiet => Quiet'
      BY <2>1, QuietKept
    <3> QED
      BY <1>0, <3>1 DEF OnceInv, CountInv, InProgress, Releasing
  <2>2. CASE part'["download"] # part["download"]
    <3>1. opc \in {"erase", "data"}
      BY <1>0, <2>2 DEF OtaThread, Poll, OpenFile, Begin, End, EraseDest, Data
    <3>2. Dest = "download"
      <4>0. Dest \in PartName /\ "download" \in PartName /\ TypeOK /\ PartTypeOK
        BY DestPart DEF TypeInv, TypeOK, PartName
      <4>1. CASE EraseDest
        BY <2>2, <4>0, <4>1, EraseProps DEF EraseDest
      <4>2. CASE Data
        <5>0. CASE ~fd_ok
          BY <2>2, <4>0, <4>2, <5>0, OverrunProps, DestPart DEF Data, ReadError
        <5>1. CASE fd_ok
          <6>1. cur < Len(file[mode]) /\ InPart(Dest, cur, 1) /\ StoreCell(file[mode][cur + 1])
            BY <2>2, <4>2, <5>1 DEF Data
          <6>2. file[mode] \in Seq(Cell) /\ cur \in Nat
            BY <5>1 DEF TypeInv, TypeOK, OtaTypeOK
          <6>3. file[mode][cur + 1] \in Cell
            BY <6>1, <6>2, ElementOfSeq, LenProperties
          <6>4. cur \in Addr(Dest)
            BY <6>1, <6>2, DestPart, PartLens DEF InPart, Addr
          <6> QED
            BY <2>2, <4>0, <6>1, <6>3, <6>4, StoredClean, WriteProps
        <5> QED
          BY <5>0, <5>1
      <4> QED
        BY <1>0, <3>1, <4>1, <4>2 DEF OtaThread, Poll, OpenFile, Begin, End
    <3>3. releases' = 0 /\ cuts' \in Nat
      <4>1. sec = 0 \/ sec > 0
        BY <1>0
      <4>2. CASE opc = "erase" /\ sec = 0
        BY <1>0, <3>2, <4>2
      <4>3. CASE opc = "data" \/ (opc = "erase" /\ sec > 0)
        <5>1. releases = 0
          BY <3>2, <4>3 DEF OnceInv, StoringInv
        <5> QED
          BY <1>0, <5>1
      <4> QED
        BY <3>1, <4>1, <4>2, <4>3
    <3> QED
      BY <3>3 DEF CountInv
  <2> QED
    BY <2>1, <2>2
<1> QED
  BY <1>1, <1>2, <1>3 DEF OnceInv

LEMMA PowerOnce ==
    ASSUME TypeInv, OnceInv, faults = 0, PowerLoss
    PROVE  OnceInv'
<1>0. /\ bpc' = "reset" /\ opc' = "poll" /\ releases' = releases
      /\ releases \in Nat /\ cuts \in Nat
      /\ UNCHANGED part \/ Spoil(InFlight[1], InFlight[2])
      /\ cuts' = IF bpc = "app" THEN cuts ELSE cuts + 1
  BY CountTypes DEF PowerLoss, BootReset, OtaReset
<1>1. CASE bpc # "app"
  BY <1>0, <1>1 DEF OnceInv, CountInv, StoringInv, ToSignInv
<1>2. CASE bpc = "app"
  <2>1. ASSUME Quiet, releases > cuts
        PROVE  Quiet'
    <3>0. Dest \in PartName /\ "download" \in PartName /\ PartTypeOK /\ sec \in Nat
      BY DestPart DEF TypeInv, TypeOK, OtaTypeOK, PartName
    <3>1. CASE UNCHANGED part
      BY <2>1, <3>1, QuietKept
    <3>2. CASE Spoil(InFlight[1], InFlight[2]) /\ Dest # "download"
      <4>1. InFlight[1] = Dest
        BY <1>2 DEF InFlight, OtaInFlight
      <4>2. part'["download"] = part["download"]
        BY <3>0, <3>2, <4>1, SpoilProps
      <4> QED
        BY <2>1, <4>2, QuietKept
    <3>3. CASE Spoil(InFlight[1], InFlight[2]) /\ Dest = "download" /\ opc = "erase"
      <4>1. InFlight = <<"download", SectorCellsOf("download", sec)>>
        BY <1>2, <3>3 DEF InFlight, OtaInFlight
      <4>2. sec = 0
        BY <1>0, <2>1, <3>0, <3>3 DEF OnceInv, StoringInv
      <4>3. 0 \in Addr("download") /\ SectorOf(0) = 0
        BY <3>0, PartLens, SectorProps DEF Addr
      <4>4. part'["download"][0] = Junk
        BY <3>0, <3>3, <4>1, <4>2, <4>3, SpoilProps DEF SectorCellsOf
      <4> QED
        BY <4>4, NoHeader
    <3>4. CASE Spoil(InFlight[1], InFlight[2]) /\ Dest = "download" /\ opc \notin {"erase", "data"}
      <4>1. InFlight = <<"download", {}>>
        BY <1>2, <3>4 DEF InFlight, OtaInFlight
      <4>2. \A a \in Addr("download") : part'["download"][a] = part["download"][a]
        BY <3>0, <3>4, <4>1, SpoilProps
      <4> QED
        BY <2>1, <4>2, QuietKept
    <3>5. ~(Dest = "download" /\ opc = "data")
      <4>1. releases # 0
        BY <1>0, <2>1
      <4> QED
        BY <4>1 DEF OnceInv, StoringInv
    <3> QED
      BY <1>0, <3>1, <3>2, <3>3, <3>4, <3>5
  <2> QED
    BY <1>0, <1>2, <2>1 DEF OnceInv, CountInv, StoringInv, ToSignInv, InProgress, Releasing
<1> QED
  BY <1>1, <1>2

LEMMA OnceStep ==
    ASSUME SignFits
    PROVE  TypeInv /\ TornInv /\ OnceInv /\ [Next]_vars => OnceInv'
<1> SUFFICES ASSUME TypeInv, TornInv, OnceInv, [Next]_vars, faults' = 0 PROVE OnceInv'
  BY DEF OnceInv
<1>0. faults = 0
  BY FaultsGrow
<1>1. CASE Boot
  BY <1>0, <1>1, BootOnce
<1>2. CASE App
  BY <1>0, <1>2, OtaOnce
<1>3. CASE Reboot
  BY <1>0, <1>3 DEF Reboot, BootReset, OtaReset, history, OnceInv, CountInv, StoringInv, ToSignInv,
     InProgress, Releasing, Quiet, FwCheck, Holds, Signed
<1>4. CASE PowerLoss
  BY <1>0, <1>4, PowerOnce
<1>5. CASE World \/ UNCHANGED vars
  <2>1. UNCHANGED <<part, bootVars, history, opc, mode, sec>>
    BY <1>5, OtaWorldType DEF World, vars, otaVars, TypeInv, TypeOK, OtaWorld, Plug, Unplug,
       TftpCreate, TftpWrite, otaRam
  <2> QED
    BY <1>0, <2>1 DEF bootVars, history, OnceInv, CountInv, StoringInv, ToSignInv,
       InProgress, Releasing, Quiet, FwCheck, Holds, Signed, Dest
<1> QED
  BY <1>1, <1>2, <1>3, <1>4, <1>5 DEF Next

LEMMA OnceInvariant ==
    ASSUME HeaderFits, SignFits
    PROVE  Spec => []OnceInv
<1>1. TypeInv /\ TornInv /\ OnceInv /\ [Next]_vars => OnceInv'
  BY OnceStep
<1>2. Spec => [](TypeInv /\ TornInv)
  BY TypeInvariant, TornInvariant, PTL
<1> QED
  BY <1>1, <1>2, OnceInit, PTL DEF Spec

(***************************************************************************)
(* A stored package is unpacked by the release stage once, and once more   *)
(* at most for each loss of power in the bootloader, for every board whose *)
(* packages can be verified and signed and whose header fits.              *)
(***************************************************************************)
THEOREM OnceReleased ==
    ASSUME HeaderFits, SignFits
    PROVE  Spec => []ReleasedOnce
<1>1. TypeInv /\ OnceInv => ReleasedOnce
  BY CountTypes DEF OnceInv, CountInv, ReleasedOnce
<1> QED
  BY <1>1, TypeInvariant, OnceInvariant, PTL
=============================================================================
