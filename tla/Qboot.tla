------------------------------- MODULE Qboot -------------------------------
(***************************************************************************)
(* The bootloader packages/qboot/src/qboot.c: qbt_thread_entry and all it  *)
(* calls, with the shell left out (QBOOT_USING_SHELL undefined).           *)
(*                                                                         *)
(* One pass of qbt_thread_entry is a walk through at most four stages:     *)
(*   key       the factory key was held: resume the app from factory       *)
(*   release   release the download package if it is not released yet      *)
(*   download  the app would not start: resume it from download            *)
(*   factory   it still would not start: resume it from factory            *)
(* A stage checks its source package, unpacks it into the app partition    *)
(* and jumps to the app; a jump that returns leads to the next stage.      *)
(***************************************************************************)
EXTENDS FalPartition

CONSTANTS
    NoFw,         \* fw_info before a package has passed the check
    FactoryKey,   \* QBOOT_USING_FACTORY_KEY
    AppCheck      \* QBOOT_USING_APP_CHECK

ASSUME QbootAssumption ==
    /\ NoFw \notin Firmware
    /\ FactoryKey \in BOOLEAN
    /\ AppCheck \in BOOLEAN

VARIABLES
    bpc,          \* where qbt_thread_entry is; "app" once it has jumped
    stage,        \* the stage it is in
    fw_info,      \* the static fw_info
    at,           \* sector (erase) or cell (copy) the release is at
    writer        \* history: the stage that last touched the app partition

bootVars == <<bpc, stage, fw_info, at, writer>>

Stage == {"key", "release", "download", "factory"}

BootPc == {"reset", "check", "start", "erase", "erase_tail", "copy", "info",
           "verify", "sign", "jump", "app"}

BootTypeOK ==
    /\ bpc \in BootPc
    /\ stage \in Stage
    /\ fw_info \in Firmware \cup {NoFw}
    /\ bpc \in {"start", "erase", "erase_tail", "copy", "info", "verify", "sign"}
         => fw_info \in Firmware
    /\ at \in 0 .. PartLen["app"]
    /\ writer \in Stage \cup {"none"}

\* Mutant: every stage unpacks the factory package.
FactorySource == "factory"

\* The partition a stage takes its package from.
Source == IF stage \in {"key", "factory"} THEN "factory" ELSE "download"

\* Mutant: only the header is checked.
HeaderCheck(p, f) == part[p][0] = Hdr(f)

(***************************************************************************)
(* qbt_fw_check: header CRC and body CRC and, if the build asks for it,    *)
(* a dry run of the unpacking compared with raw_crc.                       *)
(***************************************************************************)
FwCheck(p, f) ==
    /\ Holds(p, f)
    /\ AppCheck /\ f.algo2 = "crc" => f.algo /\ f.raw_crc

\* The same with one cell that a failing read has left as fw_info or the
\* buffer held it before, perhaps from another partition.
FwCheckStale(p, f) ==
    /\ \E a \in 0 .. f.pkg_size : HoldsBut(p, f, a)
    /\ AppCheck /\ f.algo2 = "crc" => f.algo /\ f.raw_crc

\* What the unpacker delivers for cell i: it depends on the whole package.
Unpacked(p, f, i) == IF Holds(p, f) THEN Raw(f, i) ELSE Junk

\* qbt_dest_part_verify, g the header it finds in the tail.
DestVerified(g) ==
    /\ part["app"][TailCell("app")] = Hdr(g)
    /\ g.algo2 = "crc" => Runs("app", g) /\ g.raw_crc

(***************************************************************************)
(* qbt_jump_to_app looks at two words of the vector table only: it accepts *)
(* any cell 0 that is the start of some code, and garbage may pass.        *)
(***************************************************************************)
MayJump == part["app"][0].kind \in {"raw", "junk"}
MayStay == part["app"][0].kind # "raw"
---------------------------------------------------------------------------
(***************************************************************************)
(* Routing in qbt_thread_entry.                                            *)
(***************************************************************************)
NextStage == [key |-> "release", release |-> "download", download |-> "factory"]

\* The stage has not started the app: go on to the next one, or reboot.
GoOn ==
    \/ stage # "factory" /\ stage' = NextStage[stage] /\ bpc' = "check"
    \/ stage = "factory" /\ bpc' = "reset" /\ UNCHANGED stage

\* The result of qbt_release_from_part is ignored, a failed resume is not.
StageFails ==
    \/ stage = "release" /\ bpc' = "jump" /\ UNCHANGED stage
    \/ stage # "release" /\ GoOn

Goto(l) == bpc' = l /\ UNCHANGED stage

\* Reset: RAM is gone; the factory key is sampled first.
Start ==
    /\ bpc = "reset"
    /\ bpc' = "check"
    /\ stage' \in IF FactoryKey THEN {"key", "release"} ELSE {"release"}
    /\ fw_info' = NoFw
    /\ at' = 0
    /\ UNCHANGED <<part, faults, writer>>

\* Mutant: the sign is read the wrong way round.
CheckPassesInverted ==
    /\ bpc = "check"
    /\ \E f \in Firmware :
         /\ FwCheck(Source, f)
         /\ fw_info' = f
         /\ IF stage = "release"
              THEN Goto(IF Signed(Source, f) THEN "start" ELSE "jump")
              ELSE IF f.part_name = "app" THEN Goto("start") ELSE StageFails
    /\ UNCHANGED <<part, faults, at, writer>>

(***************************************************************************)
(* The release cannot read the sign.  Reported, that means no sign; but    *)
(* release_sign is 0 before the read, and 0 is the sign (qboot.c:181-192). *)
(***************************************************************************)
SignUnread(unsigned) ==
    /\ stage = "release"
    /\ Fault
    /\ \/ Goto(unsigned)
       \/ Source \in NorParts /\ Goto("jump")

\* A release looks for the sign, a resume for the name of the partition.
Accepted(f) ==
    IF stage = "release" THEN Goto(IF Signed(Source, f) THEN "jump" ELSE "start")
    ELSE IF f.part_name = "app" THEN Goto("start") ELSE StageFails

\* qbt_release_from_part and qbt_app_resume_from up to qbt_fw_update.
CheckPasses ==
    /\ bpc = "check"
    /\ \E f \in Firmware :
         /\ FwCheck(Source, f)
         /\ fw_info' = f
         /\ \/ Accepted(f) /\ UNCHANGED faults
            \/ SignUnread("start")
    /\ UNCHANGED <<part, at, writer>>

\* A package passes that is not there: what is missing was in memory.
CheckMisled ==
    /\ bpc = "check"
    /\ ReadsStale(Source)
    /\ \E f \in Firmware :
         /\ FwCheckStale(Source, f)
         /\ fw_info' = f
         /\ Accepted(f)
    /\ UNCHANGED <<part, at, writer>>

CheckFails ==
    /\ bpc = "check"
    /\ \/ (\A f \in Firmware : ~FwCheck(Source, f)) /\ UNCHANGED <<part, faults>>
       \/ ReadFails
    /\ StageFails
    /\ fw_info' = NoFw
    /\ UNCHANGED <<at, writer>>

\* qbt_fw_update and the part of qbt_fw_release that touches no flash.
Releasable(f) ==
    /\ f.part_name = "app"
    /\ f.algo
    /\ InPart("app", 0, f.raw_size)

\* Mutant: the package is signed before it is unpacked.
SignThenRelease ==
    /\ bpc = "start"
    /\ IF Releasable(fw_info)
         THEN Goto("erase") /\ at' = 0 /\ writer' = stage
         ELSE StageFails /\ UNCHANGED <<at, writer>>
    /\ IF stage = "release" /\ InPart(Source, SignCell(fw_info), 1)
         THEN ProgramCell(Source, SignCell(fw_info), Zero)
         ELSE UNCHANGED part
    /\ UNCHANGED <<faults, fw_info>>

StartRelease ==
    /\ bpc = "start"
    /\ IF Releasable(fw_info)
         THEN Goto("erase") /\ at' = 0 /\ writer' = stage
         ELSE StageFails /\ UNCHANGED <<at, writer>>
    /\ UNCHANGED <<part, faults, fw_info>>

EraseApp ==
    /\ bpc = "erase"
    /\ \E ok \in BOOLEAN :
         /\ Erase("app", at, ok)
         /\ IF ~ok THEN StageFails /\ UNCHANGED at
            ELSE IF at = LastSector(0, fw_info.raw_size)
              THEN Goto("erase_tail") /\ at' = 0
              ELSE Goto("erase") /\ at' = at + 1
    /\ UNCHANGED <<fw_info, writer>>

EraseTail ==
    /\ bpc = "erase_tail"
    /\ \E ok \in BOOLEAN :
         /\ Erase("app", SectorOf(TailCell("app")), ok)
         /\ IF ok THEN Goto("copy") ELSE StageFails
    /\ UNCHANGED <<fw_info, at, writer>>

\* Mutant: the last cell of the code is not copied.
CopyOneShort ==
    /\ bpc = "copy"
    /\ \E ok \in BOOLEAN :
         /\ Write("app", at, Unpacked(Source, fw_info, at), ok)
         /\ IF ~ok THEN StageFails /\ UNCHANGED at
            ELSE /\ at' = at + 1
                 /\ Goto(IF at + 2 < fw_info.raw_size THEN "copy" ELSE "info")
    /\ UNCHANGED <<fw_info, writer>>

CopyCell ==
    /\ bpc = "copy"
    /\ \/ \E ok \in BOOLEAN :
            /\ Write("app", at, Unpacked(Source, fw_info, at), ok)
            /\ IF ~ok THEN StageFails /\ UNCHANGED at
               ELSE /\ at' = at + 1
                    /\ Goto(IF at + 1 < fw_info.raw_size THEN "copy" ELSE "info")
       \/ ReadFails /\ StageFails /\ UNCHANGED at
    /\ UNCHANGED <<fw_info, writer>>

\* What the buffer held before is unpacked, if it can be unpacked at all.
CopyMisled ==
    /\ bpc = "copy"
    /\ ReadsStale(Source)
    /\ ProgramCell("app", at, Junk)
    /\ \/ StageFails /\ UNCHANGED at
       \/ /\ at' = at + 1
          /\ Goto(IF at + 1 < fw_info.raw_size THEN "copy" ELSE "info")
    /\ UNCHANGED <<fw_info, writer>>

WriteInfo ==
    /\ bpc = "info"
    /\ \E ok \in BOOLEAN :
         /\ Write("app", TailCell("app"), Hdr(fw_info), ok)
         /\ IF ok THEN Goto("verify") ELSE StageFails
    /\ UNCHANGED <<fw_info, at, writer>>

(***************************************************************************)
(* qbt_dest_part_verify reads the header back into fw_info.  Only a        *)
(* release signs its package, and does not if it finds a sign there.       *)
(***************************************************************************)
VerifyPasses ==
    /\ bpc = "verify"
    /\ \E g \in Firmware :
         /\ DestVerified(g)
         /\ fw_info' = g
         /\ \/ /\ Goto(IF stage = "release" /\ ~Signed(Source, g) THEN "sign" ELSE "jump")
               /\ UNCHANGED faults
            \/ SignUnread("sign")
    /\ UNCHANGED <<part, at, writer>>

\* Mutant: a package is signed whether it verifies or not.
SignUnverified ==
    /\ bpc = "verify"
    /\ \A g \in Firmware : ~DestVerified(g)
    /\ IF stage = "release" THEN Goto("sign") ELSE StageFails
    /\ UNCHANGED <<part, faults, fw_info, at, writer>>

VerifyFails ==
    /\ bpc = "verify"
    /\ \/ (\A g \in Firmware : ~DestVerified(g)) /\ UNCHANGED <<part, faults>>
       \/ ReadFails
    /\ StageFails
    /\ UNCHANGED <<fw_info, at, writer>>

\* Mutant: the sign is never written.
SkipSign == bpc = "sign" /\ Goto("jump") /\ UNCHANGED <<part, faults, fw_info, at, writer>>

\* A sign outside the partition cannot be written; nobody looks at the result.
WriteSign ==
    /\ bpc = "sign"
    /\ \/ InPart(Source, SignCell(fw_info), 1)
          /\ \E ok \in BOOLEAN : Write(Source, SignCell(fw_info), Zero, ok)
       \/ ~InPart(Source, SignCell(fw_info), 1) /\ UNCHANGED <<part, faults>>
    /\ Goto("jump")
    /\ UNCHANGED <<fw_info, at, writer>>

Jump ==
    /\ bpc = "jump"
    /\ \/ MayJump /\ Goto("app")
       \/ MayStay /\ GoOn
    /\ UNCHANGED <<part, faults, fw_info, at, writer>>
---------------------------------------------------------------------------
BootInit ==
    /\ bpc = "reset"
    /\ stage = "release"
    /\ fw_info = NoFw
    /\ at = 0
    /\ writer = "none"

\* A reset, whatever the bootloader or the application was doing.
BootReset ==
    /\ bpc' = "reset"
    /\ stage' = "release"
    /\ fw_info' = NoFw
    /\ at' = 0
    /\ UNCHANGED writer

BootNext ==
    \/ Start
    \/ CheckPasses \/ CheckMisled \/ CheckFails
    \/ StartRelease \/ EraseApp \/ EraseTail \/ CopyCell \/ CopyMisled \/ WriteInfo
    \/ VerifyPasses \/ VerifyFails
    \/ WriteSign
    \/ Jump

(***************************************************************************)
(* The cells that a flash operation of the bootloader is working on, as    *)
(* <<partition, cells>>: what a power loss can leave half done.            *)
(***************************************************************************)
BootInFlight ==
    CASE bpc = "erase"      -> <<"app", SectorCellsOf("app", at)>>
      [] bpc = "erase_tail" -> <<"app", SectorCellsOf("app", SectorOf(TailCell("app")))>>
      [] bpc = "copy"       -> <<"app", {at}>>
      [] bpc = "info"       -> <<"app", {TailCell("app")}>>
      [] bpc = "sign"       -> <<Source, {SignCell(fw_info)}>>
      [] OTHER              -> <<"app", {}>>
=============================================================================
