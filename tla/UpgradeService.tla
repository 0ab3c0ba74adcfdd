--------------------------- MODULE UpgradeService ---------------------------
(***************************************************************************)
(* What the bootloader and the update thread together promise, with flash  *)
(* sectors, release signs and boot stages forgotten: the board runs a      *)
(* whole firmware; it replaces it only while it is not running and only by *)
(* the package on offer; an interrupted replacement is taken up again and  *)
(* finished before the board runs.                                         *)
(***************************************************************************)
CONSTANTS
    Firmware,     \* the packages
    NoFw,         \* no package on offer
    Torn          \* a partly written application

VARIABLES
    image,        \* what the application partition holds
    offer,        \* the package that can be installed
    running       \* the application is in control

vars == <<image, offer, running>>

Init ==
    /\ image \in Firmware
    /\ offer \in Firmware \cup {NoFw}
    /\ running = FALSE

\* The running application takes the offer away, and makes another one.
Withdraw == running /\ offer' = NoFw /\ UNCHANGED <<image, running>>

Offer(f) ==
    /\ running
    /\ offer = NoFw
    /\ offer' = f
    /\ UNCHANGED <<image, running>>

\* A reset or a power loss, which may ruin the offer being replaced.
Stop ==
    /\ running
    /\ running' = FALSE
    /\ offer' \in {offer, NoFw}
    /\ UNCHANGED image

\* The old image is given up, for an offer only.
Tear ==
    /\ ~running
    /\ offer # NoFw
    /\ image' = Torn
    /\ UNCHANGED <<offer, running>>

Install ==
    /\ ~running
    /\ offer # NoFw
    /\ image' = offer
    /\ UNCHANGED <<offer, running>>

Run ==
    /\ ~running
    /\ image # Torn
    /\ running' = TRUE
    /\ UNCHANGED <<image, offer>>

Next ==
    \/ Withdraw \/ (\E f \in Firmware : Offer(f))
    \/ Stop \/ Tear \/ Install \/ Run

Spec == Init /\ [][Next]_vars
=============================================================================
