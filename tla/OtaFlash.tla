----------------------------- MODULE OtaFlash -----------------------------
(***************************************************************************)
(* The two application slots of the StickS3 and the otadata partition, as  *)
(* ESP-IDF and its bootloader keep them.  None of this is code of the      *)
(* repository: it is what ota_boot_health.cpp and ota_update.cpp rely on   *)
(* when they call esp_ota_*, and it is modelled from those calls.          *)
(*                                                                         *)
(* Whatever survives a power cut is here, everything else is RAM.          *)
(***************************************************************************)

Slots == {"ota0", "ota1"}

Other(s) == IF s = "ota0" THEN "ota1" ELSE "ota0"

(* What a slot holds: nothing that boots, every byte of a signed image, or *)
(* as many bytes of which some are wrong.                                  *)
Images == {"partial", "whole", "corrupt"}

(* esp_ota_img_states_t of a slot.                                         *)
ImageStates == {"undefined", "new", "pending", "valid", "invalid", "aborted"}

VARIABLES
    running,    \* the slot this boot was started from
    selected,   \* the slot otadata names for the next boot
    image,      \* the bytes of each slot
    imageState  \* otadata's state of each slot

flashVars == <<running, selected, image, imageState>>

FlashTypeOK ==
    /\ running \in Slots
    /\ selected \in Slots
    /\ image \in [Slots -> Images]
    /\ imageState \in [Slots -> ImageStates]

(* A device flashed over USB: one whole image, the other slot never used.  *)
FlashInit ==
    /\ running = "ota0"
    /\ selected = "ota0"
    /\ image = [s \in Slots |-> IF s = "ota0" THEN "whole" ELSE "partial"]
    /\ imageState = [s \in Slots |-> "undefined"]

(* The slot the bootloader starts: the one selected, unless it was already *)
(* tried without being confirmed, or was given up.                         *)
BootsInto(slot, states) ==
    IF states[slot] \in {"pending", "invalid", "aborted"} THEN Other(slot) ELSE slot

(* What the bootloader writes on the way: a slot still unconfirmed is      *)
(* aborted, a slot started for the first time waits for its confirmation.  *)
StatesAfterBoot(slot, states) ==
    [s \in Slots |->
        CASE s = slot /\ states[s] = "pending" -> "aborted"
          [] s = BootsInto(slot, states) /\ states[s] = "new" -> "pending"
          [] OTHER -> states[s]]

Boot(slot, states) ==
    /\ running' = BootsInto(slot, states)
    /\ selected' = BootsInto(slot, states)
    /\ imageState' = StatesAfterBoot(slot, states)
    /\ UNCHANGED image

(* esp_ota_mark_app_invalid_rollback_and_reboot needs a slot to go back to.*)
RollbackPossible ==
    imageState[Other(running)] \in {"undefined", "valid"} /\ image[Other(running)] = "whole"

=============================================================================
