----------------------------- MODULE OtaUpdate -----------------------------
(***************************************************************************)
(* The update transaction of the device: the offer the Mac sent            *)
(* (ota_manifest_logic.h, data.h), the runtime that arms itself with it    *)
(* (ota_update.cpp) and the machine that downloads, checks and selects the *)
(* new image one poll at a time (ota_update_logic.h).  All of it runs on   *)
(* the main task, so an operation is one action; what interleaves is the   *)
(* order of offers, presses, host commands and polls.                      *)
(***************************************************************************)
EXTENDS OtaFlash, Naturals, FiniteSetsExt

CONSTANTS
    Offers,       \* identities (nonce and generation) the host may offer
    NoOffer,      \* no identity
    ImageSize,    \* bytes of the image, in the unit of a read
    ChunkSize,    \* OTA_UPDATE_CHUNK_BYTES in the same unit
    RestartTries  \* OTA_UPDATE_RESTART_API_ATTEMPTS

ASSUME UpdateAssumption ==
    /\ NoOffer \notin Offers
    /\ ImageSize \in Nat \ {0}
    /\ ChunkSize \in Nat \ {0}
    /\ RestartTries \in Nat

OfferKinds == {"none", "window", "legacy", "signed"}

(* Machine phases before the target is touched; "fetch" stands for the four *)
(* in which manifest and signature are opened and read.                    *)
CheckPhases == {"fetch", "authenticate", "select", "openFirmware"}
FlashPhases == {"begin", "download", "write", "finishDownload", "end", "readback",
                "digest", "finalGate", "setBoot"}
WorkPhases == CheckPhases \cup FlashPhases
UpdatePhases == {"confirm", "waitReady", "restart", "cancelled", "error"} \cup WorkPhases

(* The phase that follows when the action of a phase has nothing to count. *)
NextPhase ==
    [p \in WorkPhases |->
        CASE p = "fetch"          -> "authenticate"
          [] p = "authenticate"   -> "select"
          [] p = "select"         -> "openFirmware"
          [] p = "openFirmware"   -> "begin"
          [] p = "begin"          -> "download"
          [] p = "finishDownload" -> "end"
          [] p = "end"            -> "readback"
          [] p = "digest"         -> "finalGate"
          [] p = "finalGate"      -> "setBoot"
          [] p = "setBoot"        -> "restart"
          [] OTHER                -> p]

(* What stands in the way of an update at a poll, from the inputs that     *)
(* main.cpp gathers: nothing, the link, a prompt, transfer, portal,        *)
(* passkey or menu, Wi-Fi or the clock, the age of the offer, the battery. *)
Worlds == {"ready", "disconnected", "conflict", "offline", "stale", "lowPower"}

VARIABLES
    offer,       \* tama.otaOffer
    seen,        \* the identities in _otaAuthorizationReplay
    run,         \* OtaRuntime without its machine
    machine,     \* OtaUpdateMachine
    handleOpen   \* ESP-IDF holds an open OTA handle

updateVars == <<offer, seen, run, machine, handleOpen>>

NoTarget == "none"

Idle == [active |-> FALSE, automatic |-> FALSE, consumed |-> FALSE, confirm |-> FALSE,
         cancel |-> FALSE, target |-> NoTarget, source |-> NoOffer,
         shown |-> NoOffer, consent |-> FALSE, told |-> FALSE]

Fresh == [phase |-> "confirm", received |-> 0, readback |-> 0, chunk |-> 0, handle |-> FALSE,
          ended |-> FALSE, authenticated |-> FALSE, committed |-> FALSE, restarts |-> 0]

Empty == [kind |-> "none", id |-> NoOffer]

UpdateTypeOK ==
    /\ offer \in [kind : OfferKinds, id : Offers \cup {NoOffer}]
    /\ seen \in SUBSET Offers
    /\ run \in [active : BOOLEAN, automatic : BOOLEAN, consumed : BOOLEAN, confirm : BOOLEAN,
                cancel : BOOLEAN, target : Slots \cup {NoTarget},
                source : Offers \cup {NoOffer},  \* the offer moved into the runtime
                shown : Offers \cup {NoOffer},   \* the version on the confirmation screen
                consent : BOOLEAN,               \* history: A was pressed, or Direct applied
                told : BOOLEAN]                  \* history: a cancellation was accepted and not carried out
    /\ machine \in [phase : UpdatePhases, received : 0 .. ImageSize, readback : 0 .. ImageSize,
                    chunk : 0 .. ImageSize, handle : BOOLEAN, ended : BOOLEAN,
                    authenticated : BOOLEAN, committed : BOOLEAN, restarts : 0 .. RestartTries]
    /\ handleOpen \in BOOLEAN

UpdateInit ==
    /\ offer = Empty
    /\ seen = {}
    /\ run = Idle
    /\ machine = Fresh
    /\ handleOpen = FALSE

Pending == offer.kind \in {"legacy", "signed"}

Terminal == ~machine.committed /\ machine.phase \in {"cancelled", "error"}

CancellationAllowed ==
    run.active /\ ~machine.committed /\ ~Terminal /\ machine.phase \notin {"setBoot", "restart"}

(***************************************************************************)
(* Between two polls: offers, presses and commands.                        *)
(***************************************************************************)

(* A signed offer is verified against the replay list and opens a window   *)
(* of its own; a legacy one needs an open window, and does not clear the   *)
(* mark it finds there.  What is not accepted clears the offer, the one    *)
(* already waiting included.                                               *)
OfferArrives(o, kind) ==
    /\ \/ /\ kind = "signed" /\ o \notin seen
          /\ seen' = seen \cup {o}
          /\ offer' \in {[kind |-> kind, id |-> o], Empty}
       \/ /\ kind = "signed"
          /\ offer' = Empty
          /\ UNCHANGED seen
       \/ /\ kind = "legacy" /\ offer.kind # "none"
          /\ offer' = [kind |-> IF offer.kind = "signed" THEN "signed" ELSE kind, id |-> o]
          /\ UNCHANGED seen
       \/ /\ kind = "legacy"
          /\ offer' = Empty
          /\ UNCHANGED seen
    /\ UNCHANGED <<flashVars, run, machine, handleOpen>>

(* The user opens the receive screen, which no update may be using.        *)
OpenWindow ==
    /\ ~run.active \/ Terminal
    /\ offer' = [kind |-> "window", id |-> NoOffer]
    /\ UNCHANGED <<flashVars, seen, run, machine, handleOpen>>

(* The window or the offer runs out, the link drops, something conflicts,  *)
(* or the user leaves the screen.                                          *)
OfferDropped ==
    /\ offer.kind # "none"
    /\ offer' = Empty
    /\ UNCHANGED <<flashVars, seen, run, machine, handleOpen>>

(* otaUpdateConfirm, from a press of A on the receive screen.              *)
Confirm ==
    /\ run.active /\ machine.phase = "confirm" /\ ~run.automatic
    /\ run' = [run EXCEPT !.confirm = TRUE, !.consent = TRUE]
    /\ UNCHANGED <<flashVars, offer, seen, machine, handleOpen>>

Cancelling == [run EXCEPT !.cancel = TRUE, !.told = TRUE]

(* otaUpdateCancel, from B, a held A, or the host's ota_cancel.            *)
Cancel ==
    /\ CancellationAllowed /\ ~run.cancel
    /\ run' = Cancelling
    /\ UNCHANGED <<flashVars, offer, seen, machine, handleOpen>>

(* A prompt arrives: whatever update or offer there is is cancelled.       *)
PromptArrives ==
    /\ run' = IF CancellationAllowed THEN Cancelling ELSE run
    /\ offer' = Empty
    /\ UNCHANGED <<flashVars, seen, machine, handleOpen>>

(***************************************************************************)
(* One poll, with the inputs of its loop iteration.                        *)
(***************************************************************************)

Gate(world, requireCoordination, pending) ==
    CASE requireCoordination /\ ~pending -> "noOffer"
      [] ~requireCoordination /\ world \in {"disconnected", "stale"} -> "ready"
      [] OTHER -> world

WantsOfferUnasked == run.confirm \/ ~run.consumed

(* otaUpdatePoll wants the offer moved into the runtime after A, or at     *)
(* once for a Direct offer.                                                *)
WantsOffer == run.confirm \/ (run.automatic /\ ~run.consumed)

(* consumeOfferAfterAuthorization.                                         *)
MayConsume(automatic, world) ==
    /\ automatic => offer.kind = "signed"
    /\ Pending
    /\ world \in {"ready", "offline"}

ForgetsCancel(world) == WantsOffer /\ ~MayConsume(run.automatic, world)

WantsCancel(world) == run.cancel \/ (WantsOffer /\ ~MayConsume(run.automatic, world))

KeepHandle == handleOpen

(* otaUpdateAbortHandle: esp_ota_abort, unless esp_ota_end has had it.     *)
AbortHandle == handleOpen /\ ~machine.handle

(* otaUpdateFail and otaUpdateCancelMachine with the cleanupTerminal that  *)
(* follows in the same poll: the waiting offer goes with the consumed one. *)
Stop(phase) ==
    /\ machine' = [Fresh EXCEPT !.phase = phase]
    /\ handleOpen' = AbortHandle
    /\ run' = [run EXCEPT !.consumed = FALSE, !.confirm = FALSE, !.cancel = FALSE,
                          !.target = NoTarget, !.source = NoOffer,
                          !.consent = FALSE, !.told = FALSE]
    /\ offer' = Empty

(* An offer waits and nothing runs: the runtime arms itself.               *)
Armed(automatic) ==
    [Idle EXCEPT !.active = TRUE, !.automatic = automatic, !.shown = offer.id,
                 !.consent = automatic]

PollArm ==
    /\ ~run.active
    /\ Pending
    /\ run' = Armed(FALSE)
    /\ machine' = Fresh
    /\ UNCHANGED <<flashVars, offer, seen, handleOpen>>

(* With Direct on, a signed offer is armed and consumed in one poll.       *)
PollArmDirect(world) ==
    /\ ~run.active
    /\ offer.kind = "signed"
    /\ IF MayConsume(TRUE, world)
       THEN /\ run' = [Armed(TRUE) EXCEPT !.consumed = TRUE, !.source = offer.id]
            /\ machine' = [Fresh EXCEPT !.phase = IF world = "ready" THEN "fetch"
                                                  ELSE "waitReady"]
       ELSE /\ run' = Armed(TRUE)
            /\ machine' = [Fresh EXCEPT !.phase = "cancelled"]
    /\ offer' = Empty
    /\ UNCHANGED <<flashVars, seen, handleOpen>>

(* Nothing runs and nothing waits, or the screen of an ended update stays. *)
PollNothing ==
    /\ (~run.active /\ ~Pending) \/ (run.active /\ Terminal)
    /\ UNCHANGED <<flashVars, updateVars>>

(* 2.5 s after the end of an update its screen goes away.                  *)
PollTerminal ==
    /\ run.active /\ Terminal
    /\ run' = Idle
    /\ UNCHANGED <<flashVars, offer, seen, machine, handleOpen>>

Polling == run.active /\ ~Terminal /\ ~machine.committed

PollCancel(world) ==
    /\ Polling /\ WantsCancel(world) /\ CancellationAllowed
    /\ Stop("cancelled")
    /\ UNCHANGED <<flashVars, seen>>

PollConfirm(world) ==
    /\ Polling /\ machine.phase = "confirm" /\ ~WantsCancel(world)
    /\ LET gate == Gate(world, TRUE, Pending)
       IN  \/ gate = "conflict" /\ Stop("cancelled")
           \/ gate \notin {"conflict", "ready", "offline"} /\ Stop("error")
           \/ /\ gate \in {"ready", "offline"} /\ WantsOffer
              /\ run' = [run EXCEPT !.consumed = TRUE, !.confirm = FALSE, !.source = offer.id]
              /\ offer' = Empty
              /\ machine' = [machine EXCEPT !.phase = IF gate = "ready" THEN "fetch"
                                                      ELSE "waitReady"]
              /\ UNCHANGED handleOpen
           \/ /\ gate \in {"ready", "offline"} /\ ~WantsOffer
              /\ UNCHANGED <<run, offer, machine, handleOpen>>
    /\ UNCHANGED <<flashVars, seen>>

WaitsOn(gate) == gate \notin {"ready", "conflict", "offline"}

(* Without Wi-Fi or clock the deadline of 120 s may have passed.           *)
GivesUp(gate) == gate \notin {"ready", "conflict"}

(* Confirmed and without Wi-Fi or clock: wait for them.                    *)
PollWaitReady(world) ==
    /\ Polling /\ machine.phase = "waitReady" /\ ~WantsCancel(world)
    /\ LET gate == Gate(world, TRUE, run.consumed)
       IN  \/ /\ gate = "ready"
              /\ machine' = [machine EXCEPT !.phase = "fetch"]
              /\ UNCHANGED <<run, offer, handleOpen>>
           \/ gate = "conflict" /\ Stop("cancelled")
           \/ GivesUp(gate) /\ Stop("error")
           \/ gate = "offline" /\ UNCHANGED <<run, offer, machine, handleOpen>>
    /\ UNCHANGED <<flashVars, seen>>

WorkGate(world) == Gate(world, ~machine.authenticated, run.consumed)

PollGateFails(world) ==
    /\ Polling /\ machine.phase \in WorkPhases
    /\ ~(WantsCancel(world) /\ CancellationAllowed)
    /\ WorkGate(world) # "ready"
    /\ Stop(IF WorkGate(world) = "conflict" THEN "cancelled" ELSE "error")
    /\ UNCHANGED <<flashVars, seen>>

(* The action of the phase is run.                                         *)
Works(world, phases) ==
    /\ Polling /\ machine.phase \in phases
    /\ ~(WantsCancel(world) /\ CancellationAllowed)
    /\ WorkGate(world) = "ready"

(* It fails, is late or returns what the machine does not accept, and may  *)
(* have erased the target.  Only the final gate cannot fail: it asks what  *)
(* the gate has just answered.                                             *)
PollWorkFails(world) ==
    /\ Works(world, WorkPhases \ {"finalGate"})
    /\ Stop("error")
    /\ \/ UNCHANGED image
       \/ /\ machine.phase = "begin"
          /\ image' = [image EXCEPT ![run.target] = "partial"]
    /\ UNCHANGED <<running, selected, imageState, seen>>

(* A request has nothing yet.                                              *)
HttpPhases == {"fetch", "openFirmware", "download"}

PollWorkPending(world) ==
    /\ Works(world, HttpPhases)
    /\ UNCHANGED <<flashVars, updateVars>>

SelectsOnAnyState == selected = running

(* otaRunningStateAllowsUpdate and otaTargetValid on the slots there are:  *)
(* not while the running image itself waits for its confirmation.          *)
SelectionValid ==
    \/ imageState[running] = "valid"
    \/ imageState[running] = "undefined" /\ selected = running

PollStep(world) ==
    /\ Works(world, {"fetch", "authenticate", "select", "openFirmware", "finishDownload",
                     "finalGate"})
    /\ machine.phase = "select" => SelectionValid
    /\ machine.phase = "finalGate" => machine.authenticated /\ run.target # NoTarget
    /\ machine' = [machine EXCEPT !.phase = NextPhase[machine.phase],
                                  !.authenticated = @ \/ machine.phase = "authenticate"]
    /\ run' = [run EXCEPT !.target = IF machine.phase = "select" THEN Other(running) ELSE @]
    /\ UNCHANGED <<flashVars, offer, seen, handleOpen>>

PollBegin(world) ==
    /\ Works(world, {"begin"})
    /\ machine' = [machine EXCEPT !.phase = "download", !.handle = TRUE]
    /\ handleOpen' = TRUE
    /\ image' = [image EXCEPT ![run.target] = "partial"]
    /\ UNCHANGED <<running, selected, imageState, offer, seen, run>>

FullChunk == ChunkSize

NextChunk == Min({ChunkSize, ImageSize - machine.received})

PollDownload(world) ==
    /\ Works(world, {"download"})
    /\ \E n \in 1 .. NextChunk :
          machine' = [machine EXCEPT !.phase = "write", !.chunk = n]
    /\ UNCHANGED <<flashVars, offer, seen, run, handleOpen>>

PollWrite(world) ==
    /\ Works(world, {"write"})
    /\ LET received == machine.received + machine.chunk
       IN  /\ machine' = [machine EXCEPT !.received = received, !.chunk = 0,
                              !.phase = IF received = ImageSize THEN "finishDownload"
                                        ELSE "download"]
           /\ IF received = ImageSize
              THEN \E bytes \in {"whole", "corrupt"} :
                      image' = [image EXCEPT ![run.target] = bytes]
              ELSE UNCHANGED image
    /\ UNCHANGED <<running, selected, imageState, offer, seen, run, handleOpen>>

PollEnd(world) ==
    /\ Works(world, {"end"})
    /\ machine' = [machine EXCEPT !.phase = "readback", !.handle = FALSE, !.ended = TRUE]
    /\ handleOpen' = FALSE
    /\ UNCHANGED <<flashVars, offer, seen, run>>

PollReadback(world) ==
    /\ Works(world, {"readback"})
    /\ LET readback == machine.readback + Min({ChunkSize, ImageSize - machine.readback})
       IN  machine' = [machine EXCEPT !.readback = readback,
                           !.phase = IF readback = ImageSize THEN "digest" ELSE "readback"]
    /\ UNCHANGED <<flashVars, offer, seen, run, handleOpen>>

(* The digest of what was read back is the signed one: every byte was read *)
(* and every byte is right.                                                *)
DigestMatches == image[run.target] = "whole" /\ machine.readback = ImageSize

PollDigest(world) ==
    /\ Works(world, {"digest"})
    /\ DigestMatches
    /\ machine' = [machine EXCEPT !.phase = "finalGate"]
    /\ UNCHANGED <<flashVars, offer, seen, run, handleOpen>>

(* esp_ota_set_boot_partition, and the latch set before any cleanup.       *)
PollSetBoot(world) ==
    /\ Works(world, {"setBoot"})
    /\ selected' = run.target
    /\ imageState' = [imageState EXCEPT ![run.target] = "new"]
    /\ machine' = [machine EXCEPT !.phase = "restart", !.committed = TRUE, !.restarts = 0]
    /\ run' = [run EXCEPT !.consumed = FALSE, !.target = NoTarget, !.source = NoOffer]
    /\ offer' = Empty
    /\ UNCHANGED <<running, image, seen, handleOpen>>

(* Committed: esp_restart is called, and tried again when it returns.      *)
PollRestartReturns ==
    /\ run.active /\ machine.committed /\ machine.restarts < RestartTries
    /\ machine' = [machine EXCEPT !.restarts = @ + 1]
    /\ UNCHANGED <<flashVars, offer, seen, run, handleOpen>>

(* RAM after any reset; the slots keep what they hold.                     *)
RestartUpdate ==
    /\ offer' = Empty
    /\ seen' = {}
    /\ run' = Idle
    /\ machine' = Fresh
    /\ handleOpen' = FALSE

PollRestarts ==
    /\ run.active /\ machine.committed
    /\ Boot(selected, imageState)
    /\ RestartUpdate

=============================================================================
