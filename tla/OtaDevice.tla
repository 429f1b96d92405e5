----------------------------- MODULE OtaDevice -----------------------------
(***************************************************************************)
(* One device across its boots: the supervisor of BootHealth and the       *)
(* update transaction of OtaUpdate on the same two slots.  The main task   *)
(* runs setup() and then loop(), whose body takes in presses, offers and   *)
(* commands and polls the update once; the watchdog task runs beside it,   *)
(* and the power may be cut anywhere.                                      *)
(***************************************************************************)
EXTENDS BootHealth, OtaUpdate

deviceVars == <<flashVars, healthVars, updateVars>>

DeviceInit == FlashInit /\ HealthInit /\ UpdateInit

(***************************************************************************)
(* Steps.                                                                  *)
(***************************************************************************)

(* setup() and the ends of loop() leave the update alone.                  *)
Supervisor(step) == step /\ UNCHANGED updateVars

InBody == stage = "body" /\ pc["main"] = "idle"

(* Input is taken in before the one poll of the iteration.                 *)
TakeIn(input) == InBody /\ input /\ UNCHANGED healthVars

Polled(poll) ==
    /\ InBody
    /\ poll
    /\ stage' = "tail"
    /\ UNCHANGED <<supervisor, clock, pc, now, apiFailed, record, lastCause>>

(* The screen shows what arming captured, so an offer that comes while the *)
(* runtime is armed is not shown.                                          *)
Inputs ==
    \/ \E o \in Offers, kind \in {"legacy", "signed"} : OfferArrives(o, kind)
    \/ OpenWindow \/ OfferDropped \/ Confirm \/ Cancel \/ PromptArrives

Flashing(world) ==
    \/ PollBegin(world) \/ PollDownload(world) \/ PollWrite(world) \/ PollEnd(world)
    \/ PollReadback(world) \/ PollDigest(world) \/ PollSetBoot(world)

(* otaUpdatePoll, in the world its inputs describe.                        *)
Poll ==
    \/ PollNothing \/ PollArm \/ PollTerminal \/ PollRestartReturns
    \/ \E world \in Worlds :
          \/ PollArmDirect(world) \/ PollConfirm(world) \/ PollWaitReady(world)
          \/ PollCancel(world) \/ PollGateFails(world) \/ PollWorkFails(world)
          \/ PollWorkPending(world) \/ PollStep(world) \/ Flashing(world)

(* The polls in which a deadline runs out: of the screen of an ended       *)
(* update, of the wait for Wi-Fi and clock, of an HTTP request.            *)
Expires ==
    \/ PollTerminal
    \/ PollWaitReady("offline") /\ machine'.phase = "error"
    \/ machine.phase \in HttpPhases /\ PollWorkFails("ready")

UpdateRestart ==
    /\ InBody
    /\ PollRestarts
    /\ RestartHealth
    /\ record' \in RecordAfterReset

RollbackReboot(t) == (RollbackApi(t) \/ RollbackRestart(t)) /\ RestartUpdate

PowerCut ==
    /\ Boot(selected, imageState)
    /\ RestartHealth
    /\ RestartUpdate
    /\ record' \in RecordAfterReset

DeviceNext ==
    \/ Supervisor(Begin) \/ Supervisor(Setup) \/ Supervisor(Loop)
    \/ Supervisor(WatchdogWakes) \/ Supervisor(Tick)
    \/ \E t \in Tasks : Supervisor(Supervise(t)) \/ RollbackReboot(t)
    \/ TakeIn(Inputs)
    \/ Polled(Poll) \/ UpdateRestart
    \/ PowerCut

DeviceSpec == DeviceInit /\ [][DeviceNext]_deviceVars

(***************************************************************************)
(* Fairness.  Neither task is starved and every ESP-IDF call returns, but  *)
(* a probe of setup() may hang.  Deadlines are compared with millis() at   *)
(* every poll, so what stays in their reach runs into them.                *)
(***************************************************************************)

MainTask ==
    \/ Supervisor(Begin) \/ Supervisor(Loop)
    \/ Supervisor(Supervise("main")) \/ RollbackReboot("main")
    \/ Polled(Poll) \/ UpdateRestart

WatchdogTask ==
    \/ Supervisor(WatchdogWakes)
    \/ Supervisor(Supervise("watchdog")) \/ RollbackReboot("watchdog")

DeviceFairness ==
    /\ WF_deviceVars(MainTask)
    /\ WF_deviceVars(WatchdogTask)
    /\ WF_deviceVars(Supervisor(Tick))
    /\ SF_deviceVars(Polled(Expires))

FairDeviceSpec == DeviceSpec /\ DeviceFairness

(***************************************************************************)
(* Properties.                                                             *)
(***************************************************************************)

(* Every variable has its type.                                            *)
OtaTypeOK == FlashTypeOK /\ HealthTypeOK /\ UpdateTypeOK

(* At every instant, cutting the power leaves a device that boots a whole  *)
(* image; and while the running image awaits its confirmation, the slot it *)
(* would fall back to is whole and was never given up.  It is what keeps   *)
(* an update from being written over the fallback (ota_update.cpp 395-453).*)
SafeToCutPower ==
    /\ image[BootsInto(selected, imageState)] = "whole"
    /\ image[running] = "whole"
    /\ imageState[running] = "pending" => RollbackPossible

(* Once a cancellation was accepted - and the host or the user told so -   *)
(* the boot slot is not switched (otaUpdateCancel, otaUpdatePoll).         *)
CancelHonoured == run.told => ~machine.committed

(* Nothing is erased or written before the user pressed A, unless Direct   *)
(* is on and the offer marked as signed (otaUpdatePoll).                   *)
FlashNeedsConsent == machine.phase \in FlashPhases \/ machine.committed => run.consent

(* An ESP-IDF OTA handle is open only while the machine still owns it: no  *)
(* failure or cancellation leaks one (otaUpdateAbortHandle).               *)
NoHandleLeak == handleOpen <=> machine.handle

(* Of the two tasks that decide over a pending image at most one rolls it  *)
(* back, and none does while the other confirms it or after it did         *)
(* (otaBootHealthClaimAction under supervisorMux).                         *)
OneDecision ==
    \A t \in Tasks :
       pc[t] \in RollbackPlaces =>
          /\ imageState[running] # "valid"
          /\ \A other \in Tasks \ {t} :
                pc[other] \notin RollbackPlaces \cup {"marking", "marked", "unmarked"}

(* What a boot reports of the last rollback is its reason or nothing: a    *)
(* record half written or kept over a power cut is not believed            *)
(* (retainRollbackReason, observeAndClearRetainedReason).                  *)
ReasonReported == stage = "arm" => ObservedReason \in {NoReason, lastCause}

Undecided == supervisor.phase \in {"monitoring", "markValid", "rollback", "halted"}

(* A pending image under supervision is confirmed, or the device restarts, *)
(* even when setup() hangs (bootHealthWatchdogTask).                       *)
PendingDecided == Undecided ~> (supervisor.phase = "valid" \/ stage = "arm")

(* An update that was confirmed ends: it installs and restarts, or it says *)
(* that it failed or was cancelled, and goes (otaUpdateStep's deadlines).  *)
UpdateEnds == (run.active /\ machine.phase # "confirm") ~> ~run.active

(* What the user saw when pressing A is what gets installed (arm captures  *)
(* what is displayed, consumeOfferAfterAuthorization takes what is there). *)
ShownIsInstalled == ~run.automatic /\ run.source # NoOffer => run.source = run.shown

=============================================================================
