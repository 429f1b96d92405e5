-------------------------- MODULE OtaDeviceProofs --------------------------
(***************************************************************************)
(* What holds of a device across any number of updates, boots, rollbacks   *)
(* and power cuts, for any size of image and chunk, any offers and any     *)
(* timeout.                                                                *)
(***************************************************************************)
EXTENDS OtaDevice, TLAPS

(***************************************************************************)
(* Types.                                                                  *)
(***************************************************************************)

(* The smaller of two numbers is one of them and exceeds neither           *)
(* (ota_update_logic.h:914, where a chunk is cut to what remains).         *)
LEMMA MinOfTwo ==
  ASSUME NEW a \in Int, NEW b \in Int
  PROVE  Min({a, b}) \in {a, b} /\ Min({a, b}) <= a /\ Min({a, b}) <= b
<1>1. \E x \in {a, b} : \A y \in {a, b} : x =< y
  OBVIOUS
<1>2. QED
  BY <1>1 DEF Min

(* What is read fits what is missing: the bytes received and the chunk in  *)
(* the buffer are no more than the image (ota_update_logic.h 913-945).     *)
ChunkFits == machine.received + machine.chunk <= ImageSize

(* From its selection on the update has a target; what is selected for the *)
(* next boot is a slot because of it (ota_update_logic.h 884-991).         *)
TargetChosen == machine.phase \in {"openFirmware"} \cup FlashPhases => run.target \in Slots

TypeInv == OtaTypeOK /\ ChunkFits /\ TargetChosen

Supervisors == [phase : Phases, ready : SUBSET ReadyBits,
                reason : Reasons \cup {NoReason}, issued : BOOLEAN]

Runs == [active : BOOLEAN, automatic : BOOLEAN, consumed : BOOLEAN, confirm : BOOLEAN,
         cancel : BOOLEAN, target : Slots \cup {NoTarget}, source : Offers \cup {NoOffer},
         shown : Offers \cup {NoOffer}, consent : BOOLEAN, told : BOOLEAN]

Machines == [phase : UpdatePhases, received : 0 .. ImageSize, readback : 0 .. ImageSize,
             chunk : 0 .. ImageSize, handle : BOOLEAN, ended : BOOLEAN,
             authenticated : BOOLEAN, committed : BOOLEAN, restarts : 0 .. RestartTries]

(* A machine that starts, or that stopped in a phase, is well typed.       *)
LEMMA FreshTyped ==
  /\ Fresh \in Machines /\ Fresh.received + Fresh.chunk <= ImageSize
  /\ \A p \in UpdatePhases :
        LET m == [Fresh EXCEPT !.phase = p]
        IN  m \in Machines /\ m.received + m.chunk <= ImageSize
<1>1. 0 \in 0 .. ImageSize /\ 0 \in 0 .. RestartTries /\ 0 + 0 <= ImageSize
  BY UpdateAssumption
<1>2. "confirm" \in UpdatePhases
  BY DEF UpdatePhases
<1>3. QED
  BY <1>1, <1>2 DEF Fresh, Machines

(* A reset leaves well-typed slots (ota_boot_health.cpp:160).              *)
LEMMA BootTyped ==
  ASSUME FlashTypeOK, NEW slot \in Slots, NEW states \in [Slots -> ImageStates],
         Boot(slot, states)
  PROVE  FlashTypeOK'
<1>1. BootsInto(slot, states) \in Slots
  BY DEF BootsInto, Slots, Other
<1>2. StatesAfterBoot(slot, states) \in [Slots -> ImageStates]
  BY DEF StatesAfterBoot, ImageStates
<1>3. QED
  BY <1>1, <1>2 DEF Boot, FlashTypeOK

LEMMA RestartHealthTyped ==
  ASSUME HealthTypeOK, RestartHealth, record' \in RecordAfterReset
  PROVE  HealthTypeOK'
<1>1. record' \in Records
  <2>1. CASE record' = record
    BY <2>1 DEF HealthTypeOK
  <2>2. CASE record' = ClearedRecord
    BY <2>2 DEF ClearedRecord, Records
  <2>3. CASE record' \notin {record, ClearedRecord}
    <3>1. PICK r \in Reasons : record' = [record EXCEPT !.payload = r]
      BY <2>3 DEF RecordAfterReset
    <3>2. QED
      BY <3>1 DEF HealthTypeOK, Records
  <2>4. QED
    BY <2>1, <2>2, <2>3
<1>2. supervisor' \in Supervisors
  BY DEF RestartHealth, Unarmed, Supervisors, Phases
<1>3. pc' \in [Tasks -> Places] /\ now' \in [Tasks -> 0 .. Timeout + 1]
      /\ clock' \in 0 .. Timeout + 1
  BY TimeoutAssumption DEF RestartHealth, Places
<1>4. stage' \in Stages /\ apiFailed' \in BOOLEAN /\ lastCause' \in Reasons \cup {NoReason}
  BY DEF RestartHealth, Stages, HealthTypeOK
<1>5. QED
  BY <1>1, <1>2, <1>3, <1>4 DEF HealthTypeOK, Supervisors

LEMMA RestartUpdateTyped ==
  ASSUME RestartUpdate
  PROVE  UpdateTypeOK' /\ ChunkFits' /\ TargetChosen'
<1>1. offer' \in [kind : OfferKinds, id : Offers \cup {NoOffer}] /\ seen' \in SUBSET Offers
  BY DEF RestartUpdate, Empty, OfferKinds
<1>2. run' \in Runs
  BY DEF RestartUpdate, Idle, Runs
<1>3. machine' \in Machines /\ machine'.received + machine'.chunk <= ImageSize
  BY FreshTyped DEF RestartUpdate
<1>4. TargetChosen'
  BY DEF RestartUpdate, Fresh, TargetChosen, FlashPhases
<1>5. QED
  BY <1>1, <1>2, <1>3, <1>4 DEF RestartUpdate, UpdateTypeOK, ChunkFits, Runs, Machines

(* Whatever the supervisor is told or asked, it stays well typed           *)
(* (ota_boot_health_logic.h 171-248).                                      *)
LEMMA SupervisorMoves ==
  ASSUME NEW s \in Supervisors
  PROVE  /\ \A bit \in ReadyBits : Signalled(s, bit) \in Supervisors
         /\ \A reason \in Reasons : FailedWith(s, reason) \in Supervisors
         /\ \A n \in Nat : Claimed(s, n) \in Supervisors
         /\ \A success \in BOOLEAN : MarkResult(s, success) \in Supervisors
<1>1. {"monitoring", "markValid", "valid", "rollback", "halted"} \subseteq Phases
      /\ {"timeout", "markValid"} \subseteq Reasons
  BY DEF Phases, Reasons
<1>2. ASSUME NEW bit \in ReadyBits PROVE Signalled(s, bit) \in Supervisors
  BY DEF Signalled, Supervisors
<1>3. ASSUME NEW reason \in Reasons PROVE FailedWith(s, reason) \in Supervisors
  BY <1>1 DEF FailedWith, Supervisors
<1>4. ASSUME NEW n \in Nat PROVE Claimed(s, n) \in Supervisors
  <2>1. Decided(s, n) \in Supervisors
    <3>1. CASE s.phase = "monitoring" /\ n >= Timeout
      <4>1. Decided(s, n) = FailedWith(s, "timeout")
        BY <3>1, TimeoutAssumption DEF Decided
      <4>2. QED
        BY <1>1, <1>3, <4>1
    <3>2. CASE s.phase = "monitoring" /\ n < Timeout /\ s.ready = ReadyBits
      <4>1. Decided(s, n) = [s EXCEPT !.phase = "markValid", !.issued = TRUE]
        BY <3>2, TimeoutAssumption DEF Decided
      <4>2. QED
        BY <1>1, <4>1 DEF Supervisors
    <3>3. CASE /\ ~(s.phase = "monitoring" /\ n >= Timeout)
               /\ ~(s.phase = "monitoring" /\ n < Timeout /\ s.ready = ReadyBits)
      BY <3>3 DEF Decided
    <3>4. QED
      BY <3>1, <3>2, <3>3
  <2>2. QED
    BY <1>1, <2>1 DEF Claimed, Supervisors
<1>5. ASSUME NEW success \in BOOLEAN PROVE MarkResult(s, success) \in Supervisors
  BY <1>1 DEF MarkResult, Supervisors
<1>6. QED
  BY <1>2, <1>3, <1>4, <1>5

(* A poll is called at a time the clock shows (ota_boot_health.cpp:243).   *)
LEMMA CallPollTyped ==
  ASSUME HealthTypeOK, NEW t \in Tasks, NEW s, CallPoll(t, s)
  PROVE  pc' \in [Tasks -> Places] /\ now' \in [Tasks -> 0 .. Timeout + 1]
BY DEF CallPoll, HealthTypeOK, Places

LEMMA ClaimTyped ==
  ASSUME HealthTypeOK, FlashTypeOK, NEW t \in Tasks, NEW s \in Supervisors, Claim(t, s)
  PROVE  HealthTypeOK' /\ FlashTypeOK'
<1>1. now[t] \in Nat
  BY TimeoutAssumption DEF HealthTypeOK
<1>2. Claimed(s, now[t]) \in Supervisors
  BY <1>1, SupervisorMoves
<1>3. PlaceAfter(s, Claimed(s, now[t])) \in Places
  BY DEF PlaceAfter, Places, RollbackPlaces
<1>4. pc' \in [Tasks -> Places] /\ supervisor' \in Supervisors
  BY <1>2, <1>3 DEF Claim, HealthTypeOK
<1>5. now' \in [Tasks -> 0 .. Timeout + 1] /\ clock' \in 0 .. Timeout + 1
  BY TimeoutAssumption DEF Claim, HealthTypeOK
<1>6. QED
  BY <1>4, <1>5 DEF Claim, HealthTypeOK, FlashTypeOK, flashVars, Supervisors

(* The supervisor's functions keep the types, on either task.              *)
LEMMA SuperviseTyped ==
  ASSUME HealthTypeOK, FlashTypeOK, NEW t \in Tasks, Supervise(t)
  PROVE  HealthTypeOK' /\ FlashTypeOK'
<1>1. supervisor \in Supervisors
  BY DEF HealthTypeOK, Supervisors
<1>2. CASE ClaimAction(t)
  BY <1>1, <1>2, ClaimTyped DEF ClaimAction
<1>3. CASE MarkValidResult(t)
  BY <1>1, <1>3, ClaimTyped, SupervisorMoves DEF MarkValidResult
<1>4. CASE MarkValid(t)
  <2>1. imageState' \in [Slots -> ImageStates]
    BY <1>4 DEF MarkValid, FlashTypeOK, ImageStates
  <2>2. pc' \in [Tasks -> Places]
    BY <1>4 DEF MarkValid, HealthTypeOK, Places
  <2>3. QED
    BY <1>4, <2>1, <2>2 DEF MarkValid, HealthTypeOK, FlashTypeOK
<1>5. ASSUME NEW from, NEW to \in Places, NEW r \in Records, RetainStep(t, from, to, r)
      PROVE  HealthTypeOK' /\ FlashTypeOK'
  BY <1>5 DEF RetainStep, HealthTypeOK, FlashTypeOK, flashVars
<1>6. RollbackPlaces \subseteq Places
  BY DEF Places
<1>7. [record EXCEPT !.magic = FALSE] \in Records /\ [record EXCEPT !.magic = TRUE] \in Records
      /\ [record EXCEPT !.payload = supervisor.reason] \in Records
      /\ [record EXCEPT !.sum = record.payload] \in Records
  BY <1>1 DEF HealthTypeOK, Records, Supervisors
<1>8. CASE EraseMarker(t) \/ WritePayload(t) \/ WriteChecksum(t) \/ WriteMarker(t)
  BY <1>5, <1>6, <1>7, <1>8
     DEF EraseMarker, WritePayload, WriteChecksum, WriteMarker, RollbackPlaces
<1>9. CASE RollbackApiReturns(t)
  BY <1>6, <1>9 DEF RollbackApiReturns, HealthTypeOK, FlashTypeOK, flashVars, RollbackPlaces
<1>10. QED
  BY <1>2, <1>3, <1>4, <1>8, <1>9 DEF Supervise

(* setup(), loop(), the watchdog's waking and the clock keep the types.    *)
LEMMA MainTyped ==
  ASSUME HealthTypeOK, FlashTypeOK, Begin \/ Setup \/ Loop \/ WatchdogWakes \/ Tick
  PROVE  HealthTypeOK' /\ FlashTypeOK'
<1>1. supervisor \in Supervisors /\ "main" \in Tasks /\ "watchdog" \in Tasks
  BY DEF HealthTypeOK, Supervisors, Tasks
<1>2. {"ble", "eventLoop"} \subseteq ReadyBits /\ {"probe", "supervisor"} \subseteq Reasons
  BY DEF ReadyBits, Reasons
<1>3. ASSUME supervisor' \in Supervisors, stage' \in Stages, record' \in Records,
             lastCause' \in Reasons \cup {NoReason}, UNCHANGED <<flashVars, clock, apiFailed>>,
             UNCHANGED <<pc, now>> \/ CallPoll("main", supervisor')
      PROVE  HealthTypeOK' /\ FlashTypeOK'
  <2>1. pc' \in [Tasks -> Places] /\ now' \in [Tasks -> 0 .. Timeout + 1]
    BY <1>1, <1>3, CallPollTyped DEF HealthTypeOK
  <2>2. QED
    BY <1>3, <2>1 DEF HealthTypeOK, FlashTypeOK, flashVars, Supervisors
<1>4. CASE ArmEarly
  <2>1. supervisor' \in Supervisors
    <3>1. Unarmed \in Supervisors
      BY DEF Unarmed, Supervisors, Phases
    <3>2. \/ supervisor' = Unarmed
          \/ supervisor' = [Unarmed EXCEPT !.phase = "queryUnknown"]
          \/ supervisor' = [Unarmed EXCEPT !.phase = "monitoring"]
          \/ supervisor' = [Unarmed EXCEPT !.phase = "rollback", !.reason = "layout"]
      BY <1>4 DEF ArmEarly
    <3>3. QED
      BY <3>1, <3>2 DEF Supervisors, Phases, Reasons
  <2>2. record' \in Records
    BY <1>4 DEF ArmEarly, ClearedRecord, Records
  <2>3. QED
    BY <1>3, <1>4, <2>1, <2>2 DEF ArmEarly, Stages
<1>5. CASE SpawnWatchdog
  <2>1. CASE pc' = [pc EXCEPT !["watchdog"] = "idle"] /\ UNCHANGED <<supervisor, now>>
    BY <1>5, <2>1 DEF SpawnWatchdog, HealthTypeOK, FlashTypeOK, flashVars, Stages, Places
  <2>2. CASE UNCHANGED <<supervisor, pc, now>> \/ CallPoll("main", supervisor')
    <3>1. supervisor' \in Supervisors
      BY <1>1, <1>2, <1>5, SupervisorMoves DEF SpawnWatchdog
    <3>2. QED
      BY <1>3, <1>5, <2>2, <3>1 DEF SpawnWatchdog, HealthTypeOK, Stages
  <2>3. QED
    BY <1>5, <2>1, <2>2 DEF SpawnWatchdog
<1>6. ASSUME NEW bit \in ReadyBits, NEW next \in Stages, Probe(bit, next)
      PROVE  HealthTypeOK' /\ FlashTypeOK'
  <2>1. supervisor' \in Supervisors
    BY <1>1, <1>2, <1>6, SupervisorMoves DEF Probe
  <2>2. QED
    BY <1>3, <1>6, <2>1 DEF Probe, HealthTypeOK
<1>7. CASE Setup
  BY <1>6, <1>7 DEF Setup, ReadyBits, Stages
<1>8. CASE PollOnly("booted", "loop") \/ PollOnly("loop", "observe")
  BY <1>1, <1>3, <1>8 DEF PollOnly, HealthTypeOK, Stages
<1>9. CASE ObserveBle
  <2>1. supervisor' \in Supervisors
    BY <1>1, <1>2, <1>9, SupervisorMoves DEF ObserveBle
  <2>2. QED
    BY <1>3, <1>9, <2>1 DEF ObserveBle, HealthTypeOK, Stages
<1>10. CASE EventLoopReady
  <2>1. supervisor' \in Supervisors
    BY <1>1, <1>2, <1>10, SupervisorMoves DEF EventLoopReady
  <2>2. QED
    BY <1>3, <1>10, <2>1 DEF EventLoopReady, HealthTypeOK, Stages
<1>11. CASE WatchdogWakes
  <2>1. pc' \in [Tasks -> Places] /\ now' \in [Tasks -> 0 .. Timeout + 1]
    BY <1>1, <1>11, CallPollTyped DEF WatchdogWakes, HealthTypeOK, Places
  <2>2. QED
    BY <1>11, <2>1 DEF WatchdogWakes, HealthTypeOK, FlashTypeOK, flashVars
<1>12. CASE Tick
  BY <1>12, TimeoutAssumption DEF Tick, HealthTypeOK, FlashTypeOK, flashVars
<1>13. QED
  BY <1>4, <1>5, <1>7, <1>8, <1>9, <1>10, <1>11, <1>12 DEF Begin, Loop

(* An update that stops leaves nothing behind (ota_update.cpp 699-724).    *)
LEMMA StopTyped ==
  ASSUME UpdateTypeOK, NEW p \in UpdatePhases, Stop(p), UNCHANGED seen
  PROVE  UpdateTypeOK' /\ ChunkFits'
<1>1. machine' \in Machines /\ machine'.received + machine'.chunk <= ImageSize
  BY FreshTyped DEF Stop
<1>2. run' \in Runs
  BY DEF Stop, UpdateTypeOK, Runs
<1>3. offer' \in [kind : OfferKinds, id : Offers \cup {NoOffer}]
  BY DEF Stop, Empty, OfferKinds
<1>4. handleOpen' \in BOOLEAN
  BY DEF Stop, AbortHandle
<1>5. QED
  BY <1>1, <1>2, <1>3, <1>4 DEF UpdateTypeOK, ChunkFits, Runs, Machines

(* Offers, presses and host commands keep the types.                       *)
LEMMA InputsTyped ==
  ASSUME UpdateTypeOK, ChunkFits, TargetChosen, FlashTypeOK, Inputs
  PROVE  UpdateTypeOK' /\ ChunkFits' /\ TargetChosen' /\ FlashTypeOK'
<1>1. UNCHANGED <<flashVars, machine, handleOpen>>
  BY DEF Inputs, OfferArrives, OpenWindow, OfferDropped, Confirm, Cancel, PromptArrives
<1>2. Empty \in [kind : OfferKinds, id : Offers \cup {NoOffer}]
  BY DEF Empty, OfferKinds
<1>3. offer' \in [kind : OfferKinds, id : Offers \cup {NoOffer}] /\ seen' \in SUBSET Offers
  <2>1. ASSUME NEW o \in Offers, NEW kind \in {"legacy", "signed"}, OfferArrives(o, kind)
        PROVE  offer' \in [kind : OfferKinds, id : Offers \cup {NoOffer}]
               /\ seen' \in SUBSET Offers
    <3>1. seen' = seen \/ seen' = seen \cup {o}
      BY <2>1 DEF OfferArrives
    <3>2. \/ offer' = Empty
          \/ \E k \in {"legacy", "signed"} : offer' = [kind |-> k, id |-> o]
      BY <2>1 DEF OfferArrives
    <3>3. QED
      BY <1>2, <3>1, <3>2 DEF UpdateTypeOK, OfferKinds
  <2>2. CASE OpenWindow
    BY <2>2 DEF OpenWindow, UpdateTypeOK, OfferKinds
  <2>3. CASE OfferDropped \/ Confirm \/ Cancel \/ PromptArrives
    BY <1>2, <2>3 DEF OfferDropped, Confirm, Cancel, PromptArrives, UpdateTypeOK
  <2>4. QED
    BY <2>1, <2>2, <2>3 DEF Inputs
<1>4. run' \in Runs
  <2>1. [run EXCEPT !.confirm = TRUE, !.consent = TRUE] \in Runs /\ Cancelling \in Runs
        /\ run \in Runs
    BY DEF UpdateTypeOK, Cancelling, Runs
  <2>2. QED
    BY <2>1 DEF Inputs, OfferArrives, OpenWindow, OfferDropped, Confirm, Cancel, PromptArrives
<1>5. run'.target = run.target
  BY DEF Inputs, OfferArrives, OpenWindow, OfferDropped, Confirm, Cancel, PromptArrives,
         Cancelling, UpdateTypeOK
<1>6. QED
  BY <1>1, <1>3, <1>4, <1>5
     DEF UpdateTypeOK, ChunkFits, TargetChosen, FlashTypeOK, flashVars, Runs

(* One poll of the update keeps the types, and reads no byte past the end. *)
LEMMA PollTyped ==
  ASSUME UpdateTypeOK, ChunkFits, TargetChosen, FlashTypeOK, Poll
  PROVE  UpdateTypeOK' /\ ChunkFits' /\ FlashTypeOK'
<1>1. machine \in Machines /\ run \in Runs
  BY DEF UpdateTypeOK, Machines, Runs
<1>2. Empty \in [kind : OfferKinds, id : Offers \cup {NoOffer}]
  BY DEF Empty, OfferKinds
<1>3. \A automatic \in BOOLEAN : Armed(automatic) \in Runs
  BY DEF Armed, Idle, Runs, UpdateTypeOK
<1>4. ASSUME UNCHANGED flashVars PROVE FlashTypeOK'
  BY <1>4 DEF FlashTypeOK, flashVars
<1>5. ASSUME machine' \in Machines, machine'.received + machine'.chunk <= ImageSize,
             run' \in Runs, offer' \in {offer, Empty}, UNCHANGED seen, handleOpen' \in BOOLEAN
      PROVE  UpdateTypeOK' /\ ChunkFits'
  BY <1>2, <1>5 DEF UpdateTypeOK, ChunkFits, Runs, Machines
<1>6. ASSUME NEW p \in UpdatePhases PROVE [machine EXCEPT !.phase = p] \in Machines
  BY <1>1 DEF Machines
<1>7. handleOpen \in BOOLEAN
  BY DEF UpdateTypeOK
<1>8. CASE PollNothing \/ PollArm \/ PollTerminal \/ PollRestartReturns
  <2>1. CASE PollNothing
    BY <2>1, <1>4 DEF PollNothing, updateVars, UpdateTypeOK, ChunkFits
  <2>2. CASE PollArm
    BY <2>2, <1>3, <1>4, <1>5, <1>7, FreshTyped DEF PollArm
  <2>3. CASE PollTerminal
    <3>1. Idle \in Runs
      BY DEF Idle, Runs
    <3>2. QED
      BY <2>3, <3>1, <1>1, <1>4, <1>5, <1>7 DEF PollTerminal, ChunkFits
  <2>4. CASE PollRestartReturns
    <3>1. machine' \in Machines /\ machine'.received + machine'.chunk <= ImageSize
      BY <2>4, <1>1, UpdateAssumption DEF PollRestartReturns, Machines, ChunkFits
    <3>2. QED
      BY <2>4, <3>1, <1>1, <1>4, <1>5, <1>7 DEF PollRestartReturns
  <2>5. QED
    BY <1>8, <2>1, <2>2, <2>3, <2>4
<1>9. ASSUME NEW world \in Worlds, PollArmDirect(world)
      PROVE  UpdateTypeOK' /\ ChunkFits' /\ FlashTypeOK'
  <2>1. {"fetch", "waitReady", "cancelled"} \subseteq UpdatePhases
    BY DEF UpdatePhases, WorkPhases, CheckPhases
  <2>2. machine' \in Machines /\ machine'.received + machine'.chunk <= ImageSize
    BY <1>9, <2>1, FreshTyped DEF PollArmDirect
  <2>3. offer.id \in Offers \cup {NoOffer}
    BY DEF UpdateTypeOK
  <2>4. run' \in Runs
    <3>1. [Armed(TRUE) EXCEPT !.consumed = TRUE, !.source = offer.id] \in Runs
      BY <1>3, <2>3 DEF Runs
    <3>2. QED
      BY <1>3, <1>9, <3>1 DEF PollArmDirect
  <2>5. QED
    BY <1>4, <1>5, <1>7, <1>9, <2>2, <2>4 DEF PollArmDirect
<1>10. ASSUME NEW p \in {"cancelled", "error"}, Stop(p), UNCHANGED seen
       PROVE  UpdateTypeOK' /\ ChunkFits'
  BY <1>10, StopTyped DEF UpdatePhases
<1>11. ASSUME NEW world \in Worlds, PollCancel(world) \/ PollGateFails(world)
       PROVE  UpdateTypeOK' /\ ChunkFits' /\ FlashTypeOK'
  BY <1>4, <1>10, <1>11 DEF PollCancel, PollGateFails
<1>12. ASSUME NEW world \in Worlds, PollConfirm(world) \/ PollWaitReady(world)
       PROVE  UpdateTypeOK' /\ ChunkFits' /\ FlashTypeOK'
  <2>1. CASE Stop("cancelled") \/ Stop("error")
    BY <2>1, <1>4, <1>10, <1>12 DEF PollConfirm, PollWaitReady
  <2>2. CASE ~(Stop("cancelled") \/ Stop("error"))
    <3>1. \E p \in {"fetch", "waitReady"} : machine' \in {machine, [machine EXCEPT !.phase = p]}
      BY <2>2, <1>12 DEF PollConfirm, PollWaitReady
    <3>2. machine' \in Machines /\ machine'.received + machine'.chunk <= ImageSize
      BY <3>1, <1>1, <1>6 DEF ChunkFits, UpdatePhases, WorkPhases, CheckPhases, Machines
    <3>3. \/ run' = run
          \/ run' = [run EXCEPT !.consumed = TRUE, !.confirm = FALSE, !.source = offer.id]
      BY <2>2, <1>12 DEF PollConfirm, PollWaitReady
    <3>4. run' \in Runs
      BY <3>3, <1>1 DEF UpdateTypeOK, Runs
    <3>5. QED
      BY <1>4, <1>5, <1>7, <1>12, <2>2, <3>2, <3>4 DEF PollConfirm, PollWaitReady
  <2>3. QED
    BY <2>1, <2>2
<1>13. ASSUME NEW slot, NEW bytes \in Images, UNCHANGED <<running, selected, imageState>>,
              image' \in {image, [image EXCEPT ![slot] = bytes]}
       PROVE  FlashTypeOK'
  BY <1>13 DEF FlashTypeOK
<1>14. ASSUME NEW world \in Worlds, PollWorkFails(world)
       PROVE  UpdateTypeOK' /\ ChunkFits' /\ FlashTypeOK'
  <2>1. UpdateTypeOK' /\ ChunkFits'
    BY <1>10, <1>14 DEF PollWorkFails
  <2>2. FlashTypeOK'
    BY <1>13, <1>14 DEF PollWorkFails, Images
  <2>3. QED
    BY <2>1, <2>2
<1>15. ASSUME NEW world \in Worlds, PollWorkPending(world)
       PROVE  UpdateTypeOK' /\ ChunkFits' /\ FlashTypeOK'
  BY <1>4, <1>15 DEF PollWorkPending, updateVars, UpdateTypeOK, ChunkFits
<1>16. ASSUME NEW world \in Worlds, PollStep(world)
       PROVE  UpdateTypeOK' /\ ChunkFits' /\ FlashTypeOK'
  <2>1. NextPhase[machine.phase] \in UpdatePhases
    BY <1>16 DEF PollStep, Works, NextPhase, UpdatePhases, WorkPhases, CheckPhases, FlashPhases
  <2>2. machine' \in Machines /\ machine'.received + machine'.chunk <= ImageSize
    BY <1>1, <1>16, <2>1 DEF PollStep, Machines, ChunkFits
  <2>3. run' \in Runs
    BY <1>1, <1>16 DEF PollStep, Runs, Slots, Other
  <2>4. QED
    BY <1>4, <1>5, <1>7, <1>16, <2>2, <2>3 DEF PollStep
<1>17. ASSUME NEW world \in Worlds, Flashing(world)
       PROVE  UpdateTypeOK' /\ ChunkFits' /\ FlashTypeOK'
  <2>1. CASE PollBegin(world)
    <3>1. machine' \in Machines /\ machine'.received + machine'.chunk <= ImageSize
      BY <1>1, <2>1 DEF PollBegin, Machines, ChunkFits, UpdatePhases, WorkPhases, FlashPhases
    <3>2. FlashTypeOK'
      BY <1>13, <2>1 DEF PollBegin, Images
    <3>3. QED
      BY <1>1, <1>5, <2>1, <3>1, <3>2 DEF PollBegin
  <2>2. CASE PollDownload(world)
    <3>1. PICK n \in 1 .. NextChunk : machine' = [machine EXCEPT !.phase = "write", !.chunk = n]
      BY <2>2 DEF PollDownload
    <3>2. NextChunk \in Int /\ NextChunk <= ImageSize - machine.received
      <4>1. ChunkSize \in Int /\ ImageSize - machine.received \in Int
        BY <1>1, UpdateAssumption DEF Machines
      <4>2. QED
        BY <4>1, MinOfTwo DEF NextChunk
    <3>3. machine' \in Machines /\ machine'.received + machine'.chunk <= ImageSize
      <4>1. n \in 0 .. ImageSize /\ machine.received + n <= ImageSize
        BY <1>1, <3>2, UpdateAssumption DEF Machines
      <4>2. "write" \in UpdatePhases
        BY DEF UpdatePhases, WorkPhases, FlashPhases
      <4>3. QED
        BY <1>1, <3>1, <4>1, <4>2 DEF Machines
    <3>4. QED
      BY <1>1, <1>4, <1>5, <1>7, <2>2, <3>3 DEF PollDownload
  <2>3. CASE PollWrite(world)
    <3>1. machine' \in Machines /\ machine'.received + machine'.chunk <= ImageSize
      <4>1. /\ machine.received + machine.chunk \in 0 .. ImageSize /\ 0 \in 0 .. ImageSize
            /\ machine.received + machine.chunk + 0 <= ImageSize
        BY <1>1, UpdateAssumption DEF Machines, ChunkFits
      <4>2. {"finishDownload", "download"} \subseteq UpdatePhases
        BY DEF UpdatePhases, WorkPhases, FlashPhases
      <4>3. QED
        BY <1>1, <2>3, <4>1, <4>2 DEF PollWrite, Machines
    <3>2. FlashTypeOK'
      BY <1>13, <2>3 DEF PollWrite, Images
    <3>3. QED
      BY <1>1, <1>5, <1>7, <2>3, <3>1, <3>2 DEF PollWrite
  <2>4. CASE PollEnd(world)
    <3>1. machine' \in Machines /\ machine'.received + machine'.chunk <= ImageSize
      BY <1>1, <2>4 DEF PollEnd, Machines, ChunkFits, UpdatePhases, WorkPhases, FlashPhases
    <3>2. QED
      BY <1>1, <1>4, <1>5, <2>4, <3>1 DEF PollEnd
  <2>5. CASE PollReadback(world)
    <3>1. Min({ChunkSize, ImageSize - machine.readback}) \in {ChunkSize, ImageSize - machine.readback}
          /\ Min({ChunkSize, ImageSize - machine.readback}) <= ImageSize - machine.readback
      <4>1. ChunkSize \in Int /\ ImageSize - machine.readback \in Int
        BY <1>1, UpdateAssumption DEF Machines
      <4>2. QED
        BY <4>1, MinOfTwo
    <3>2. machine.readback + Min({ChunkSize, ImageSize - machine.readback}) \in 0 .. ImageSize
      BY <1>1, <3>1, UpdateAssumption DEF Machines
    <3>3. machine' \in Machines /\ machine'.received + machine'.chunk <= ImageSize
      BY <1>1, <2>5, <3>2
         DEF PollReadback, Machines, ChunkFits, UpdatePhases, WorkPhases, FlashPhases
    <3>4. QED
      BY <1>1, <1>4, <1>5, <1>7, <2>5, <3>3 DEF PollReadback
  <2>6. CASE PollDigest(world)
    <3>1. machine' \in Machines /\ machine'.received + machine'.chunk <= ImageSize
      BY <1>1, <2>6 DEF PollDigest, Machines, ChunkFits, UpdatePhases, WorkPhases, FlashPhases
    <3>2. QED
      BY <1>1, <1>4, <1>5, <1>7, <2>6, <3>1 DEF PollDigest
  <2>7. CASE PollSetBoot(world)
    <3>1. machine' \in Machines /\ machine'.received + machine'.chunk <= ImageSize
      <4>1. 0 \in 0 .. RestartTries /\ "restart" \in UpdatePhases
        BY UpdateAssumption DEF UpdatePhases
      <4>2. QED
        BY <1>1, <2>7, <4>1 DEF PollSetBoot, Machines, ChunkFits
    <3>2. run' \in Runs
      BY <1>1, <2>7 DEF PollSetBoot, Runs
    <3>3. UpdateTypeOK' /\ ChunkFits'
      BY <1>5, <1>7, <2>7, <3>1, <3>2 DEF PollSetBoot
    <3>4. FlashTypeOK'
      <4>1. selected' = run.target /\ imageState' = [imageState EXCEPT ![run.target] = "new"]
            /\ UNCHANGED <<running, image>>
        BY <2>7 DEF PollSetBoot
      <4>2. run.target \in Slots
        BY <2>7 DEF PollSetBoot, Works, TargetChosen, FlashPhases
      <4>3. QED
        BY <4>1, <4>2 DEF FlashTypeOK, ImageStates
    <3>5. QED
      BY <3>3, <3>4
  <2>8. QED
    BY <1>17, <2>1, <2>2, <2>3, <2>4, <2>5, <2>6, <2>7 DEF Flashing
<1>18. QED
  BY <1>8, <1>9, <1>11, <1>12, <1>14, <1>15, <1>16, <1>17 DEF Poll

(* A target is chosen before the phases that need it, and kept in them.    *)
LEMMA PollTargeted ==
  ASSUME UpdateTypeOK, TargetChosen, FlashTypeOK, Poll
  PROVE  TargetChosen'
<1>1. ASSUME machine'.phase \notin {"openFirmware"} \cup FlashPhases PROVE TargetChosen'
  BY <1>1 DEF TargetChosen
<1>2. ASSUME machine'.phase = machine.phase, run'.target = run.target PROVE TargetChosen'
  BY <1>2 DEF TargetChosen
<1>3. ASSUME NEW p \in {"cancelled", "error"}, Stop(p) PROVE TargetChosen'
  <2>1. machine'.phase = p
    BY <1>3 DEF Stop, Fresh
  <2>2. QED
    BY <1>1, <1>3, <2>1 DEF FlashPhases
<1>4. CASE PollNothing \/ PollRestartReturns \/ \E world \in Worlds : PollWorkPending(world)
  BY <1>2, <1>4 DEF PollNothing, PollRestartReturns, PollWorkPending, updateVars, UpdateTypeOK
<1>5. CASE PollArm \/ PollTerminal
  <2>1. CASE PollArm
    BY <1>1, <2>1 DEF PollArm, Fresh, FlashPhases
  <2>2. CASE PollTerminal
    BY <1>1, <2>2 DEF PollTerminal, Terminal, FlashPhases
  <2>3. QED
    BY <1>5, <2>1, <2>2
<1>6. ASSUME NEW world \in Worlds, PollArmDirect(world)
      PROVE  TargetChosen'
  <2>1. \E p \in {"fetch", "waitReady", "cancelled"} : machine' = [Fresh EXCEPT !.phase = p]
    BY <1>6 DEF PollArmDirect
  <2>2. machine'.phase \in {"fetch", "waitReady", "cancelled"}
    BY <2>1 DEF Fresh
  <2>3. QED
    BY <1>1, <2>2 DEF FlashPhases
<1>7. ASSUME NEW world \in Worlds,
             PollCancel(world) \/ PollGateFails(world) \/ PollWorkFails(world)
      PROVE  TargetChosen'
  BY <1>3, <1>7 DEF PollCancel, PollGateFails, PollWorkFails
<1>8. ASSUME NEW world \in Worlds, PollConfirm(world) \/ PollWaitReady(world)
      PROVE  TargetChosen'
  <2>1. CASE Stop("cancelled") \/ Stop("error")
    BY <1>3, <2>1
  <2>2. CASE ~(Stop("cancelled") \/ Stop("error"))
    <3>1. machine.phase \in {"confirm", "waitReady"}
          /\ \E p \in {"fetch", "waitReady"} : machine' \in {machine, [machine EXCEPT !.phase = p]}
      BY <1>8, <2>2 DEF PollConfirm, PollWaitReady
    <3>2. machine'.phase \in {"confirm", "fetch", "waitReady"}
      BY <3>1 DEF UpdateTypeOK
    <3>3. QED
      BY <1>1, <3>2 DEF FlashPhases
  <2>3. QED
    BY <2>1, <2>2
<1>9. ASSUME NEW world \in Worlds, PollStep(world)
      PROVE  TargetChosen'
  <2>1. machine'.phase = NextPhase[machine.phase]
    BY <1>9 DEF PollStep, UpdateTypeOK
  <2>2. CASE machine.phase \in {"fetch", "authenticate"}
    BY <1>1, <2>1, <2>2 DEF NextPhase, WorkPhases, CheckPhases, FlashPhases
  <2>3. CASE machine.phase = "select"
    <3>1. run'.target = Other(running)
      BY <1>9, <2>3 DEF PollStep, UpdateTypeOK
    <3>2. QED
      BY <3>1 DEF TargetChosen, FlashTypeOK, Slots, Other
  <2>4. CASE machine.phase \in {"openFirmware", "finishDownload", "finalGate"}
    <3>1. run'.target = run.target
      BY <1>9, <2>4 DEF PollStep, UpdateTypeOK
    <3>2. QED
      BY <2>4, <3>1 DEF TargetChosen, FlashPhases
  <2>5. QED
    BY <1>9, <2>2, <2>3, <2>4 DEF PollStep, Works
<1>10. ASSUME NEW world \in Worlds, Flashing(world)
       PROVE  TargetChosen'
  <2>1. CASE PollSetBoot(world)
    <3>1. machine'.phase = "restart"
      BY <2>1 DEF PollSetBoot, UpdateTypeOK
    <3>2. QED
      BY <1>1, <3>1 DEF FlashPhases
  <2>2. CASE ~PollSetBoot(world)
    BY <1>10, <2>2 DEF Flashing, PollBegin, PollDownload, PollWrite, PollEnd, PollReadback,
                       PollDigest, Works, TargetChosen, FlashPhases
  <2>3. QED
    BY <2>1, <2>2
<1>11. QED
  BY <1>4, <1>5, <1>6, <1>7, <1>8, <1>9, <1>10 DEF Poll

(* Where each step of the device comes from: the supervisor alone, the     *)
(* update alone, or a reset that both go through.                          *)
LEMMA StepCases ==
  ASSUME [DeviceNext]_deviceVars
  PROVE  \/ (Begin \/ Setup \/ Loop \/ WatchdogWakes \/ Tick) /\ UNCHANGED updateVars
         \/ (\E t \in Tasks : Supervise(t)) /\ UNCHANGED updateVars
         \/ (\E t \in Tasks : RollbackApi(t)) /\ RestartUpdate
         \/ /\ Boot(selected, imageState) /\ RestartUpdate
            /\ RestartHealth /\ record' \in RecordAfterReset
         \/ Inputs /\ UNCHANGED healthVars
         \/ /\ Poll /\ stage' = "tail"
            /\ UNCHANGED <<supervisor, clock, pc, now, apiFailed, record, lastCause>>
         \/ UNCHANGED deviceVars
BY DEF DeviceNext, Supervisor, RollbackReboot, RollbackRestart, TakeIn, Polled, UpdateRestart,
       PollRestarts, PowerCut

LEMMA TypeInit ==
  ASSUME DeviceInit
  PROVE  TypeInv
<1>1. FlashTypeOK
  BY DEF DeviceInit, FlashInit, FlashTypeOK, Slots, Images, ImageStates
<1>2. HealthTypeOK
  <2>1. supervisor \in Supervisors
    BY DEF DeviceInit, HealthInit, Unarmed, Supervisors, Phases
  <2>2. record \in Records
    BY DEF DeviceInit, HealthInit, ClearedRecord, Records
  <2>3. /\ pc \in [Tasks -> Places] /\ now \in [Tasks -> 0 .. Timeout + 1]
        /\ clock \in 0 .. Timeout + 1
    BY TimeoutAssumption DEF DeviceInit, HealthInit, Places
  <2>4. stage \in Stages /\ apiFailed \in BOOLEAN /\ lastCause \in Reasons \cup {NoReason}
    BY DEF DeviceInit, HealthInit, Stages
  <2>5. QED
    BY <2>1, <2>2, <2>3, <2>4 DEF HealthTypeOK, Supervisors
<1>3. UpdateTypeOK /\ ChunkFits
  <2>1. machine \in Machines /\ machine.received + machine.chunk <= ImageSize
    BY FreshTyped DEF DeviceInit, UpdateInit
  <2>2. run \in Runs
    BY DEF DeviceInit, UpdateInit, Idle, Runs
  <2>3. offer \in [kind : OfferKinds, id : Offers \cup {NoOffer}]
    BY DEF DeviceInit, UpdateInit, Empty, OfferKinds
  <2>4. QED
    BY <2>1, <2>2, <2>3 DEF DeviceInit, UpdateInit, UpdateTypeOK, ChunkFits, Runs, Machines
<1>4. TargetChosen
  BY DEF DeviceInit, UpdateInit, Fresh, TargetChosen, FlashPhases
<1>5. QED
  BY <1>1, <1>2, <1>3, <1>4 DEF TypeInv, OtaTypeOK

LEMMA TypeStep ==
  ASSUME TypeInv, [DeviceNext]_deviceVars
  PROVE  TypeInv'
<1>1. FlashTypeOK /\ HealthTypeOK /\ UpdateTypeOK /\ ChunkFits /\ TargetChosen
  BY DEF TypeInv, OtaTypeOK
<1>2. ASSUME FlashTypeOK', HealthTypeOK', UpdateTypeOK', ChunkFits', TargetChosen'
      PROVE  TypeInv'
  BY <1>2 DEF TypeInv, OtaTypeOK
<1>3. ASSUME UNCHANGED updateVars
      PROVE  UpdateTypeOK' /\ ChunkFits' /\ TargetChosen'
  BY <1>1, <1>3 DEF updateVars, UpdateTypeOK, ChunkFits, TargetChosen
<1>4. CASE (Begin \/ Setup \/ Loop \/ WatchdogWakes \/ Tick) /\ UNCHANGED updateVars
  BY <1>1, <1>2, <1>3, <1>4, MainTyped
<1>5. CASE (\E t \in Tasks : Supervise(t)) /\ UNCHANGED updateVars
  BY <1>1, <1>2, <1>3, <1>5, SuperviseTyped
<1>6. CASE (\E t \in Tasks : RollbackApi(t)) /\ RestartUpdate
  <2>1. [imageState EXCEPT ![running] = "invalid"] \in [Slots -> ImageStates]
        /\ running \in Slots
    BY <1>1 DEF FlashTypeOK, ImageStates
  <2>2. FlashTypeOK'
    BY <1>1, <1>6, <2>1, BootTyped DEF RollbackApi
  <2>3. HealthTypeOK'
    BY <1>1, <1>6, RestartHealthTyped DEF RollbackApi
  <2>4. QED
    BY <1>2, <1>6, <2>2, <2>3, RestartUpdateTyped
<1>7. CASE /\ Boot(selected, imageState) /\ RestartUpdate
           /\ RestartHealth /\ record' \in RecordAfterReset
  <2>1. FlashTypeOK'
    BY <1>1, <1>7, BootTyped DEF FlashTypeOK
  <2>2. QED
    BY <1>1, <1>2, <1>7, <2>1, RestartHealthTyped, RestartUpdateTyped
<1>8. CASE Inputs /\ UNCHANGED healthVars
  <2>1. HealthTypeOK'
    BY <1>1, <1>8 DEF healthVars, HealthTypeOK
  <2>2. QED
    BY <1>1, <1>2, <1>8, <2>1, InputsTyped
<1>9. CASE /\ Poll /\ stage' = "tail"
           /\ UNCHANGED <<supervisor, clock, pc, now, apiFailed, record, lastCause>>
  <2>1. HealthTypeOK'
    BY <1>1, <1>9 DEF HealthTypeOK, Stages
  <2>2. QED
    BY <1>1, <1>2, <1>9, <2>1, PollTyped, PollTargeted
<1>10. CASE UNCHANGED deviceVars
  BY <1>1, <1>2, <1>3, <1>10
     DEF deviceVars, flashVars, healthVars, FlashTypeOK, HealthTypeOK
<1>11. QED
  BY <1>4, <1>5, <1>6, <1>7, <1>8, <1>9, <1>10, StepCases

(* Every reachable state of a device is well typed.                        *)
THEOREM OtaTypes == DeviceSpec => []OtaTypeOK
<1>1. TypeInv => OtaTypeOK
  BY DEF TypeInv
<1>2. QED
  BY <1>1, TypeInit, TypeStep, PTL DEF DeviceSpec

(***************************************************************************)
(* The OTA handle.                                                         *)
(***************************************************************************)

(* The machine owns a handle only from begin to end, and only while it     *)
(* runs; NoHandleLeak needs it where the runtime is armed or let go.       *)
HandleInv ==
    /\ NoHandleLeak
    /\ machine.handle =>
          run.active /\ machine.phase \in {"download", "write", "finishDownload", "end"}

(* Every phase of otaUpdateStep takes the handle along or closes it.       *)
LEMMA HandlePoll ==
  ASSUME UpdateTypeOK, HandleInv, Poll
  PROVE  HandleInv'
<1>1. ASSUME UNCHANGED <<run, machine, handleOpen>> PROVE HandleInv'
  BY <1>1 DEF HandleInv, NoHandleLeak
<1>2. ASSUME ~machine'.handle, ~handleOpen' PROVE HandleInv'
  BY <1>2 DEF HandleInv, NoHandleLeak
<1>3. ASSUME NEW p, Stop(p) PROVE HandleInv'
  BY <1>2, <1>3 DEF Stop, Fresh, AbortHandle, HandleInv, NoHandleLeak
<1>4. CASE PollNothing \/ \E world \in Worlds : PollWorkPending(world)
  BY <1>1, <1>4 DEF PollNothing, PollWorkPending, updateVars
<1>5. CASE PollArm \/ PollTerminal
  <2>1. ~machine.handle /\ ~handleOpen
    BY <1>5 DEF PollArm, PollTerminal, Terminal, HandleInv, NoHandleLeak
  <2>2. machine' \in {machine, Fresh} /\ UNCHANGED handleOpen
    BY <1>5 DEF PollArm, PollTerminal
  <2>3. ~machine'.handle
    BY <2>1, <2>2 DEF Fresh
  <2>4. QED
    BY <1>2, <2>1, <2>2, <2>3
<1>6. CASE PollRestartReturns
  BY <1>6 DEF PollRestartReturns, HandleInv, NoHandleLeak, UpdateTypeOK
<1>7. ASSUME NEW world \in Worlds, PollArmDirect(world)
      PROVE  HandleInv'
  BY <1>2, <1>7 DEF PollArmDirect, Fresh, HandleInv, NoHandleLeak
<1>8. ASSUME NEW world \in Worlds,
             PollCancel(world) \/ PollGateFails(world) \/ PollWorkFails(world)
      PROVE  HandleInv'
  BY <1>3, <1>8 DEF PollCancel, PollGateFails, PollWorkFails
<1>9. ASSUME NEW world \in Worlds, PollConfirm(world) \/ PollWaitReady(world)
      PROVE  HandleInv'
  <2>1. CASE Stop("cancelled") \/ Stop("error")
    BY <1>3, <2>1
  <2>2. CASE ~(Stop("cancelled") \/ Stop("error"))
    <3>1. machine.phase \in {"confirm", "waitReady"} /\ UNCHANGED handleOpen
      BY <1>9, <2>2 DEF PollConfirm, PollWaitReady
    <3>2. \E p \in {"fetch", "waitReady"} : machine' \in {machine, [machine EXCEPT !.phase = p]}
      BY <1>9, <2>2 DEF PollConfirm, PollWaitReady
    <3>3. machine'.handle = machine.handle
      BY <3>2 DEF UpdateTypeOK
    <3>4. QED
      BY <1>2, <3>1, <3>3 DEF HandleInv, NoHandleLeak
  <2>3. QED
    BY <2>1, <2>2
<1>10. ASSUME NEW world \in Worlds, PollStep(world)
       PROVE  HandleInv'
  <2>1. CASE machine.phase = "finishDownload"
    BY <1>10, <2>1 DEF PollStep, HandleInv, NoHandleLeak, UpdateTypeOK, NextPhase, WorkPhases,
                       FlashPhases
  <2>2. CASE machine.phase # "finishDownload"
    BY <1>2, <1>10, <2>2 DEF PollStep, Works, HandleInv, NoHandleLeak, UpdateTypeOK
  <2>3. QED
    BY <2>1, <2>2
<1>11. ASSUME NEW world \in Worlds, Flashing(world)
       PROVE  HandleInv'
  <2>1. CASE PollBegin(world)
    BY <2>1 DEF PollBegin, Works, Polling, HandleInv, NoHandleLeak, UpdateTypeOK
  <2>2. CASE PollDownload(world)
    BY <2>2 DEF PollDownload, HandleInv, NoHandleLeak, UpdateTypeOK
  <2>3. CASE PollWrite(world)
    BY <2>3 DEF PollWrite, HandleInv, NoHandleLeak, UpdateTypeOK
  <2>4. CASE PollEnd(world)
    BY <1>2, <2>4 DEF PollEnd, UpdateTypeOK
  <2>5. CASE PollReadback(world) \/ PollDigest(world) \/ PollSetBoot(world)
    BY <1>2, <2>5 DEF PollReadback, PollDigest, PollSetBoot, Works, HandleInv, NoHandleLeak,
                      UpdateTypeOK
  <2>6. QED
    BY <1>11, <2>1, <2>2, <2>3, <2>4, <2>5 DEF Flashing
<1>12. QED
  BY <1>4, <1>5, <1>6, <1>7, <1>8, <1>9, <1>10, <1>11 DEF Poll

LEMMA HandleStep ==
  ASSUME TypeInv, HandleInv, [DeviceNext]_deviceVars
  PROVE  HandleInv'
<1>1. CASE UNCHANGED updateVars
  BY <1>1 DEF updateVars, HandleInv, NoHandleLeak
<1>2. CASE RestartUpdate
  BY <1>2 DEF RestartUpdate, Fresh, HandleInv, NoHandleLeak
<1>3. CASE Inputs
  <2>1. UNCHANGED <<machine, handleOpen>> /\ run'.active = run.active
    BY <1>3 DEF Inputs, OfferArrives, OpenWindow, OfferDropped, Confirm, Cancel, PromptArrives,
                Cancelling, TypeInv, OtaTypeOK, UpdateTypeOK
  <2>2. QED
    BY <2>1 DEF HandleInv, NoHandleLeak
<1>4. CASE Poll
  BY <1>4, HandlePoll DEF TypeInv, OtaTypeOK
<1>5. QED
  BY <1>1, <1>2, <1>3, <1>4, StepCases DEF deviceVars

(* No way out of an update leaves an ESP-IDF handle open: not a failure in *)
(* any phase, a cancellation at any poll, nor the update after it          *)
(* (otaUpdateAbortHandle, otaUpdateFail, otaUpdateCancelMachine).          *)
THEOREM HandleOwned == DeviceSpec => []NoHandleLeak
<1>1. DeviceInit => TypeInv /\ HandleInv
  <2>1. DeviceInit => ~handleOpen /\ ~machine.handle
    BY DEF DeviceInit, UpdateInit, Fresh
  <2>2. QED
    BY <2>1, TypeInit DEF HandleInv, NoHandleLeak
<1>2. (TypeInv /\ HandleInv) /\ [DeviceNext]_deviceVars => (TypeInv /\ HandleInv)'
  BY TypeStep, HandleStep
<1>3. HandleInv => NoHandleLeak
  BY DEF HandleInv
<1>4. QED
  BY <1>1, <1>2, <1>3, PTL DEF DeviceSpec

(***************************************************************************)
(* What the device boots.                                                  *)
(***************************************************************************)

(* The running image is whole, and while it waits for its confirmation     *)
(* there is a whole one to fall back to.                                   *)
RunningSafe ==
    /\ image[running] = "whole"
    /\ imageState[running] \in {"undefined", "pending", "valid"}
    /\ imageState[running] = "pending" => RollbackPossible

(* Only a committed update selects the other slot, and what it selects is  *)
(* whole; the running image is then not one that waits.                    *)
CommittedSafe ==
    IF machine.committed
    THEN /\ run.active
         /\ selected = Other(running)
         /\ image[selected] = "whole" /\ imageState[selected] = "new"
         /\ imageState[running] # "pending"
    ELSE selected = running

(* From its selection on the target is the slot that does not run, and it  *)
(* is not the fallback of an image that waits.                             *)
TargetSafe ==
    machine.phase \in {"openFirmware"} \cup FlashPhases =>
        run.target = Other(running) /\ imageState[running] # "pending"

(* Past the digest the target is whole.                                    *)
DigestChecked == machine.phase \in {"finalGate", "setBoot"} => image[Other(running)] = "whole"

BootInv == RunningSafe /\ CommittedSafe /\ TargetSafe /\ DigestChecked

LEMMA OtherSlot ==
  ASSUME NEW s \in Slots
  PROVE  Other(s) \in Slots /\ Other(s) # s /\ Other(Other(s)) = s
BY DEF Slots, Other

(* A reset starts a whole image, with a whole one to fall back to if it is *)
(* started for the first time.                                             *)
LEMMA SafeBoot ==
  ASSUME FlashTypeOK, RunningSafe, CommittedSafe, Boot(selected, imageState), RestartUpdate
  PROVE  BootInv'
<1>1. machine'.phase = "confirm" /\ ~machine'.committed
  BY DEF RestartUpdate, Fresh
<1>2. image' = image /\ selected' = running' /\ running' = BootsInto(selected, imageState)
      /\ imageState' = StatesAfterBoot(selected, imageState)
  BY DEF Boot
<1>3. RunningSafe'
  <2>1. CASE machine.committed
    <3>1. running' = Other(running) /\ imageState[running'] = "new"
      BY <1>2, <2>1 DEF CommittedSafe, BootsInto
    <3>2. imageState'[running'] = "pending" /\ imageState'[running] = imageState[running]
      BY <1>2, <2>1, <3>1, OtherSlot DEF StatesAfterBoot, BootsInto, CommittedSafe, FlashTypeOK
    <3>3. QED
      BY <1>2, <2>1, <3>1, <3>2, OtherSlot
         DEF RunningSafe, CommittedSafe, RollbackPossible, FlashTypeOK
  <2>2. CASE ~machine.committed /\ imageState[running] = "pending"
    <3>1. running' = Other(running)
      BY <1>2, <2>2 DEF CommittedSafe, BootsInto
    <3>2. imageState'[running'] = imageState[running']
      BY <1>2, <2>2, <3>1, OtherSlot
         DEF StatesAfterBoot, BootsInto, RunningSafe, CommittedSafe, RollbackPossible, FlashTypeOK
    <3>3. QED
      BY <1>2, <2>2, <3>1, <3>2 DEF RunningSafe, RollbackPossible
  <2>3. CASE ~machine.committed /\ imageState[running] # "pending"
    <3>1. running' = running
      BY <1>2, <2>3 DEF CommittedSafe, BootsInto, RunningSafe
    <3>2. imageState'[running] = imageState[running]
      BY <1>2, <2>3, <3>1 DEF StatesAfterBoot, RunningSafe, CommittedSafe, FlashTypeOK
    <3>3. QED
      BY <1>2, <2>3, <3>1, <3>2 DEF RunningSafe
  <2>4. QED
    BY <2>1, <2>2, <2>3
<1>4. QED
  BY <1>1, <1>2, <1>3 DEF BootInv, CommittedSafe, TargetSafe, DigestChecked, FlashPhases

(* So does the rollback, which gives the running image up.                 *)
LEMMA SafeRollback ==
  ASSUME FlashTypeOK, NEW t \in Tasks, RollbackApi(t), RestartUpdate
  PROVE  BootInv'
<1>1. machine'.phase = "confirm" /\ ~machine'.committed
  BY DEF RestartUpdate, Fresh
<1>2. DEFINE states == [imageState EXCEPT ![running] = "invalid"]
<1>3. states[running] = "invalid" /\ states[Other(running)] = imageState[Other(running)]
  BY OtherSlot DEF FlashTypeOK
<1>4. image' = image /\ selected' = running' /\ running' = BootsInto(running, states)
      /\ imageState' = StatesAfterBoot(running, states)
  BY DEF RollbackApi, Boot
<1>5. running' = Other(running)
  BY <1>3, <1>4 DEF BootsInto
<1>6. imageState'[running'] = imageState[Other(running)]
  BY <1>3, <1>4, <1>5, OtherSlot DEF StatesAfterBoot, RollbackApi, RollbackPossible, FlashTypeOK
<1>7. RunningSafe'
  BY <1>4, <1>5, <1>6 DEF RunningSafe, RollbackApi, RollbackPossible
<1>8. QED
  BY <1>1, <1>4, <1>7 DEF BootInv, CommittedSafe, TargetSafe, DigestChecked, FlashPhases

(* Confirming the running image takes nothing away.                        *)
LEMMA SafeSupervise ==
  ASSUME TypeInv, BootInv, NEW t \in Tasks, Supervise(t), UNCHANGED updateVars
  PROVE  BootInv'
<1>1. ASSUME UNCHANGED flashVars PROVE BootInv'
  BY <1>1 DEF flashVars, updateVars, BootInv, RunningSafe, RollbackPossible, CommittedSafe,
              TargetSafe, DigestChecked
<1>2. CASE MarkValid(t)
  <2>1. UNCHANGED <<running, selected, image, run, machine>>
    BY <1>2 DEF MarkValid, updateVars
  <2>2. CASE UNCHANGED imageState
    BY <1>1, <2>1, <2>2 DEF flashVars
  <2>3. CASE imageState' = [imageState EXCEPT ![running] = "valid"]
    <3>1. /\ running \in Slots /\ imageState'[running] = "valid"
          /\ imageState'[Other(running)] = imageState[Other(running)]
      BY <2>3, OtherSlot DEF TypeInv, OtaTypeOK, FlashTypeOK
    <3>2. RunningSafe'
      BY <2>1, <3>1 DEF BootInv, RunningSafe
    <3>3. CommittedSafe'
      BY <2>1, <3>1 DEF BootInv, CommittedSafe
    <3>4. QED
      BY <2>1, <3>1, <3>2, <3>3 DEF BootInv, TargetSafe, DigestChecked
  <2>4. QED
    BY <1>2, <2>2, <2>3 DEF MarkValid
<1>3. CASE ~MarkValid(t)
  BY <1>1, <1>3 DEF Supervise, ClaimAction, MarkValidResult, Claim, EraseMarker, WritePayload,
                    WriteChecksum, WriteMarker, RetainStep, RollbackApiReturns
<1>4. QED
  BY <1>2, <1>3

(* A poll writes to the target alone, and only an update whose image was   *)
(* read back and found right selects it.                                   *)
LEMMA SafePoll ==
  ASSUME TypeInv, BootInv, Poll
  PROVE  BootInv'
<1>1. FlashTypeOK /\ UpdateTypeOK
  BY DEF TypeInv, OtaTypeOK
<1>2. RunningSafe /\ CommittedSafe /\ TargetSafe /\ DigestChecked
  BY DEF BootInv
<1>3. UNCHANGED running
  BY DEF Poll, Flashing, flashVars, PollNothing, PollArm, PollTerminal, PollRestartReturns,
         PollArmDirect, PollConfirm, PollWaitReady, PollCancel, PollGateFails, PollWorkFails,
         PollWorkPending, PollStep, PollBegin, PollDownload, PollWrite, PollEnd, PollReadback,
         PollDigest, PollSetBoot
<1>4. ASSUME UNCHANGED flashVars PROVE RunningSafe'
  BY <1>2, <1>4 DEF flashVars, RunningSafe, RollbackPossible
<1>5. ASSUME UNCHANGED flashVars, ~machine.committed, ~machine'.committed,
             machine'.phase \notin {"openFirmware"} \cup FlashPhases
      PROVE  BootInv'
  BY <1>2, <1>4, <1>5
     DEF flashVars, BootInv, CommittedSafe, TargetSafe, DigestChecked, FlashPhases
<1>6. ~run.active \/ Polling \/ Terminal => ~machine.committed
  BY <1>2 DEF CommittedSafe, Polling, Terminal
<1>7. CASE PollNothing \/ \E world \in Worlds : PollWorkPending(world)
  BY <1>2, <1>4, <1>7 DEF PollNothing, PollWorkPending, flashVars, updateVars, BootInv,
                          CommittedSafe, TargetSafe, DigestChecked
<1>8. CASE PollArm
  BY <1>5, <1>6, <1>8 DEF PollArm, Fresh, FlashPhases
<1>9. CASE PollTerminal
  BY <1>5, <1>6, <1>9 DEF PollTerminal, Terminal, FlashPhases
<1>10. CASE PollRestartReturns
  BY <1>1, <1>2, <1>4, <1>10 DEF PollRestartReturns, flashVars, BootInv, CommittedSafe, TargetSafe,
                                 DigestChecked, UpdateTypeOK
<1>11. ASSUME NEW world \in Worlds, PollArmDirect(world)
       PROVE  BootInv'
  <2>1. \E p \in {"fetch", "waitReady", "cancelled"} : machine' = [Fresh EXCEPT !.phase = p]
    BY <1>11 DEF PollArmDirect
  <2>2. ~machine'.committed /\ machine'.phase \notin {"openFirmware"} \cup FlashPhases
    BY <2>1 DEF Fresh, FlashPhases
  <2>3. QED
    BY <1>5, <1>6, <1>11, <2>2 DEF PollArmDirect
<1>12. ASSUME NEW p \in {"cancelled", "error"}, Stop(p)
       PROVE  ~machine'.committed /\ machine'.phase = p
              /\ p \notin {"openFirmware"} \cup FlashPhases
  BY <1>12 DEF Stop, Fresh, FlashPhases
<1>13. ASSUME NEW world \in Worlds, PollCancel(world) \/ PollGateFails(world)
       PROVE  BootInv'
  BY <1>5, <1>6, <1>12, <1>13 DEF PollCancel, PollGateFails
<1>14. ASSUME NEW world \in Worlds, PollConfirm(world) \/ PollWaitReady(world)
       PROVE  BootInv'
  <2>1. CASE Stop("cancelled") \/ Stop("error")
    BY <1>5, <1>6, <1>12, <1>14, <2>1 DEF PollConfirm, PollWaitReady
  <2>2. CASE ~(Stop("cancelled") \/ Stop("error"))
    <3>1. \E p \in {"fetch", "waitReady"} : machine' \in {machine, [machine EXCEPT !.phase = p]}
      BY <1>14, <2>2 DEF PollConfirm, PollWaitReady
    <3>2. machine.phase \in {"confirm", "waitReady"} /\ ~machine.committed
      BY <1>6, <1>14 DEF PollConfirm, PollWaitReady
    <3>3. ~machine'.committed /\ machine'.phase \in {"confirm", "fetch", "waitReady"}
      BY <1>1, <3>1, <3>2 DEF UpdateTypeOK
    <3>4. QED
      BY <1>5, <1>14, <3>2, <3>3 DEF PollConfirm, PollWaitReady, FlashPhases
  <2>3. QED
    BY <2>1, <2>2
<1>15. ASSUME machine.phase \in FlashPhases
       PROVE  /\ run.target = Other(running) /\ run.target \in Slots /\ run.target # running
              /\ imageState[running] \in {"undefined", "valid"}
  BY <1>1, <1>2, <1>15, OtherSlot DEF TargetSafe, RunningSafe, FlashTypeOK
<1>16. ASSUME NEW world \in Worlds, PollWorkFails(world)
       PROVE  BootInv'
  <2>1. ~machine.committed /\ ~machine'.committed
        /\ machine'.phase \notin {"openFirmware"} \cup FlashPhases
    BY <1>6, <1>12, <1>16 DEF PollWorkFails, Works
  <2>2. CASE UNCHANGED image
    BY <1>5, <1>16, <2>1, <2>2 DEF PollWorkFails, flashVars
  <2>3. CASE machine.phase = "begin" /\ image' = [image EXCEPT ![run.target] = "partial"]
    <3>1. image'[running] = image[running] /\ imageState[running] \in {"undefined", "valid"}
      BY <1>1, <1>15, <2>3 DEF FlashTypeOK, FlashPhases
    <3>2. QED
      BY <1>2, <1>3, <1>16, <2>1, <3>1
         DEF PollWorkFails, BootInv, RunningSafe, CommittedSafe, TargetSafe, DigestChecked,
             FlashPhases
  <2>4. QED
    BY <1>16, <2>2, <2>3 DEF PollWorkFails
<1>17. ASSUME NEW world \in Worlds, PollStep(world)
       PROVE  BootInv'
  <2>1. UNCHANGED flashVars /\ ~machine.committed /\ machine'.committed = machine.committed
        /\ machine'.phase = NextPhase[machine.phase]
    BY <1>1, <1>6, <1>17 DEF PollStep, Works, UpdateTypeOK
  <2>2. CASE machine.phase = "fetch" \/ machine.phase = "authenticate"
    <3>1. machine'.phase \in {"authenticate", "select"}
      BY <2>1, <2>2 DEF NextPhase, WorkPhases, CheckPhases
    <3>2. QED
      BY <1>5, <2>1, <3>1 DEF FlashPhases
  <2>3. CASE machine.phase = "select"
    <3>1. machine'.phase = "openFirmware"
      BY <2>1, <2>3 DEF NextPhase, WorkPhases, CheckPhases
    <3>2. run'.target = Other(running) /\ imageState[running] # "pending"
      BY <1>1, <1>17, <2>3 DEF PollStep, SelectionValid, UpdateTypeOK
    <3>3. QED
      BY <1>2, <1>4, <2>1, <3>1, <3>2
         DEF flashVars, BootInv, CommittedSafe, TargetSafe, DigestChecked
  <2>4. CASE machine.phase \in {"openFirmware", "finishDownload", "finalGate"}
    <3>1. machine'.phase = "setBoot" => machine.phase = "finalGate"
      BY <2>1, <2>4 DEF NextPhase, WorkPhases, CheckPhases, FlashPhases
    <3>2. machine'.phase # "finalGate"
      BY <2>1, <2>4 DEF NextPhase, WorkPhases, CheckPhases, FlashPhases
    <3>3. run'.target = run.target
      BY <1>1, <1>17, <2>4 DEF PollStep, UpdateTypeOK
    <3>4. QED
      BY <1>2, <1>4, <2>1, <2>4, <3>1, <3>2, <3>3
         DEF flashVars, BootInv, CommittedSafe, TargetSafe, DigestChecked, FlashPhases
  <2>5. QED
    BY <1>17, <2>2, <2>3, <2>4 DEF PollStep, Works
<1>18. ASSUME NEW world \in Worlds, Flashing(world)
       PROVE  BootInv'
  <2>1. machine.phase \in FlashPhases /\ ~machine.committed
    BY <1>6, <1>18 DEF Flashing, PollBegin, PollDownload, PollWrite, PollEnd, PollReadback,
                       PollDigest, PollSetBoot, Works, FlashPhases
  <2>2. ASSUME UNCHANGED <<selected, imageState, run>>, ~machine'.committed,
               machine'.phase \notin {"finalGate", "setBoot"},
               image'[running] = image[running]
        PROVE  BootInv'
    BY <1>2, <1>3, <1>15, <2>1, <2>2
       DEF BootInv, RunningSafe, CommittedSafe, TargetSafe, DigestChecked
  <2>3. CASE PollBegin(world) \/ PollWrite(world)
    <3>1. image'[running] = image[running]
      BY <1>1, <1>15, <2>1, <2>3 DEF PollBegin, PollWrite, FlashTypeOK
    <3>2. ~machine'.committed /\ machine'.phase \notin {"finalGate", "setBoot"}
      BY <1>1, <2>1, <2>3 DEF PollBegin, PollWrite, UpdateTypeOK
    <3>3. QED
      BY <2>2, <2>3, <3>1, <3>2 DEF PollBegin, PollWrite
  <2>4. CASE PollDownload(world) \/ PollEnd(world) \/ PollReadback(world)
    <3>1. ~machine'.committed /\ machine'.phase \notin {"finalGate", "setBoot"}
      BY <1>1, <2>1, <2>4 DEF PollDownload, PollEnd, PollReadback, UpdateTypeOK
    <3>2. QED
      BY <2>2, <2>4, <3>1 DEF PollDownload, PollEnd, PollReadback, flashVars
  <2>5. CASE PollDigest(world)
    <3>1. machine'.phase = "finalGate" /\ ~machine'.committed /\ UNCHANGED <<flashVars, run>>
      BY <1>1, <2>1, <2>5 DEF PollDigest, UpdateTypeOK
    <3>2. image[Other(running)] = "whole"
      BY <1>15, <2>1, <2>5 DEF PollDigest, DigestMatches
    <3>3. QED
      BY <1>2, <1>4, <1>15, <2>1, <3>1, <3>2
         DEF flashVars, BootInv, CommittedSafe, TargetSafe, DigestChecked
  <2>6. CASE PollSetBoot(world)
    <3>1. machine.phase = "setBoot" /\ Polling
      BY <2>6 DEF PollSetBoot, Works
    <3>2. image[run.target] = "whole"
      BY <1>2, <1>15, <2>1, <3>1 DEF DigestChecked
    <3>3. machine'.committed /\ machine'.phase = "restart" /\ run'.active
      BY <1>1, <2>6, <3>1 DEF PollSetBoot, UpdateTypeOK, Polling
    <3>4. /\ selected' = Other(running) /\ image' = image
          /\ imageState'[selected'] = "new" /\ imageState'[running] = imageState[running]
      BY <1>1, <1>15, <2>1, <2>6 DEF PollSetBoot, FlashTypeOK
    <3>5. QED
      BY <1>2, <1>3, <1>15, <2>1, <3>2, <3>3, <3>4
         DEF BootInv, RunningSafe, CommittedSafe, TargetSafe, DigestChecked, FlashPhases
  <2>7. QED
    BY <1>18, <2>3, <2>4, <2>5, <2>6 DEF Flashing
<1>19. QED
  BY <1>7, <1>8, <1>9, <1>10, <1>11, <1>13, <1>14, <1>16, <1>17, <1>18 DEF Poll

LEMMA SafeStep ==
  ASSUME TypeInv, BootInv, [DeviceNext]_deviceVars
  PROVE  BootInv'
<1>1. FlashTypeOK /\ RunningSafe /\ CommittedSafe
  BY DEF TypeInv, OtaTypeOK, BootInv
<1>2. ASSUME UNCHANGED <<flashVars, machine>>, run'.active = run.active, run'.target = run.target
      PROVE  BootInv'
  BY <1>2 DEF flashVars, BootInv, RunningSafe, RollbackPossible, CommittedSafe, TargetSafe,
              DigestChecked
<1>3. CASE (Begin \/ Setup \/ Loop \/ WatchdogWakes \/ Tick) /\ UNCHANGED updateVars
  <2>1. UNCHANGED flashVars
    BY <1>3 DEF Begin, ArmEarly, SpawnWatchdog, Setup, Probe, Loop, PollOnly, ObserveBle,
                EventLoopReady, WatchdogWakes, Tick
  <2>2. QED
    BY <1>2, <1>3, <2>1 DEF updateVars
<1>4. CASE (\E t \in Tasks : Supervise(t)) /\ UNCHANGED updateVars
  BY <1>4, SafeSupervise
<1>5. CASE (\E t \in Tasks : RollbackApi(t)) /\ RestartUpdate
  BY <1>1, <1>5, SafeRollback
<1>6. CASE Boot(selected, imageState) /\ RestartUpdate
  BY <1>1, <1>6, SafeBoot
<1>7. CASE Inputs
  <2>1. UNCHANGED <<flashVars, machine>> /\ run'.active = run.active /\ run'.target = run.target
    BY <1>7 DEF Inputs, OfferArrives, OpenWindow, OfferDropped, Confirm, Cancel, PromptArrives,
                Cancelling, TypeInv, OtaTypeOK, UpdateTypeOK
  <2>2. QED
    BY <1>2, <2>1
<1>8. CASE Poll
  BY <1>8, SafePoll
<1>9. CASE UNCHANGED deviceVars
  BY <1>2, <1>9 DEF deviceVars, updateVars
<1>10. QED
  BY <1>3, <1>4, <1>5, <1>6, <1>7, <1>8, <1>9, StepCases

LEMMA SafeNow ==
  ASSUME FlashTypeOK, BootInv
  PROVE  SafeToCutPower
<1>1. CASE machine.committed
  BY <1>1 DEF BootInv, RunningSafe, CommittedSafe, BootsInto, SafeToCutPower
<1>2. CASE ~machine.committed
  BY <1>2 DEF BootInv, RunningSafe, CommittedSafe, RollbackPossible, BootsInto, SafeToCutPower
<1>3. QED
  BY <1>1, <1>2

(* The device can lose its power at any instant of any number of updates,  *)
(* rollbacks and boots, for any image size, chunk and deadline, and boots a *)
(* whole image; nothing is written over the fallback of an image that      *)
(* waits for its confirmation.                                             *)
THEOREM AlwaysBoots == DeviceSpec => []SafeToCutPower
<1>1. DeviceInit => TypeInv /\ BootInv
  <2>1. DeviceInit => BootInv
    BY DEF DeviceInit, FlashInit, UpdateInit, Fresh, BootInv, RunningSafe, CommittedSafe,
           TargetSafe, DigestChecked, FlashPhases, Slots
  <2>2. QED
    BY <2>1, TypeInit
<1>2. (TypeInv /\ BootInv) /\ [DeviceNext]_deviceVars => (TypeInv /\ BootInv)'
  BY TypeStep, SafeStep
<1>3. TypeInv /\ BootInv => SafeToCutPower
  BY SafeNow DEF TypeInv, OtaTypeOK
<1>4. QED
  BY <1>1, <1>2, <1>3, PTL DEF DeviceSpec

(***************************************************************************)
(* Cancellation and consent.                                               *)
(***************************************************************************)

(* A cancellation that was accepted is remembered, in a phase that still   *)
(* allows it, until a poll carries it out.                                 *)
CancelInv == run.told => run.cancel /\ CancellationAllowed

(* Past the confirmation screen A was pressed or Direct applied; so it was *)
(* where the press, or Direct, is about to take the update past it.        *)
PastScreen ==
    \/ machine.phase \in {"waitReady", "restart"} \cup WorkPhases
    \/ machine.committed
    \/ run.confirm
    \/ run.automatic /\ machine.phase = "confirm"

ConsentInv == PastScreen => run.consent

UserInv == CancelInv /\ ConsentInv

LEMMA UserPoll ==
  ASSUME UpdateTypeOK, UserInv, Poll
  PROVE  UserInv'
<1>1. ASSUME ~run'.told, ConsentInv' PROVE UserInv'
  BY <1>1 DEF UserInv, CancelInv
<1>2. ASSUME NEW p \in {"cancelled", "error"}, Stop(p)
      PROVE  UserInv'
  <2>1. ~machine'.committed /\ machine'.phase = p
    BY <1>2 DEF Stop, Fresh
  <2>2. ~run'.told /\ ~run'.confirm
    BY <1>2 DEF Stop, UpdateTypeOK
  <2>3. QED
    BY <1>1, <2>1, <2>2 DEF ConsentInv, PastScreen, WorkPhases, CheckPhases, FlashPhases
<1>3. ASSUME UNCHANGED <<run, machine>> PROVE UserInv'
  BY <1>3 DEF UserInv, CancelInv, CancellationAllowed, Terminal, ConsentInv, PastScreen
<1>4. ~run.told \/ (run.cancel /\ CancellationAllowed)
  BY DEF UserInv, CancelInv
<1>5. CASE PollNothing \/ \E world \in Worlds : PollWorkPending(world)
  BY <1>3, <1>5 DEF PollNothing, PollWorkPending, updateVars
<1>6. CASE PollArm
  BY <1>1, <1>6 DEF PollArm, Armed, Idle, Fresh, ConsentInv, PastScreen, WorkPhases, CheckPhases,
                    FlashPhases
<1>7. CASE PollTerminal
  BY <1>1, <1>7 DEF PollTerminal, Terminal, Idle, ConsentInv, PastScreen, WorkPhases, CheckPhases,
                    FlashPhases
<1>8. CASE PollRestartReturns
  BY <1>8 DEF PollRestartReturns, UpdateTypeOK, UserInv, CancelInv, CancellationAllowed,
              ConsentInv, PastScreen
<1>9. ASSUME NEW world \in Worlds, PollArmDirect(world)
      PROVE  UserInv'
  <2>1. run'.consent /\ ~run'.told
    BY <1>9 DEF PollArmDirect, Armed, Idle
  <2>2. QED
    BY <1>1, <2>1 DEF ConsentInv
<1>10. ASSUME NEW world \in Worlds,
              PollCancel(world) \/ PollGateFails(world) \/ PollWorkFails(world)
       PROVE  UserInv'
  BY <1>2, <1>10 DEF PollCancel, PollGateFails, PollWorkFails
<1>11. ASSUME NEW world \in Worlds, PollConfirm(world) \/ PollWaitReady(world)
       PROVE  UserInv'
  <2>1. CASE Stop("cancelled") \/ Stop("error")
    BY <1>2, <2>1
  <2>2. CASE ~(Stop("cancelled") \/ Stop("error"))
    <3>1. ~run.told
      BY <1>4, <1>11 DEF PollConfirm, PollWaitReady, WantsCancel
    <3>2. CASE UNCHANGED <<run, machine>>
      BY <1>3, <3>2
    <3>3. CASE machine.phase = "waitReady" /\ UNCHANGED run
      BY <1>1, <3>1, <3>3 DEF UserInv, ConsentInv, PastScreen
    <3>4. CASE /\ machine.phase = "confirm" /\ WantsOffer
               /\ run' = [run EXCEPT !.consumed = TRUE, !.confirm = FALSE, !.source = offer.id]
      <4>1. run.consent
        BY <3>4 DEF WantsOffer, UserInv, ConsentInv, PastScreen
      <4>2. run'.consent /\ ~run'.told
        BY <3>1, <3>4, <4>1 DEF UpdateTypeOK
      <4>3. QED
        BY <1>1, <4>2 DEF ConsentInv
    <3>5. QED
      BY <1>11, <2>2, <3>2, <3>3, <3>4 DEF PollConfirm, PollWaitReady
  <2>3. QED
    BY <2>1, <2>2
<1>12. ASSUME NEW world \in Worlds, NEW phases \in SUBSET WorkPhases, Works(world, phases),
              run'.told = run.told, run'.consent = run.consent
       PROVE  UserInv'
  <2>1. ~run.told /\ run.consent
    BY <1>4, <1>12 DEF Works, WantsCancel, UserInv, ConsentInv, PastScreen
  <2>2. QED
    BY <1>1, <1>12, <2>1 DEF ConsentInv
<1>13. ASSUME NEW world \in Worlds, PollStep(world)
       PROVE  UserInv'
  <2>1. run'.told = run.told /\ run'.consent = run.consent
    BY <1>13 DEF PollStep, UpdateTypeOK
  <2>2. QED
    BY <1>12, <1>13, <2>1 DEF PollStep, WorkPhases, CheckPhases, FlashPhases
<1>14. ASSUME NEW world \in Worlds, Flashing(world)
       PROVE  UserInv'
  <2>1. run'.told = run.told /\ run'.consent = run.consent
    BY <1>14 DEF Flashing, PollBegin, PollDownload, PollWrite, PollEnd, PollReadback, PollDigest,
                 PollSetBoot, UpdateTypeOK
  <2>2. \E phases \in SUBSET WorkPhases : Works(world, phases)
    <3>1. \A p \in FlashPhases : {p} \in SUBSET WorkPhases
      BY DEF WorkPhases
    <3>2. QED
      BY <1>14, <3>1 DEF Flashing, PollBegin, PollDownload, PollWrite, PollEnd, PollReadback,
                         PollDigest, PollSetBoot, FlashPhases
  <2>3. QED
    BY <1>12, <2>1, <2>2
<1>15. QED
  BY <1>5, <1>6, <1>7, <1>8, <1>9, <1>10, <1>11, <1>13, <1>14 DEF Poll

LEMMA UserStep ==
  ASSUME TypeInv, UserInv, [DeviceNext]_deviceVars
  PROVE  UserInv'
<1>1. CASE UNCHANGED updateVars
  BY <1>1 DEF updateVars, UserInv, CancelInv, CancellationAllowed, Terminal, ConsentInv, PastScreen
<1>2. CASE RestartUpdate
  BY <1>2 DEF RestartUpdate, Idle, Fresh, UserInv, CancelInv, ConsentInv, PastScreen, WorkPhases,
              CheckPhases, FlashPhases
<1>3. CASE Inputs
  <2>1. CASE UNCHANGED <<run, machine>>
    BY <2>1 DEF UserInv, CancelInv, CancellationAllowed, Terminal, ConsentInv, PastScreen
  <2>2. CASE Confirm
    BY <2>2 DEF Confirm, TypeInv, OtaTypeOK, UpdateTypeOK, UserInv, CancelInv, CancellationAllowed,
                Terminal, ConsentInv
  <2>3. CASE run' = Cancelling /\ CancellationAllowed /\ UNCHANGED machine
    BY <2>3 DEF Cancelling, TypeInv, OtaTypeOK, UpdateTypeOK, UserInv, CancelInv,
                CancellationAllowed, Terminal, ConsentInv, PastScreen
  <2>4. QED
    BY <1>3, <2>1, <2>2, <2>3 DEF Inputs, OfferArrives, OpenWindow, OfferDropped, Cancel,
                                  PromptArrives
<1>4. CASE Poll
  BY <1>4, UserPoll DEF TypeInv, OtaTypeOK
<1>5. QED
  BY <1>1, <1>2, <1>3, <1>4, StepCases DEF deviceVars

LEMMA UserSpec == DeviceSpec => []UserInv
<1>1. DeviceInit => TypeInv /\ UserInv
  <2>1. DeviceInit => UserInv
    BY DEF DeviceInit, UpdateInit, Idle, Fresh, UserInv, CancelInv, ConsentInv, PastScreen,
           WorkPhases, CheckPhases, FlashPhases
  <2>2. QED
    BY <2>1, TypeInit
<1>2. (TypeInv /\ UserInv) /\ [DeviceNext]_deviceVars => (TypeInv /\ UserInv)'
  BY TypeStep, UserStep
<1>3. QED
  BY <1>1, <1>2, PTL DEF DeviceSpec

(* Whoever was told that the update is cancelled is told the truth: the    *)
(* boot slot is not switched before the cancellation is carried out.       *)
THEOREM CancelsHonoured == DeviceSpec => []CancelHonoured
<1>1. UserInv => CancelHonoured
  BY DEF UserInv, CancelInv, CancellationAllowed, CancelHonoured
<1>2. QED
  BY <1>1, UserSpec, PTL

(* Nothing is erased, written or selected without the press of A, or       *)
(* Direct, that the update in progress was given.                          *)
THEOREM FlashConsented == DeviceSpec => []FlashNeedsConsent
<1>1. UserInv => FlashNeedsConsent
  BY DEF UserInv, ConsentInv, PastScreen, WorkPhases, FlashNeedsConsent
<1>2. QED
  BY <1>1, UserSpec, PTL

--------------------------------------------------------------------------------
(***************************************************************************)
(* What the supervisor of a new image guarantees although two tasks poll   *)
(* it, whatever the update does meanwhile and wherever the power is cut.   *)
(***************************************************************************)

MarkPlaces == {"marking", "marked", "unmarked"}

(* Before the watchdog is created the main task is alone; at the beginning *)
(* of a boot nothing is armed.                                             *)
Alone ==
    /\ stage \in {"arm", "spawn"} => pc["watchdog"] = "absent"
    /\ stage = "arm" => pc["main"] = "idle" /\ supervisor.phase = "inert"

(* A task confirms or rolls back only in the phase for it, and then it is  *)
(* the only one that does.                                                 *)
OwnersAgree ==
    \A t \in Tasks :
       /\ pc[t] \in MarkPlaces => supervisor.phase = "markValid"
       /\ pc[t] \in RollbackPlaces => supervisor.phase = "halted"
       /\ \A other \in Tasks \ {t} :
             /\ pc[t] \in MarkPlaces => pc[other] \notin MarkPlaces
             /\ pc[t] \in RollbackPlaces => pc[other] \notin RollbackPlaces

(* Until it is confirmed, what is supervised waits for its confirmation.   *)
StillPending ==
    \/ supervisor.phase \in {"monitoring", "rollback", "halted"}
    \/ \E t \in Tasks : pc[t] \in {"marking", "unmarked"}
    => imageState[running] = "pending"

DecisionInv == Alone /\ OwnersAgree /\ StillPending

LEMMA TwoTasks == "main" \in Tasks /\ "watchdog" \in Tasks /\ "main" # "watchdog"
                  /\ \A t \in Tasks : t = "main" \/ t = "watchdog"
BY DEF Tasks

(***************************************************************************)
(* One decision.                                                           *)
(***************************************************************************)

(* Of the phases before and after a claim: which task may confirm or roll  *)
(* back is decided in the step that changes the phase                      *)
(* (otaBootHealthClaimAction).                                             *)
LEMMA ClaimOutcome ==
  ASSUME NEW s \in Supervisors, NEW n \in Nat
  PROVE  LET c == Claimed(s, n)
             place == PlaceAfter(s, c)
         IN  /\ place \in {"marking", "erase", "suspended", "idle"}
             /\ place = "marking" => s.phase = "monitoring" /\ c.phase = "markValid"
             /\ place = "erase" => s.phase \in {"monitoring", "rollback"} /\ c.phase = "halted"
             /\ s.phase \in {"markValid", "halted"} => c = s
             /\ s.phase = "valid" => c = s
             /\ c.phase \in {"monitoring", "rollback", "halted"} =>
                   s.phase \in {"monitoring", "rollback", "halted"}
<1>1. CASE s.phase = "monitoring" /\ n >= Timeout
  <2>1. Decided(s, n) = FailedWith(s, "timeout")
    BY <1>1, TimeoutAssumption DEF Decided
  <2>2. Decided(s, n).phase = "rollback" /\ ~Decided(s, n).issued
    BY <1>1, <2>1 DEF FailedWith, Supervisors
  <2>3. Claimed(s, n).phase = "halted"
    BY <1>1, <2>1, <2>2 DEF Claimed, FailedWith, Supervisors
  <2>4. QED
    BY <1>1, <2>3 DEF PlaceAfter, OwnsRollback
<1>2. CASE s.phase = "monitoring" /\ n < Timeout /\ s.ready = ReadyBits
  <2>1. Decided(s, n) = [s EXCEPT !.phase = "markValid", !.issued = TRUE]
    BY <1>2, TimeoutAssumption DEF Decided
  <2>2. Claimed(s, n).phase = "markValid"
    BY <1>2, <2>1 DEF Claimed, Supervisors
  <2>3. QED
    BY <1>2, <2>2 DEF PlaceAfter, OwnsRollback
<1>3. CASE /\ ~(s.phase = "monitoring" /\ n >= Timeout)
           /\ ~(s.phase = "monitoring" /\ n < Timeout /\ s.ready = ReadyBits)
  <2>1. Decided(s, n) = s
    BY <1>3 DEF Decided
  <2>2. CASE s.phase = "rollback" /\ ~s.issued
    <3>1. Claimed(s, n).phase = "halted"
      BY <2>1, <2>2 DEF Claimed, Supervisors
    <3>2. QED
      BY <2>2, <3>1 DEF PlaceAfter, OwnsRollback
  <2>3. CASE ~(s.phase = "rollback" /\ ~s.issued)
    <3>1. Claimed(s, n) = s
      BY <2>1, <2>3 DEF Claimed
    <3>2. QED
      BY <3>1 DEF PlaceAfter, OwnsRollback
  <2>4. QED
    BY <2>2, <2>3
<1>4. QED
  BY <1>1, <1>2, <1>3

(* A claim keeps the decision with one task, whether it polls or reports   *)
(* that the image could or could not be marked.                            *)
LEMMA ClaimDecides ==
  ASSUME TypeInv, DecisionInv, NEW t \in Tasks, NEW s \in Supervisors, Claim(t, s),
         pc[t] \in {"claim", "marked", "unmarked"},
         pc[t] = "claim" => s = supervisor,
         pc[t] \in {"marked", "unmarked"} => s.phase \in {"valid", "rollback"},
         s.phase = "rollback" => imageState[running] = "pending"
  PROVE  DecisionInv'
<1>1. now[t] \in Nat /\ pc \in [Tasks -> Places]
  BY TimeoutAssumption DEF TypeInv, OtaTypeOK, HealthTypeOK
<1>2. DEFINE c == Claimed(s, now[t])
             place == PlaceAfter(s, c)
<1>3. /\ place \in {"marking", "erase", "suspended", "idle"}
      /\ place = "marking" => s.phase = "monitoring" /\ c.phase = "markValid"
      /\ place = "erase" => s.phase \in {"monitoring", "rollback"} /\ c.phase = "halted"
      /\ s.phase \in {"markValid", "halted"} => c = s
      /\ s.phase = "valid" => c = s
      /\ c.phase \in {"monitoring", "rollback", "halted"} =>
            s.phase \in {"monitoring", "rollback", "halted"}
  BY <1>1, ClaimOutcome
<1>4. /\ supervisor' = c /\ pc' = [pc EXCEPT ![t] = place]
      /\ UNCHANGED <<running, imageState, stage>>
  BY DEF Claim, flashVars
<1>5. pc'[t] = place /\ \A other \in Tasks \ {t} : pc'[other] = pc[other]
  BY <1>1, <1>4
<1>6. stage \notin {"arm", "spawn"} \/ (t = "main" /\ stage # "arm")
  BY TwoTasks DEF DecisionInv, Alone
<1>7. Alone'
  BY <1>4, <1>5, <1>6, TwoTasks DEF DecisionInv, Alone
<1>8. ASSUME NEW other \in Tasks \ {t}
      PROVE  /\ pc[other] \in MarkPlaces => pc[t] = "claim" /\ s.phase = "markValid"
             /\ pc[other] \in RollbackPlaces => pc[t] = "claim" /\ s.phase = "halted"
  BY <1>8 DEF DecisionInv, OwnersAgree, MarkPlaces
<1>9. OwnersAgree'
  <2>1. /\ pc'[t] \in MarkPlaces => supervisor'.phase = "markValid" /\ s.phase = "monitoring"
        /\ pc'[t] \in RollbackPlaces =>
              supervisor'.phase = "halted" /\ s.phase \in {"monitoring", "rollback"}
    BY <1>3, <1>4, <1>5 DEF MarkPlaces, RollbackPlaces
  <2>2. ASSUME NEW other \in Tasks \ {t}
        PROVE  /\ pc'[other] \in MarkPlaces =>
                     supervisor'.phase = "markValid" /\ pc'[t] \notin MarkPlaces
               /\ pc'[other] \in RollbackPlaces =>
                     supervisor'.phase = "halted" /\ pc'[t] \notin RollbackPlaces
    BY <1>3, <1>4, <1>5, <1>8, <2>1, <2>2
  <2>3. \A x \in Tasks : \A y \in Tasks \ {x} : x = t \/ y = t
    BY TwoTasks
  <2>4. QED
    BY <2>1, <2>2, <2>3 DEF OwnersAgree
<1>10. StillPending'
  <2>1. s.phase \in {"monitoring", "rollback", "halted"} => imageState[running] = "pending"
    BY DEF DecisionInv, StillPending
  <2>2. \A other \in Tasks \ {t} :
           pc[other] \in {"marking", "unmarked"} => imageState[running] = "pending"
    BY DEF DecisionInv, StillPending
  <2>3. QED
    BY <1>3, <1>4, <1>5, <2>1, <2>2 DEF StillPending
<1>11. QED
  BY <1>7, <1>9, <1>10 DEF DecisionInv

(* What setup(), loop() and the waking watchdog tell the supervisor leaves *)
(* a decision that was made alone.                                         *)
LEMMA TellDecides ==
  ASSUME TypeInv, DecisionInv, UNCHANGED <<running, imageState>>,
         supervisor' = supervisor
            \/ (supervisor.phase = "monitoring" /\ supervisor'.phase \in {"monitoring", "rollback"}),
         \A t \in Tasks : \/ pc'[t] = pc[t]
                          \/ pc[t] \in {"idle", "absent"} /\ pc'[t] \in {"idle", "claim", "ended"},
         Alone'
  PROVE  DecisionInv'
<1>1. \A t \in Tasks : /\ pc'[t] \in MarkPlaces \cup RollbackPlaces => pc[t] = pc'[t]
                       /\ pc'[t] \in {"marking", "unmarked"} => pc[t] = pc'[t]
  BY DEF MarkPlaces, RollbackPlaces
<1>2. OwnersAgree'
  BY <1>1 DEF DecisionInv, OwnersAgree
<1>3. StillPending'
  BY <1>1 DEF DecisionInv, StillPending
<1>4. QED
  BY <1>2, <1>3 DEF DecisionInv

LEMMA MainDecides ==
  ASSUME TypeInv, DecisionInv, Begin \/ Setup \/ Loop \/ WatchdogWakes \/ Tick
  PROVE  DecisionInv'
<1>1. pc \in [Tasks -> Places] /\ supervisor \in Supervisors
  BY DEF TypeInv, OtaTypeOK, HealthTypeOK, Supervisors
<1>2. UNCHANGED <<running, imageState>>
  BY DEF Begin, ArmEarly, SpawnWatchdog, Setup, Probe, Loop, PollOnly, ObserveBle,
         EventLoopReady, WatchdogWakes, Tick, flashVars
<1>3. ASSUME NEW t \in Tasks, NEW s, pc[t] = "idle", UNCHANGED pc \/ CallPoll(t, s)
      PROVE  \A u \in Tasks : \/ pc'[u] = pc[u]
                              \/ u = t /\ pc[u] = "idle" /\ pc'[u] = "claim"
  BY <1>1, <1>3 DEF CallPoll
<1>4. /\ \A bit : Signalled(supervisor, bit) = supervisor
                  \/ (supervisor.phase = "monitoring"
                      /\ Signalled(supervisor, bit).phase = "monitoring")
      /\ \A reason : FailedWith(supervisor, reason) = supervisor
                     \/ (supervisor.phase = "monitoring"
                         /\ FailedWith(supervisor, reason).phase = "rollback")
  BY <1>1 DEF Signalled, FailedWith, Supervisors
<1>5. CASE ArmEarly
  <2>1. /\ stage' = "spawn" /\ pc["watchdog"] = "absent" /\ pc["main"] = "idle"
        /\ \A u \in Tasks : \/ pc'[u] = pc[u]
                            \/ u = "main" /\ pc[u] = "idle" /\ pc'[u] = "claim"
    BY <1>3, <1>5, TwoTasks DEF ArmEarly, DecisionInv, Alone
  <2>2. \A u \in Tasks : pc'[u] \in {"idle", "claim", "absent"}
    BY <2>1, TwoTasks
  <2>3. /\ supervisor'.phase \in {"monitoring", "rollback"} => imageState[running] = "pending"
        /\ supervisor'.phase # "halted"
    BY <1>5 DEF ArmEarly, Unarmed
  <2>4. Alone'
    BY <2>1, TwoTasks DEF Alone
  <2>5. OwnersAgree'
    BY <2>2 DEF OwnersAgree, MarkPlaces, RollbackPlaces
  <2>6. StillPending'
    BY <1>2, <2>2, <2>3 DEF StillPending
  <2>7. QED
    BY <2>4, <2>5, <2>6 DEF DecisionInv
<1>6. CASE SpawnWatchdog
  <2>1. CASE pc' = [pc EXCEPT !["watchdog"] = "idle"] /\ UNCHANGED supervisor
    <3>1. pc["watchdog"] = "absent" /\ stage' = "buttons"
      BY <1>6 DEF SpawnWatchdog, DecisionInv, Alone
    <3>2. \A u \in Tasks : \/ pc'[u] = pc[u]
                           \/ pc[u] = "absent" /\ pc'[u] = "idle"
      BY <1>1, <2>1, <3>1, TwoTasks
    <3>3. QED
      BY <1>2, <2>1, <3>1, <3>2, TellDecides DEF Alone
  <2>2. CASE UNCHANGED pc \/ CallPoll("main", supervisor')
    BY <1>2, <1>3, <1>4, <1>6, <2>2, TwoTasks, TellDecides DEF SpawnWatchdog, Alone
  <2>3. QED
    BY <1>6, <2>1, <2>2 DEF SpawnWatchdog
<1>7. ASSUME NEW bit, NEW next \in Stages \ {"arm", "spawn"}, Probe(bit, next)
      PROVE  DecisionInv'
  BY <1>2, <1>3, <1>4, <1>7, TwoTasks, TellDecides DEF Probe, Alone
<1>8. CASE Setup
  BY <1>7, <1>8 DEF Setup, Stages
<1>9. CASE Loop
  BY <1>2, <1>3, <1>4, <1>9, TwoTasks, TellDecides
     DEF Loop, PollOnly, ObserveBle, EventLoopReady, Alone
<1>10. CASE WatchdogWakes
  <2>1. \A u \in Tasks : \/ pc'[u] = pc[u]
                         \/ u = "watchdog" /\ pc[u] = "idle" /\ pc'[u] \in {"claim", "ended"}
    BY <1>1, <1>3, <1>10, TwoTasks DEF WatchdogWakes
  <2>2. Alone'
    BY <1>10, <2>1, TwoTasks DEF WatchdogWakes, DecisionInv, Alone
  <2>3. QED
    BY <1>2, <1>10, <2>1, <2>2, TellDecides DEF WatchdogWakes
<1>11. CASE Tick
  BY <1>2, <1>11, TellDecides DEF Tick, DecisionInv, Alone
<1>12. QED
  BY <1>5, <1>6, <1>8, <1>9, <1>10, <1>11 DEF Begin

LEMMA SuperviseDecides ==
  ASSUME TypeInv, DecisionInv, NEW t \in Tasks, Supervise(t)
  PROVE  DecisionInv'
<1>1. pc \in [Tasks -> Places] /\ supervisor \in Supervisors /\ running \in Slots
      /\ imageState \in [Slots -> ImageStates]
  BY DEF TypeInv, OtaTypeOK, HealthTypeOK, FlashTypeOK, Supervisors
<1>2. CASE ClaimAction(t)
  <2>1. supervisor.phase = "rollback" => imageState[running] = "pending"
    BY DEF DecisionInv, StillPending
  <2>2. QED
    BY <1>1, <1>2, <2>1, ClaimDecides DEF ClaimAction
<1>3. CASE MarkValidResult(t)
  <2>1. supervisor.phase = "markValid" /\ pc[t] \in {"marked", "unmarked"}
        /\ (pc[t] = "unmarked" => imageState[running] = "pending")
    BY <1>3 DEF MarkValidResult, DecisionInv, OwnersAgree, StillPending, MarkPlaces
  <2>2. DEFINE s == MarkResult(supervisor, pc[t] = "marked")
  <2>3. s \in Supervisors
    BY <1>1, SupervisorMoves
  <2>4. /\ pc[t] = "marked" => s.phase = "valid"
        /\ pc[t] = "unmarked" => s.phase = "rollback"
    BY <1>1, <2>1 DEF MarkResult, Supervisors
  <2>5. QED
    BY <1>3, <2>1, <2>3, <2>4, ClaimDecides DEF MarkValidResult
<1>4. CASE MarkValid(t)
  <2>1. /\ pc[t] = "marking" /\ UNCHANGED <<running, supervisor, stage>>
        /\ \A other \in Tasks \ {t} : pc'[other] = pc[other]
        /\ \/ pc'[t] = "marked"
           \/ pc'[t] = "unmarked" /\ UNCHANGED imageState
    BY <1>1, <1>4 DEF MarkValid
  <2>2. supervisor.phase = "markValid" /\ \A other \in Tasks \ {t} : pc[other] \notin MarkPlaces
    BY <2>1 DEF DecisionInv, OwnersAgree, MarkPlaces
  <2>3. Alone'
    BY <2>1, TwoTasks DEF DecisionInv, Alone
  <2>4. OwnersAgree'
    BY <2>1, <2>2 DEF DecisionInv, OwnersAgree, MarkPlaces, RollbackPlaces
  <2>5. StillPending'
    BY <2>1, <2>2 DEF DecisionInv, StillPending, MarkPlaces
  <2>6. QED
    BY <2>3, <2>4, <2>5 DEF DecisionInv
<1>5. ASSUME pc[t] \in RollbackPlaces, NEW to \in RollbackPlaces, pc' = [pc EXCEPT ![t] = to],
             UNCHANGED <<running, imageState, supervisor, stage>>
      PROVE  DecisionInv'
  <2>1. pc'[t] = to /\ \A other \in Tasks \ {t} : pc'[other] = pc[other]
    BY <1>1, <1>5
  <2>2. Alone'
    BY <1>5, <2>1, TwoTasks DEF DecisionInv, Alone, RollbackPlaces
  <2>3. OwnersAgree'
    BY <1>5, <2>1 DEF DecisionInv, OwnersAgree, MarkPlaces, RollbackPlaces
  <2>4. StillPending'
    BY <1>5, <2>1 DEF DecisionInv, StillPending, RollbackPlaces
  <2>5. QED
    BY <2>2, <2>3, <2>4 DEF DecisionInv
<1>6. CASE EraseMarker(t) \/ WritePayload(t) \/ WriteChecksum(t) \/ WriteMarker(t)
           \/ RollbackApiReturns(t)
  BY <1>5, <1>6 DEF EraseMarker, WritePayload, WriteChecksum, WriteMarker, RetainStep,
                    RollbackApiReturns, RollbackPlaces, flashVars
<1>7. QED
  BY <1>2, <1>3, <1>4, <1>6 DEF Supervise

(* An update does not touch the state of the slot that runs, the one an    *)
(* image under supervision is in.                                          *)
LEMMA PollKeepsRunning ==
  ASSUME TypeInv, BootInv, Poll
  PROVE  running' = running /\ imageState'[running] = imageState[running]
<1>1. CASE \E world \in Worlds : PollSetBoot(world)
  <2>1. run.target = Other(running)
    BY <1>1 DEF PollSetBoot, Works, BootInv, TargetSafe, FlashPhases
  <2>2. QED
    BY <1>1, <2>1, OtherSlot DEF PollSetBoot, TypeInv, OtaTypeOK, FlashTypeOK
<1>2. CASE ~\E world \in Worlds : PollSetBoot(world)
  BY <1>2 DEF Poll, Flashing, flashVars, PollNothing, PollArm, PollTerminal, PollRestartReturns,
              PollArmDirect, PollConfirm, PollWaitReady, PollCancel, PollGateFails, PollWorkFails,
              PollWorkPending, PollStep, PollBegin, PollDownload, PollWrite, PollEnd,
              PollReadback, PollDigest
<1>3. QED
  BY <1>1, <1>2

LEMMA ResetDecides ==
  ASSUME RestartHealth
  PROVE  DecisionInv'
BY TwoTasks DEF RestartHealth, Unarmed, DecisionInv, Alone, OwnersAgree, StillPending, MarkPlaces,
                RollbackPlaces

LEMMA DecisionStep ==
  ASSUME TypeInv, BootInv, DecisionInv, [DeviceNext]_deviceVars
  PROVE  DecisionInv'
<1>1. ASSUME UNCHANGED <<supervisor, pc>>, stage' \in {stage, "tail"}, running' = running,
             imageState'[running] = imageState[running]
      PROVE  DecisionInv'
  BY <1>1 DEF DecisionInv, Alone, OwnersAgree, StillPending
<1>2. CASE Begin \/ Setup \/ Loop \/ WatchdogWakes \/ Tick
  BY <1>2, MainDecides
<1>3. CASE \E t \in Tasks : Supervise(t)
  BY <1>3, SuperviseDecides
<1>4. CASE RestartHealth
  BY <1>4, ResetDecides
<1>5. CASE Inputs /\ UNCHANGED healthVars
  <2>1. UNCHANGED flashVars
    BY <1>5 DEF Inputs, OfferArrives, OpenWindow, OfferDropped, Confirm, Cancel, PromptArrives
  <2>2. QED
    BY <1>1, <1>5, <2>1 DEF flashVars, healthVars
<1>6. CASE /\ Poll /\ stage' = "tail"
           /\ UNCHANGED <<supervisor, clock, pc, now, apiFailed, record, lastCause>>
  BY <1>1, <1>6, PollKeepsRunning
<1>7. CASE UNCHANGED deviceVars
  BY <1>1, <1>7 DEF deviceVars, flashVars, healthVars
<1>8. QED
  BY <1>2, <1>3, <1>4, <1>5, <1>6, <1>7, StepCases DEF RollbackApi

LEMMA DecisionInit ==
  ASSUME DeviceInit
  PROVE  TypeInv /\ BootInv /\ DecisionInv
<1>1. BootInv
  BY DEF DeviceInit, FlashInit, UpdateInit, Fresh, BootInv, RunningSafe, CommittedSafe,
         TargetSafe, DigestChecked, FlashPhases, Slots
<1>2. DecisionInv
  BY TwoTasks DEF DeviceInit, HealthInit, Unarmed, DecisionInv, Alone, OwnersAgree, StillPending,
                  MarkPlaces, RollbackPlaces
<1>3. QED
  BY <1>1, <1>2, TypeInit

(* However the polls of the two tasks interleave, the decision over a new  *)
(* image is made once: who rolls it back does so alone, and not after the  *)
(* image was confirmed nor while it is.                                    *)
THEOREM DecidedOnce == DeviceSpec => []OneDecision
<1>1. TypeInv /\ BootInv /\ DecisionInv /\ [DeviceNext]_deviceVars
        => (TypeInv /\ BootInv /\ DecisionInv)'
  BY TypeStep, SafeStep, DecisionStep
<1>2. DecisionInv => OneDecision
  <2>1. ASSUME DecisionInv, NEW t \in Tasks, pc[t] \in RollbackPlaces,
               NEW other \in Tasks \ {t}
        PROVE  pc[other] \notin RollbackPlaces \cup {"marking", "marked", "unmarked"}
    BY <2>1 DEF DecisionInv, OwnersAgree, MarkPlaces
  <2>2. ASSUME DecisionInv, NEW t \in Tasks, pc[t] \in RollbackPlaces
        PROVE  imageState[running] # "valid"
    BY <2>2 DEF DecisionInv, OwnersAgree, StillPending
  <2>3. QED
    BY <2>1, <2>2 DEF OneDecision
<1>3. QED
  BY <1>1, <1>2, DecisionInit, PTL DEF DeviceSpec

(***************************************************************************)
(* The retained reason.                                                    *)
(***************************************************************************)

(* Outside a rollback the record says nothing; in it the marker is gone    *)
(* while payload and checksum are written, and what they then say is the   *)
(* reason of the one task that rolls back.                                 *)
ReasonInv ==
    /\ stage = "arm" /\ RecordValid => record.payload = lastCause
    /\ stage # "arm" /\ RecordValid =>
          supervisor.phase = "halted" /\ record.payload = supervisor.reason
    /\ \A t \in Tasks :
          /\ pc[t] \in {"payload", "seal", "commit"} => ~record.magic
          /\ pc[t] \in {"seal", "commit"} => record.payload = supervisor.reason
          /\ pc[t] = "commit" => record.sum = supervisor.reason

(* A reset of any kind leaves the reason of the rollback or no reason.     *)
LEMMA ResetReports ==
  ASSUME TypeInv, DecisionInv, ReasonInv, RestartHealth, record' \in RecordAfterReset
  PROVE  ReasonInv'
<1>1. stage' = "arm" /\ \A t \in Tasks : pc'[t] \in {"idle", "absent"}
  BY DEF RestartHealth
<1>2. RecordValid' => record'.payload = lastCause'
  <2>1. CASE record' = record
    <3>1. CASE stage = "arm"
      BY <2>1, <3>1 DEF RestartHealth, ReasonInv, RecordValid, DecisionInv, Alone
    <3>2. CASE stage # "arm"
      BY <2>1, <3>2 DEF RestartHealth, ReasonInv, RecordValid
    <3>3. QED
      BY <3>1, <3>2
  <2>2. CASE record' = ClearedRecord
    BY <2>2 DEF ClearedRecord, RecordValid
  <2>3. CASE record' \notin {record, ClearedRecord}
    <3>1. PICK r \in Reasons \ {record.sum} : record' = [record EXCEPT !.payload = r]
      BY <2>3 DEF RecordAfterReset
    <3>2. record'.sum = record.sum /\ record'.payload = r
      BY <3>1 DEF TypeInv, OtaTypeOK, HealthTypeOK, Records
    <3>3. QED
      BY <3>1, <3>2 DEF RecordValid
  <2>4. QED
    BY <2>1, <2>2, <2>3
<1>3. QED
  BY <1>1, <1>2 DEF ReasonInv

(* A step that leaves the record alone keeps ReasonInv, if a halted        *)
(* supervisor stays as it is and no task gets past the erasing.            *)
LEMMA RecordKept ==
  ASSUME ReasonInv, DecisionInv, UNCHANGED record, stage # "arm", stage' # "arm",
         supervisor.phase = "halted" => UNCHANGED supervisor,
         \A t \in Tasks : pc'[t] = pc[t] \/ pc'[t] \notin {"payload", "seal", "commit"}
  PROVE  ReasonInv'
<1>1. \A t \in Tasks : pc[t] \in {"payload", "seal", "commit"} => supervisor.phase = "halted"
  BY DEF DecisionInv, OwnersAgree, RollbackPlaces
<1>2. QED
  BY <1>1 DEF ReasonInv, RecordValid

LEMMA MainReports ==
  ASSUME TypeInv, DecisionInv, ReasonInv, Begin \/ Setup \/ Loop \/ WatchdogWakes \/ Tick
  PROVE  ReasonInv'
<1>1. pc \in [Tasks -> Places] /\ supervisor \in Supervisors
  BY DEF TypeInv, OtaTypeOK, HealthTypeOK, Supervisors
<1>2. ASSUME NEW t \in Tasks, NEW s, UNCHANGED pc \/ CallPoll(t, s)
      PROVE  \A u \in Tasks : pc'[u] = pc[u] \/ pc'[u] \notin {"payload", "seal", "commit"}
  BY <1>1, <1>2 DEF CallPoll
<1>3. /\ \A bit : supervisor.phase = "halted" => Signalled(supervisor, bit) = supervisor
      /\ \A reason : supervisor.phase = "halted" => FailedWith(supervisor, reason) = supervisor
  BY DEF Signalled, FailedWith
<1>4. CASE ArmEarly
  <2>1. record' = ClearedRecord /\ stage' = "spawn"
        /\ \A u \in Tasks : pc'[u] = pc[u] \/ pc'[u] \notin {"payload", "seal", "commit"}
    BY <1>2, <1>4, TwoTasks DEF ArmEarly
  <2>2. \A u \in Tasks : pc[u] \notin {"payload", "seal", "commit"}
    BY <1>4, TwoTasks DEF ArmEarly, DecisionInv, Alone
  <2>3. QED
    BY <2>1, <2>2 DEF ReasonInv, RecordValid, ClearedRecord
<1>5. CASE SpawnWatchdog
  <2>1. \A u \in Tasks : pc'[u] = pc[u] \/ pc'[u] \notin {"payload", "seal", "commit"}
    BY <1>1, <1>2, <1>5, TwoTasks DEF SpawnWatchdog
  <2>2. QED
    BY <1>3, <1>5, <2>1, RecordKept DEF SpawnWatchdog
<1>6. ASSUME NEW bit \in Stages \ {"arm"}, NEW next \in Stages \ {"arm"}, Probe(bit, next)
      PROVE  ReasonInv'
  BY <1>2, <1>3, <1>6, TwoTasks, RecordKept DEF Probe
<1>7. CASE Setup
  BY <1>6, <1>7 DEF Setup, Stages
<1>8. CASE Loop
  BY <1>2, <1>3, <1>8, TwoTasks, RecordKept DEF Loop, PollOnly, ObserveBle, EventLoopReady
<1>9. CASE WatchdogWakes
  <2>1. \A u \in Tasks : pc'[u] = pc[u] \/ pc'[u] \notin {"payload", "seal", "commit"}
    BY <1>1, <1>2, <1>9, TwoTasks DEF WatchdogWakes
  <2>2. stage # "arm"
    BY <1>9 DEF WatchdogWakes, DecisionInv, Alone
  <2>3. QED
    BY <1>9, <2>1, <2>2, RecordKept DEF WatchdogWakes
<1>10. CASE Tick
  <2>1. stage # "arm"
    BY <1>10 DEF Tick, DecisionInv, Alone
  <2>2. QED
    BY <1>10, <2>1, RecordKept DEF Tick
<1>11. QED
  BY <1>4, <1>5, <1>7, <1>8, <1>9, <1>10 DEF Begin

LEMMA SuperviseReports ==
  ASSUME TypeInv, DecisionInv, ReasonInv, NEW t \in Tasks, Supervise(t)
  PROVE  ReasonInv'
<1>1. /\ pc \in [Tasks -> Places] /\ now[t] \in Nat /\ supervisor \in Supervisors
      /\ record \in Records
  BY TimeoutAssumption DEF TypeInv, OtaTypeOK, HealthTypeOK, Supervisors
<1>2. stage # "arm" /\ UNCHANGED stage
  BY TwoTasks DEF Supervise, ClaimAction, Claim, MarkValid, MarkValidResult, EraseMarker,
                  WritePayload, WriteChecksum, WriteMarker, RetainStep, RollbackApiReturns,
                  DecisionInv, Alone
<1>3. ASSUME NEW s \in Supervisors, Claim(t, s), supervisor.phase = "halted" => s = supervisor
      PROVE  ReasonInv'
  <2>1. /\ PlaceAfter(s, Claimed(s, now[t])) \in {"marking", "erase", "suspended", "idle"}
        /\ s.phase = "halted" => Claimed(s, now[t]) = s
    BY <1>1, ClaimOutcome
  <2>2. \A u \in Tasks : pc'[u] = pc[u] \/ pc'[u] \notin {"payload", "seal", "commit"}
    BY <1>1, <1>3, <2>1 DEF Claim
  <2>3. QED
    BY <1>2, <1>3, <2>1, <2>2, RecordKept DEF Claim
<1>4. CASE ClaimAction(t)
  BY <1>1, <1>3, <1>4 DEF ClaimAction
<1>5. CASE MarkValidResult(t)
  <2>1. supervisor.phase = "markValid"
    BY <1>5 DEF MarkValidResult, DecisionInv, OwnersAgree, MarkPlaces
  <2>2. MarkResult(supervisor, pc[t] = "marked") \in Supervisors
    BY <1>1, SupervisorMoves
  <2>3. QED
    BY <1>3, <1>5, <2>1, <2>2 DEF MarkValidResult
<1>6. CASE MarkValid(t) \/ RollbackApiReturns(t)
  <2>1. \A u \in Tasks : pc'[u] = pc[u] \/ pc'[u] \notin {"payload", "seal", "commit"}
    BY <1>1, <1>6 DEF MarkValid, RollbackApiReturns
  <2>2. QED
    BY <1>2, <1>6, <2>1, RecordKept DEF MarkValid, RollbackApiReturns
<1>7. ASSUME pc[t] \in RollbackPlaces, NEW to, pc' = [pc EXCEPT ![t] = to], UNCHANGED supervisor,
             to \in {"payload", "seal", "commit"} => ~record'.magic,
             to \in {"seal", "commit"} => record'.payload = supervisor.reason,
             to = "commit" => record'.sum = supervisor.reason,
             record'.magic => record'.payload = supervisor.reason
      PROVE  ReasonInv'
  <2>1. /\ supervisor.phase = "halted" /\ pc'[t] = to
        /\ \A other \in Tasks \ {t} : pc'[other] = pc[other] /\ pc[other] \notin RollbackPlaces
    BY <1>1, <1>7 DEF DecisionInv, OwnersAgree
  <2>2. QED
    BY <1>2, <1>7, <2>1 DEF ReasonInv, RecordValid, RollbackPlaces
<1>8. CASE EraseMarker(t) \/ WritePayload(t) \/ WriteChecksum(t) \/ WriteMarker(t)
  <2>1. CASE EraseMarker(t)
    BY <1>1, <1>7, <2>1 DEF EraseMarker, RetainStep, RollbackPlaces, Records
  <2>2. CASE WritePayload(t)
    BY <1>1, <1>7, <2>2 DEF WritePayload, RetainStep, RollbackPlaces, Records, ReasonInv
  <2>3. CASE WriteChecksum(t)
    BY <1>1, <1>7, <2>3 DEF WriteChecksum, RetainStep, RollbackPlaces, Records, ReasonInv
  <2>4. CASE WriteMarker(t)
    BY <1>1, <1>7, <2>4 DEF WriteMarker, RetainStep, RollbackPlaces, Records, ReasonInv
  <2>5. QED
    BY <1>8, <2>1, <2>2, <2>3, <2>4
<1>9. QED
  BY <1>4, <1>5, <1>6, <1>8 DEF Supervise

LEMMA ReasonStep ==
  ASSUME TypeInv, DecisionInv, ReasonInv, [DeviceNext]_deviceVars
  PROVE  ReasonInv'
<1>1. ASSUME UNCHANGED <<supervisor, pc, record, lastCause>>,
             stage' = stage \/ (stage # "arm" /\ stage' # "arm")
      PROVE  ReasonInv'
  BY <1>1 DEF ReasonInv, RecordValid
<1>2. CASE Begin \/ Setup \/ Loop \/ WatchdogWakes \/ Tick
  BY <1>2, MainReports
<1>3. CASE \E t \in Tasks : Supervise(t)
  BY <1>3, SuperviseReports
<1>4. CASE RestartHealth /\ record' \in RecordAfterReset
  BY <1>4, ResetReports
<1>5. CASE UNCHANGED healthVars
  BY <1>1, <1>5 DEF healthVars
<1>6. CASE Polled(Poll)
  BY <1>1, <1>6 DEF Polled, InBody
<1>7. QED
  BY <1>2, <1>3, <1>4, <1>5, <1>6
     DEF DeviceNext, Supervisor, RollbackReboot, RollbackApi, RollbackRestart, TakeIn,
         UpdateRestart, PowerCut, deviceVars

(* What a boot reports of the rollback before it is the reason of that     *)
(* rollback or nothing, wherever between the writes the power went.        *)
THEOREM ReasonsReported == DeviceSpec => []ReasonReported
<1>1. DeviceInit => TypeInv /\ BootInv /\ DecisionInv /\ ReasonInv
  <2>1. DeviceInit => ReasonInv
    BY TwoTasks DEF DeviceInit, HealthInit, ClearedRecord, ReasonInv, RecordValid
  <2>2. QED
    BY <2>1, DecisionInit
<1>2. TypeInv /\ BootInv /\ DecisionInv /\ ReasonInv /\ [DeviceNext]_deviceVars
        => (TypeInv /\ BootInv /\ DecisionInv /\ ReasonInv)'
  BY TypeStep, SafeStep, DecisionStep, ReasonStep
<1>3. ReasonInv => ReasonReported
  BY DEF ReasonInv, ReasonReported, ObservedReason
<1>4. QED
  BY <1>1, <1>2, <1>3, PTL DEF DeviceSpec
===============================================================================
