---------------------------- MODULE BootHealth ----------------------------
(***************************************************************************)
(* The supervisor of a freshly updated image (ota_boot_health_logic.h,     *)
(* ota_boot_health.cpp) and the program that reports to it: setup() and    *)
(* loop() on the main task, the watchdog on a task of its own.  The two    *)
(* share `supervisor` under supervisorMux; the ESP-IDF calls and the       *)
(* writes to the retained record happen outside the lock.                  *)
(***************************************************************************)
EXTENDS OtaFlash, Naturals

CONSTANT
    Timeout    \* OTA_BOOT_HEALTH_TIMEOUT_MS, in ticks of the model's clock

ASSUME TimeoutAssumption == Timeout \in Nat \ {0}

Tasks == {"main", "watchdog"}

(* OtaBootReadyBit: what the image has to show before it is confirmed.     *)
ReadyBits == {"display", "storage", "buttons", "ble", "eventLoop"}

(* OtaBootHealthReason without NONE, the reasons of the four probes of     *)
(* setup() taken as one.                                                   *)
Reasons == {"probe", "layout", "timeout", "markValid", "supervisor"}

NoReason == "none"


Phases == {"inert", "queryUnknown", "monitoring", "markValid", "valid", "rollback", "halted"}

(* There is nothing left to decide: a poll changes nothing.                *)
SettledPhases == {"inert", "queryUnknown", "valid"}

(* The retained record; `sum` stands for the payload its checksum fits.    *)
Records == [magic : BOOLEAN, payload : Reasons \cup {NoReason}, sum : Reasons \cup {NoReason}]

VARIABLES
    supervisor,  \* OtaBootHealthState; its deadline is Timeout on `clock`
    clock,       \* millis() since ArmEarly while monitoring, up to just past the deadline
    stage,       \* where setup() and loop() are on the main task
    pc,          \* where each task is inside the supervisor's functions
    now,         \* the nowMs each task passed to the poll it is in
    apiFailed,   \* markInvalidRollbackAndReboot returned
    record,      \* retainedRollback, in RTC memory
    lastCause    \* history: what the last boot was rolled back for, until observed

healthVars == <<supervisor, clock, stage, pc, now, apiFailed, record, lastCause>>

Stages == {"arm", "spawn", "buttons", "ble", "display", "storage", "booted",
           "loop", "observe", "body", "tail"}

(* A task that owns a rollback is in one of these places.                  *)
RollbackPlaces == {"erase", "payload", "seal", "commit", "invalidate", "restart"}

Places == RollbackPlaces \cup {"idle", "claim", "marking", "marked", "unmarked",
                               "suspended", "absent", "ended"}

HealthTypeOK ==
    /\ supervisor \in [phase : Phases, ready : SUBSET ReadyBits,
                       reason : Reasons \cup {NoReason}, issued : BOOLEAN]
    /\ clock \in 0 .. Timeout + 1
    /\ stage \in Stages
    /\ pc \in [Tasks -> Places]
    /\ now \in [Tasks -> 0 .. Timeout + 1]
    /\ apiFailed \in BOOLEAN
    /\ record \in Records
    /\ lastCause \in Reasons \cup {NoReason}

Unarmed == [phase |-> "inert", ready |-> {}, reason |-> NoReason, issued |-> FALSE]

ClearedRecord == [magic |-> FALSE, payload |-> NoReason, sum |-> NoReason]

HealthInit ==
    /\ supervisor = Unarmed
    /\ clock = 0
    /\ stage = "arm"
    /\ pc = [t \in Tasks |-> IF t = "main" THEN "idle" ELSE "absent"]
    /\ now = [t \in Tasks |-> 0]
    /\ apiFailed = FALSE
    /\ record = ClearedRecord
    /\ lastCause = NoReason

(***************************************************************************)
(* The state machine under the lock.                                       *)
(***************************************************************************)

Signalled(s, bit) ==
    IF s.phase = "monitoring" THEN [s EXCEPT !.ready = @ \cup {bit}] ELSE s

FailedWith(s, reason) ==
    IF s.phase = "monitoring"
    THEN [s EXCEPT !.phase = "rollback", !.reason = reason, !.issued = FALSE]
    ELSE s

Decided(s, n) ==
    CASE s.phase = "monitoring" /\ n >= Timeout -> FailedWith(s, "timeout")
      [] s.phase = "monitoring" /\ n < Timeout /\ s.ready = ReadyBits ->
            [s EXCEPT !.phase = "markValid", !.issued = TRUE]
      [] OTHER -> s

(* otaBootHealthClaimAction: the rollback and the latch are one step.      *)
Claimed(s, n) ==
    LET d == Decided(s, n)
    IN  IF d.phase = "rollback" /\ ~d.issued
        THEN [d EXCEPT !.phase = "halted", !.issued = TRUE]
        ELSE d

MarkFailureIgnored(s, success) ==
    IF s.phase = "markValid" /\ success THEN [s EXCEPT !.phase = "valid"] ELSE s

MarkResult(s, success) ==
    CASE s.phase # "markValid" -> s
      [] s.phase = "markValid" /\ success -> [s EXCEPT !.phase = "valid"]
      [] OTHER -> [s EXCEPT !.phase = "rollback", !.reason = "markValid", !.issued = FALSE]

EveryCallerOwns(s, c) == c.phase = "halted"

OwnsRollback(s, c) == s.phase # "halted" /\ c.phase = "halted"

(* Where a poll goes after its claim turned the state s into c.            *)
PlaceAfter(s, c) ==
    CASE s.phase = "monitoring" /\ c.phase = "markValid" -> "marking"
      [] OwnsRollback(s, c) -> "erase"
      [] ~OwnsRollback(s, c) /\ c.phase = "halted" -> "suspended"
      [] OTHER -> "idle"

(* The call otaBootHealthPoll(millis()) with the supervisor s: the time is *)
(* read before the lock is taken.                                          *)
CallPoll(t, s) ==
    IF s.phase \in SettledPhases
    THEN UNCHANGED <<pc, now>>
    ELSE /\ pc' = [pc EXCEPT ![t] = "claim"]
         /\ now' = [now EXCEPT ![t] = clock]

(* The claim that turns the state s of the supervisor into the next one.   *)
Claim(t, s) ==
    LET c == Claimed(s, now[t])
        place == PlaceAfter(s, c)
    IN  /\ supervisor' = c
        /\ pc' = [pc EXCEPT ![t] = place]
        /\ now' = IF place = "marking" THEN now ELSE [now EXCEPT ![t] = 0]
        /\ clock' = IF c.phase = "monitoring" THEN clock ELSE 0
        /\ UNCHANGED <<flashVars, stage, apiFailed, record, lastCause>>

ClaimAction(t) == pc[t] = "claim" /\ Claim(t, supervisor)

(* esp_ota_mark_app_valid_cancel_rollback, outside the lock.               *)
MarkValid(t) ==
    /\ pc[t] = "marking"
    /\ \/ /\ imageState' = [imageState EXCEPT ![running] = "valid"]
          /\ pc' = [pc EXCEPT ![t] = "marked"]
       \/ /\ pc' = [pc EXCEPT ![t] = "unmarked"]
          /\ UNCHANGED imageState
    /\ UNCHANGED <<running, selected, image, supervisor, clock, stage, now, apiFailed,
                   record, lastCause>>

MarkValidResult(t) ==
    /\ pc[t] \in {"marked", "unmarked"}
    /\ Claim(t, MarkResult(supervisor, pc[t] = "marked"))

(***************************************************************************)
(* performRollback: the reason is retained, the API reboots or returns an  *)
(* error, and the reason is retained with it before the restart.           *)
(***************************************************************************)

RetainStep(t, from, to, newRecord) ==
    /\ pc[t] = from
    /\ pc' = [pc EXCEPT ![t] = to]
    /\ record' = newRecord
    /\ UNCHANGED <<flashVars, supervisor, clock, stage, now, apiFailed, lastCause>>

EraseMarker(t) == RetainStep(t, "erase", "payload", [record EXCEPT !.magic = FALSE])

WritePayload(t) ==
    RetainStep(t, "payload", "seal", [record EXCEPT !.payload = supervisor.reason])

WriteChecksum(t) == RetainStep(t, "seal", "commit", [record EXCEPT !.sum = record.payload])

WriteMarker(t) ==
    RetainStep(t, "commit", IF apiFailed THEN "restart" ELSE "invalidate",
               [record EXCEPT !.magic = TRUE])

RollbackApiReturns(t) ==
    /\ pc[t] = "invalidate"
    /\ apiFailed' = TRUE
    /\ pc' = [pc EXCEPT ![t] = "erase"]
    /\ UNCHANGED <<flashVars, supervisor, clock, stage, now, record, lastCause>>

(* RAM after any reset.  The retained record is not RAM: a reset keeps it, *)
(* loses it with the power, or leaves a payload its checksum does not fit. *)
RestartHealth ==
    /\ supervisor' = Unarmed
    /\ clock' = 0
    /\ stage' = "arm"
    /\ pc' = [t \in Tasks |-> IF t = "main" THEN "idle" ELSE "absent"]
    /\ now' = [t \in Tasks |-> 0]
    /\ apiFailed' = FALSE
    /\ lastCause' = IF supervisor.phase = "halted" THEN supervisor.reason ELSE lastCause

RecordAfterReset ==
    {record, ClearedRecord} \cup {[record EXCEPT !.payload = r] :
                                      r \in Reasons \ {record.sum}}

(* The API marks the running slot and restarts.                            *)
RollbackApi(t) ==
    /\ pc[t] = "invalidate"
    /\ RollbackPossible
    /\ Boot(running, [imageState EXCEPT ![running] = "invalid"])
    /\ RestartHealth
    /\ record' \in RecordAfterReset

RollbackRestart(t) ==
    /\ pc[t] = "restart"
    /\ Boot(selected, imageState)
    /\ RestartHealth
    /\ record' \in RecordAfterReset

(***************************************************************************)
(* The main task.                                                          *)
(***************************************************************************)

MarkerTrusted == record.magic /\ record.payload \in Reasons

RecordValid == record.magic /\ record.payload \in Reasons /\ record.sum = record.payload

(* What the boot reports of the last rollback, until the record is cleared.*)
ObservedReason == IF RecordValid THEN record.payload ELSE NoReason

(* otaBootHealthArmEarly up to its poll.  The query may fail.              *)
ArmEarly ==
    /\ stage = "arm" /\ pc["main"] = "idle"
    /\ record' = ClearedRecord
    /\ \E query \in {IF imageState[running] = "pending" THEN "pending" ELSE "nonPending", "unknown"},
          layoutValid \in BOOLEAN :
          supervisor' =
             CASE query = "unknown" -> [Unarmed EXCEPT !.phase = "queryUnknown"]
               [] query = "nonPending" -> Unarmed
               [] query = "pending" /\ layoutValid -> [Unarmed EXCEPT !.phase = "monitoring"]
               [] OTHER -> [Unarmed EXCEPT !.phase = "rollback", !.reason = "layout"]
    /\ stage' = "spawn"
    /\ lastCause' = NoReason
    /\ CallPoll("main", supervisor')
    /\ UNCHANGED <<flashVars, clock, apiFailed>>

(* The end of ArmEarly: the watchdog is created, or its absence is fatal.  *)
SpawnWatchdog ==
    /\ stage = "spawn" /\ pc["main"] = "idle"
    /\ stage' = "buttons"
    /\ \/ /\ supervisor.phase # "monitoring"
          /\ UNCHANGED <<supervisor, pc, now>>
       \/ /\ supervisor.phase = "monitoring"
          /\ pc' = [pc EXCEPT !["watchdog"] = "idle"]
          /\ UNCHANGED <<supervisor, now>>
       \/ /\ supervisor.phase = "monitoring"
          /\ supervisor' = FailedWith(supervisor, "supervisor")
          /\ CallPoll("main", supervisor')
    /\ UNCHANGED <<flashVars, clock, apiFailed, record, lastCause>>

(* One probe of setup() and the poll that follows it.  BLE advertising     *)
(* starts asynchronously: it may be neither up nor failed yet.             *)
Probe(bit, next) ==
    /\ stage = bit /\ pc["main"] = "idle"
    /\ stage' = next
    /\ \/ supervisor' = Signalled(supervisor, bit)
       \/ supervisor' = FailedWith(supervisor, "probe")
       \/ bit = "ble" /\ UNCHANGED supervisor
    /\ CallPoll("main", supervisor')
    /\ UNCHANGED <<flashVars, clock, apiFailed, record, lastCause>>

Setup ==
    \/ Probe("buttons", "ble")
    \/ Probe("ble", "display")
    \/ Probe("display", "storage")
    \/ Probe("storage", "booted")

(* The polls that end setup() and begin loop().                            *)
PollOnly(from, to) ==
    /\ stage = from /\ pc["main"] = "idle"
    /\ stage' = to
    /\ CallPoll("main", supervisor)
    /\ UNCHANGED <<flashVars, supervisor, clock, apiFailed, record, lastCause>>

(* loop() looks at BLE again; only a failure is polled for at once.        *)
ObserveBle ==
    /\ stage = "observe" /\ pc["main"] = "idle"
    /\ stage' = "body"
    /\ \/ supervisor' = Signalled(supervisor, "ble") /\ UNCHANGED <<pc, now>>
       \/ supervisor' = FailedWith(supervisor, "probe") /\ CallPoll("main", supervisor')
       \/ UNCHANGED <<supervisor, pc, now>>
    /\ UNCHANGED <<flashVars, clock, apiFailed, record, lastCause>>

(* The last safe point of an iteration.                                    *)
EventLoopReady ==
    /\ stage = "tail" /\ pc["main"] = "idle"
    /\ stage' = "loop"
    /\ supervisor' = Signalled(supervisor, "eventLoop")
    /\ CallPoll("main", supervisor')
    /\ UNCHANGED <<flashVars, clock, apiFailed, record, lastCause>>

(***************************************************************************)
(* The watchdog task, and the passing of time.                             *)
(***************************************************************************)

WatchdogWakes ==
    /\ pc["watchdog"] = "idle"
    /\ \/ /\ supervisor.phase # "monitoring"
          /\ pc' = [pc EXCEPT !["watchdog"] = "ended"]
          /\ UNCHANGED now
       \/ /\ supervisor.phase = "monitoring"
          /\ clock >= Timeout
          /\ CallPoll("watchdog", supervisor)
    /\ UNCHANGED <<flashVars, supervisor, clock, stage, apiFailed, record, lastCause>>

Tick ==
    /\ supervisor.phase = "monitoring"
    /\ clock <= Timeout
    /\ clock' = clock + 1
    /\ UNCHANGED <<flashVars, supervisor, stage, pc, now, apiFailed, record, lastCause>>

Supervise(t) ==
    \/ ClaimAction(t) \/ MarkValid(t) \/ MarkValidResult(t)
    \/ EraseMarker(t) \/ WritePayload(t) \/ WriteChecksum(t) \/ WriteMarker(t)
    \/ RollbackApiReturns(t)

(* The parts of setup() and loop() that belong to the supervisor.          *)
Begin == ArmEarly \/ SpawnWatchdog
Loop == PollOnly("booted", "loop") \/ PollOnly("loop", "observe") \/ ObserveBle \/ EventLoopReady

=============================================================================
