------------------------------- MODULE OtaPush -------------------------------
(***************************************************************************)
(* A firmware push over the link: the coordinator of the agent              *)
(* (ota_coordination.py) probes the device, offers an image, follows its    *)
(* status and may cancel; the device takes the offer in (data.h), binds its *)
(* status to it (ota_status.cpp) and updates itself.                        *)
(*                                                                         *)
(* The update is the abstract one: its phases as the status tells them      *)
(* apart, each of which may fail, and the boot of the new image, which is   *)
(* confirmed or rolled back; module OtaDevice has the detail.  Sessions are *)
(* numbered, and session n offers version n; the device starts with version *)
(* 0.  Every offer is signed: a device of this version takes no other from  *)
(* this coordinator.  Progress within a phase is left out, and so is the    *)
(* helper process dying (the coordinator then waits for the link again).    *)
(***************************************************************************)
EXTENDS Naturals, Sequences

CONSTANTS
  LastSession,   \* bound on the pushes
  Offers,        \* how often the coordinator sends an offer: 3
  Depth,         \* bound on the messages under way in each direction
  MaxLosses,     \* bound on the losses of the link
  Direct         \* the settings of the device install without asking

ASSUMPTION PushAssumption ==
  /\ {LastSession, MaxLosses} \subseteq Nat /\ {Offers, Depth} \subseteq Nat \ {0}
  /\ Direct \in BOOLEAN

Sessions == 1..LastSession
None == 0
Accepted == {"accepted", "authenticated", "download", "readback", "boot-committed",
             "boot-health"}
Irreversible == {"boot-committed", "boot-health"}
Refusals == {"rejected", "cancelled", "error"}

VARIABLES
  host,      \* the coordinator: where it is in run(), the session, offers sent
  cancel,    \* its cancel_event, cancel_sent and a caller of cancel() waiting
  told,      \* the sessions whose cancel() returned True
  down, up,  \* the messages under way to the device and from it
  boot,      \* the version that runs, its health, the one it would return to
  offer,     \* the pending offer (TamaState.otaOffer)
  seen,      \* the sessions the replay slots remember
  bound,     \* activeGeneration and the status sent last (OtaStatusCadence)
  update,    \* the phase, the session it installs, a cancel asked for
  losses

pushVars == <<host, cancel, told, down, up, boot, offer, seen, bound, update, losses>>
hostVars == <<host, cancel, told>>
deviceVars == <<boot, offer, seen, bound, update>>

NoUpdate == [phase |-> "idle", of |-> None, cancel |-> FALSE]
Unbound == [to |-> None, last |-> "none"]
QuietHost == [at |-> "idle", s |-> None, offers |-> 0, accepted |-> FALSE,
              irreversible |-> FALSE, end |-> "none"]

PushInit ==
  /\ host = QuietHost /\ cancel = "none" /\ told = {}
  /\ down = <<>> /\ up = <<>>
  /\ boot = [version |-> 0, health |-> "valid", back |-> 0]
  /\ offer = None /\ seen = {} /\ bound = Unbound /\ update = NoUpdate /\ losses = 0

(***************************************************************************)
(* The device.                                                             *)
(***************************************************************************)

Status(s, phase, applied) ==
  [s |-> s, phase |-> phase, version |-> boot.version, health |-> boot.health,
   applied |-> applied]
\* For comparison: notifications without a limit.
ToldAnyway(s, phase, applied) == up' = Append(up, Status(s, phase, applied))

\* A notification that finds no room is lost.
Told(s, phase, applied) ==
  up' = IF Len(up) < Depth THEN Append(up, Status(s, phase, applied)) ELSE up

\* otaStatusPoll: the bound session hears of every phase once.
Reported(b, phase) ==
  IF b.to = None \/ b.last = phase THEN bound' = b /\ UNCHANGED up
  ELSE bound' = [b EXCEPT !.last = phase] /\ Told(b.to, phase, FALSE)

Received(kind) == down # <<>> /\ Head(down).kind = kind /\ down' = Tail(down)
Asked == Head(down).s

\* otaStatusReplyRunning answers whoever asks, whatever the update is doing.
DeviceProbed ==
  /\ Received("probe")
  /\ Told(Asked, IF boot.health = "valid" THEN "running" ELSE "boot-health", FALSE)
  /\ UNCHANGED <<hostVars, deviceVars, losses>>

\* A signed offer: what the authorization rejects is not answered, what the
\* checks after it reject is; either way an offer that was pending is gone.
DeviceOffered ==
  /\ Received("offer")
  /\ \/ /\ offer' = None                          \* replayed, expired, clock unset...
        /\ UNCHANGED <<seen, bound, up>>
     \/ /\ Asked \notin seen /\ seen' = seen \cup {Asked}
        /\ \/ /\ offer' = None /\ Told(Asked, "rejected", FALSE)
              /\ UNCHANGED bound
           \/ /\ Asked > boot.version /\ offer' = Asked
              /\ bound' = [to |-> Asked, last |-> "offer-received"]
              /\ Told(Asked, "offer-received", FALSE)
  /\ UNCHANGED <<hostVars, boot, update, losses>>

Cancellable == update.phase \in {"confirm", "accepted", "authenticated", "download", "readback"}
\* What phaseForView makes of a machine that has not run since the boot.
PhaseShown == IF update.phase \in {"idle", "confirm"} THEN "await-confirm" ELSE update.phase

DeviceCancels ==
  /\ Received("cancel")
  /\ IF Asked # bound.to THEN UNCHANGED <<bound, update, up>>
     ELSE IF Cancellable /\ ~update.cancel
     THEN /\ update' = [update EXCEPT !.cancel = TRUE]
          /\ bound' = [bound EXCEPT !.last = "cancelled"]
          /\ IF bound.last = "cancelled" THEN UNCHANGED up ELSE Told(Asked, "cancelled", TRUE)
     ELSE /\ Told(Asked, PhaseShown, FALSE) /\ UNCHANGED <<bound, update>>
  /\ UNCHANGED <<hostVars, boot, offer, seen, losses>>

\* The offer's minute is over, a prompt comes, a transfer starts.
OfferLapses ==
  /\ offer # None /\ offer' = None
  /\ UNCHANGED <<hostVars, down, up, boot, seen, bound, update, losses>>

Moves(phase, of) ==
  /\ update' = [phase |-> phase, of |-> of, cancel |-> FALSE]
  /\ Reported(bound, phase)

\* Ask waits for A; Direct takes the offer in the same poll.
UpdateArms ==
  /\ update.phase = "idle" /\ offer # None
  /\ IF Direct THEN Moves("accepted", offer) /\ offer' = None
     ELSE /\ update' = [phase |-> "confirm", of |-> None, cancel |-> FALSE]
          /\ Reported(bound, "await-confirm")
          /\ UNCHANGED offer
  /\ UNCHANGED <<hostVars, down, boot, seen, losses>>

Confirmed ==
  /\ update.phase = "confirm" /\ ~update.cancel /\ offer # None
  /\ Moves("accepted", offer) /\ offer' = None
  /\ UNCHANGED <<hostVars, down, boot, seen, losses>>

\* A lost offer fails the confirmation; later every phase may fail, and B or a
\* conflict cancel it.  The end of an update drops the offer too.
Stops(phase) ==
  /\ \/ Cancellable /\ update.phase # "confirm"
     \/ update.phase = "confirm" /\ (offer = None \/ phase = "cancelled")
  /\ ~update.cancel /\ Moves(phase, update.of) /\ offer' = None
  /\ UNCHANGED <<hostVars, down, boot, seen, losses>>

\* The cancel the host asked for, in the next poll.  The progress falls back to
\* 0, so the status may be sent a second time.
CancelApplies ==
  /\ update.cancel
  /\ update' = [update EXCEPT !.phase = "cancelled", !.cancel = FALSE] /\ offer' = None
  /\ \/ UNCHANGED <<bound, up>>
     \/ bound' = [bound EXCEPT !.last = "cancelled"] /\ Told(bound.to, "cancelled", FALSE)
  /\ UNCHANGED <<hostVars, down, boot, seen, losses>>

NextPhase == [accepted |-> "authenticated", authenticated |-> "download",
              download |-> "readback", readback |-> "boot-committed"]
Advances ==
  /\ update.phase \in DOMAIN NextPhase /\ ~update.cancel
  /\ Moves(NextPhase[update.phase], update.of)
  /\ offer' = IF update'.phase = "boot-committed" THEN None ELSE offer
  /\ UNCHANGED <<hostVars, down, boot, seen, losses>>

TerminalOver ==
  /\ update.phase \in {"cancelled", "error"} /\ update' = [update EXCEPT !.phase = "idle"]
  /\ UNCHANGED <<hostVars, down, up, boot, offer, seen, bound, losses>>

\* A restart takes the link down and leaves nothing in RAM.
Restarted ==
  /\ offer' = None /\ seen' = {} /\ bound' = Unbound /\ update' = NoUpdate
  /\ down' = <<>> /\ up' = <<>> /\ UNCHANGED <<hostVars, losses>>
RestartsInto ==
  /\ update.phase = "boot-committed"
  /\ boot' = [version |-> update.of, health |-> "monitoring", back |-> boot.version]
  /\ Restarted
BootSettles ==
  /\ boot.health = "monitoring"
  /\ \/ /\ boot' = [boot EXCEPT !.health = "valid"]
        /\ UNCHANGED <<hostVars, down, up, offer, seen, bound, update, losses>>
     \/ /\ boot' = [boot EXCEPT !.health = "valid", !.version = boot.back]
        /\ Restarted

LinkLost ==
  /\ losses < MaxLosses /\ losses' = losses + 1
  /\ down' = <<>> /\ up' = <<>> /\ offer' = None
  /\ UNCHANGED <<hostVars, boot, seen, bound, update>>

(***************************************************************************)
(* The coordinator.                                                        *)
(***************************************************************************)

Sends(kind) == /\ Len(down) < Depth
               /\ down' = Append(down, [kind |-> kind, s |-> host.s])
Ends(how) == host' = [host EXCEPT !.at = "ended", !.end = how]

StartPush ==
  /\ host.at \in {"idle", "ended"} /\ host.s < LastSession /\ Len(down) < Depth
  /\ host' = [QuietHost EXCEPT !.at = "probing", !.s = host.s + 1]
  /\ cancel' = "none"
  /\ down' = Append(down, [kind |-> "probe", s |-> host.s + 1])
  /\ UNCHANGED <<told, up, deviceVars, losses>>

\* The first offer follows the answer to the probe, the others a timeout.
SendOffer ==
  /\ host.at = "offer" /\ Sends("offer")
  /\ host' = [host EXCEPT !.at = "offering", !.offers = @ + 1]
  /\ UNCHANGED <<cancel, told, up, deviceVars, losses>>

\* parse_ota_status drops what is not about this session.
Foreign ==
  /\ up # <<>> /\ (host.at \in {"idle", "ended"} \/ Head(up).s # host.s)
  /\ up' = Tail(up)
  /\ UNCHANGED <<hostVars, down, deviceVars, losses>>

\* _receive: the answer to a cancel first; a cancel that was not applied makes
\* the coordinator probe again instead.
Settled(m) == cancel = "sent" /\ (m.applied \/ m.phase \in {"boot-committed", "boot-health",
                                                            "running", "rejected", "error"})
CancelAfter(m) == IF Settled(m) THEN IF m.applied THEN "applied" ELSE "refused" ELSE cancel

\* For comparison: whatever version runs is a success.
SucceedsIfHealthy(m) == m.phase = "running" /\ m.health = "valid"
Succeeds(m) == m.phase = "running" /\ m.version = host.s /\ m.health = "valid"
Follows(m) ==
  host' = [host EXCEPT !.at = "waiting",
             !.accepted = @ \/ m.phase \in Accepted,
             !.irreversible = @ \/ m.phase \in Irreversible]

Probed(m) ==
  IF m.phase = "running" THEN host' = [host EXCEPT !.at = "offer"] ELSE Ends("error")
\* What runs is not what was offered: still, or again.
OldRunning ==
  CASE host.at = "waiting" /\ host.irreversible -> Ends("rollback")
    [] host.at = "waiting" /\ ~host.irreversible -> UNCHANGED host
    [] host.at # "waiting" /\ host.offers < Offers -> host' = [host EXCEPT !.at = "offer"]
    [] host.at # "waiting" /\ host.offers >= Offers -> Ends("timeout")
Answered(m) ==
  CASE m.phase \in Refusals -> Ends(m.phase)
    [] Succeeds(m) -> Ends("success")
    [] m.phase = "running" /\ ~Succeeds(m) -> OldRunning
    [] OTHER -> Follows(m)

TakeStatus ==
  /\ host.at \in {"probing", "offering", "waiting"} /\ up # <<>> /\ Head(up).s = host.s
  /\ LET m == Head(up) IN
     /\ cancel' = CancelAfter(m)
     /\ IF m.phase = "cancelled" /\ ~m.applied
        THEN Sends("probe") /\ UNCHANGED host
        ELSE UNCHANGED down /\ IF host.at = "probing" THEN Probed(m) ELSE Answered(m)
  /\ up' = Tail(up) /\ UNCHANGED <<told, deviceVars, losses>>

\* Once the boot slot is committed the coordinator asks again and again.
Reprobe ==
  /\ host.at = "waiting" /\ host.irreversible /\ down = <<>> /\ up = <<>> /\ Sends("probe")
  /\ UNCHANGED <<hostVars, up, deviceVars, losses>>

\* Two seconds without an answer to the offer; 15 s for the probe; 180 s for
\* A and 600 s for the installation, whatever else is under way.
Timeout ==
  /\ \/ host.at = "offering" /\ host.offers < Offers /\ host' = [host EXCEPT !.at = "offer"]
     \/ host.at = "offering" /\ host.offers >= Offers /\ Ends("timeout")
     \/ host.at \in {"probing", "waiting"} /\ Ends("timeout")
  /\ UNCHANGED <<cancel, told, down, up, deviceVars, losses>>

\* cancel() of a session that runs; the request goes out from _receive.
CancelCalled ==
  /\ host.at \in {"probing", "offer", "offering", "waiting"} /\ ~host.irreversible
  /\ cancel \in {"none", "refused"} /\ cancel' = "wanted"
  /\ UNCHANGED <<host, told, down, up, deviceVars, losses>>
SendCancel ==
  /\ cancel = "wanted" /\ host.at \in {"probing", "offering", "waiting"}
  /\ Sends("cancel") /\ cancel' = "sent"
  /\ UNCHANGED <<host, told, up, deviceVars, losses>>
\* It returns True once the cancel was applied and run() has ended with it.
CancelReturns ==
  /\ cancel = "applied" /\ host.at = "ended" /\ host.end = "cancelled"
  /\ told' = told \cup {host.s} /\ cancel' = "none"
  /\ UNCHANGED <<host, down, up, deviceVars, losses>>

UpdateMoves == UpdateArms \/ Stops("error") \/ Stops("cancelled") \/ CancelApplies
               \/ Advances \/ TerminalOver \/ RestartsInto \/ BootSettles
DeviceReads == DeviceProbed \/ DeviceOffered \/ DeviceCancels
HostMoves == SendOffer \/ Foreign \/ TakeStatus \/ Reprobe \/ SendCancel \/ CancelReturns

PushNext == \/ DeviceReads \/ UpdateMoves \/ OfferLapses \/ Confirmed \/ LinkLost
            \/ HostMoves \/ StartPush \/ Timeout \/ CancelCalled
PushSpec == PushInit /\ [][PushNext]_pushVars
FairPushSpec == PushSpec /\ WF_pushVars(DeviceReads) /\ WF_pushVars(SendOffer)
                         /\ WF_pushVars(Timeout)

(***************************************************************************)
(* Properties.                                                             *)
(***************************************************************************)

PushTypeOK ==
  /\ host.s \in 0..LastSession /\ host.offers \in 0..Offers
  /\ cancel \in {"none", "wanted", "sent", "applied", "refused"}
  /\ told \subseteq Sessions /\ Len(up) <= Depth /\ Len(down) <= Depth
  /\ boot.version \in 0..LastSession /\ offer \in 0..LastSession /\ seen \subseteq Sessions
  /\ update.of \in 0..LastSession /\ bound.to \in 0..LastSession

\* A push that ends in success is on the device: the version it offered runs
\* there and has been confirmed, so that no rollback can follow (until the next
\* push), whatever was lost, late or about another session.
SuccessIsTrue ==
  host.end = "success" => boot.version = host.s /\ boot.health = "valid"

\* A cancel the caller was told of is final: that session's image is not
\* installed afterwards ("honored only before the boot slot is committed").
CancelIsFinal ==
  \A s \in told :
    /\ boot.version # s
    /\ update.of = s => update.cancel \/ update.phase \notin (DOMAIN NextPhase \cup {"boot-committed"})
    /\ offer = s => update.cancel

\* What the host is told of an update is so.
PushIsTrue == SuccessIsTrue /\ CancelIsFinal

\* Every push ends, for the one who started it.
PushEnds == host.at \notin {"idle", "ended"} ~> host.at \in {"idle", "ended"}
================================================================================
