------------------------------ MODULE MCServices ------------------------------
(***************************************************************************)
(* Small instances of what the device does with others until it is done:   *)
(* its Wi-Fi and the setup portal, the push of an update as the host sees  *)
(* it, the transfer of a character, the hint that scrolls by, the chime    *)
(* with the agent that counts the turns.  As in MCDeviceParts a behaviour  *)
(* moves one part, its scope; the fairness is that of the parts, for the   *)
(* one that moves.                                                         *)
(***************************************************************************)
EXTENDS WifiManager, WifiPortal, OtaPush, CharacterTransfer, ApprovalText, CompletionChime

CONSTANTS n1, n2, pa, pb, s1, s2

VARIABLE scope

serviceVars == <<scope, wifiVars, portalVars, pushVars, transferVars, textVars, chimeVars>>

Scopes == {"wifi", "portal", "push", "transfer", "text", "chime"}

(* Of two packs one has a file of four chunks. *)
TwoSizes == (pa :> [f \in Files |-> IF f = "two" THEN 4 ELSE 1]) @@ (pb :> [f \in Files |-> 1])

(* A screen whose cells run out first, and one whose bytes do.             *)
SomeSizes == {[width |-> 3, bytes |-> 8, rows |-> 3, visible |-> 1],
              [width |-> 4, bytes |-> 6, rows |-> 4, visible |-> 2]}

(* The parts that may start in several ways start in one outside of their scope. *)
AtRest ==
  /\ scope = "wifi" \/ phase = "unprovisioned"
  /\ scope = "text" \/ (hint = <<>> /\ size.rows = 3)

ServicesInit ==
  /\ scope \in Scopes
  /\ WifiInit /\ PortalInit /\ PushInit /\ TransferInit /\ TextInit /\ ChimeInit
  /\ AtRest

(* The parts that do not move stay as they are. *)
OthersRest ==
  /\ UNCHANGED scope
  /\ scope = "wifi" \/ UNCHANGED wifiVars
  /\ scope = "portal" \/ UNCHANGED portalVars
  /\ scope = "push" \/ UNCHANGED pushVars
  /\ scope = "transfer" \/ UNCHANGED transferVars
  /\ scope = "text" \/ UNCHANGED textVars
  /\ scope = "chime" \/ UNCHANGED chimeVars

ServicesNext ==
  /\ \/ scope = "wifi" /\ WifiNext
     \/ scope = "portal" /\ PortalNext
     \/ scope = "push" /\ PushNext
     \/ scope = "transfer" /\ TransferNext
     \/ scope = "text" /\ TextNext
     \/ scope = "chime" /\ ChimeNext
  /\ OthersRest

(* The fairness of WifiManager, WifiPortal, OtaPush, CharacterTransfer and *)
(* ApprovalText.                                                           *)
ServicesFairness ==
  /\ WF_wifiVars(scope = "wifi" /\ (Poll \/ WriteStep))
  /\ WF_wifiVars(scope = "wifi" /\ timer = "running" /\ Elapse /\ timer' = "due")
  /\ WF_wifiVars(scope = "wifi" /\ setup = "running" /\ Elapse /\ setup' = "due")
  /\ SF_wifiVars(scope = "wifi" /\ Join)
  /\ WF_portalVars(scope = "portal" /\ (AnswerRequest \/ AnswerRejected \/ EndPoll))
  /\ WF_portalVars(scope = "portal" /\ PortalTick)
  /\ WF_pushVars(scope = "push" /\ DeviceReads)
  /\ WF_pushVars(scope = "push" /\ SendOffer)
  /\ WF_pushVars(scope = "push" /\ Timeout)
  /\ WF_transferVars(scope = "transfer" /\ Serve)
  /\ WF_textVars(scope = "text" /\ TextNext)

ServicesSpec == ServicesInit /\ [][ServicesNext]_serviceVars /\ ServicesFairness

--------------------------------------------------------------------------------
(* Every variable has values of its kind.                                  *)
ServicesTypeOK ==
  /\ scope = "wifi" => WifiTypeOK
  /\ scope = "push" => PushTypeOK
  /\ scope = "transfer" => TransferTypeOK
  /\ scope = "text" => TextTypeOK
  /\ scope = "chime" => ChimeTypeOK

(* What an approver reads of a command: every row is a piece of it, nothing *)
(* is left out but its end, and no word is broken without need.            *)
HintIsTold == [](scope = "text" => RowsTellTheHint) /\ BreaksAreForced

(* What the chime says: ChimesAreEarned and CountedTurnsRing.              *)
ChimeIsTrue == ChimesAreEarned /\ CountedTurnsRing

(* What begins ends: PortalCloses, ClientLeaves, PushEnds, TransferEnds.   *)
(* What is left in peace gets there: GetsOnline and EveryRowIsSeen.        *)
UnderWay ==
  \/ portal \/ client
  \/ host.at \notin {"idle", "ended"} \/ installer.step # "idle"
LeftInPeace ==
  \/ scope = "wifi" /\ ~prompt /\ ~portal /\ provisioned /\ air
  \/ scope = "text"
GotThere ==
  \/ scope = "wifi" /\ phase = "online"
  \/ scope = "text" /\ done /\ shownRows = 1..HintRows
WhatBeginsEnds ==
  /\ UnderWay ~> ~UnderWay
  /\ <>[]LeftInPeace => <>[]GotThere
================================================================================
