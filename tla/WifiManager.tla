---------------------------- MODULE WifiManager ----------------------------
(***************************************************************************)
(* The Wi-Fi manager (wifi_manager.cpp, wifi_state_logic.h): it connects   *)
(* with the saved credentials, retries, opens the setup portal and saves   *)
(* what a form of the portal connected with.  One poll is one step of the  *)
(* main loop, except that a commit of credentials is one step a write.     *)
(* Deadlines elapse at any time; the radio joins and loses networks on its *)
(* own, and WiFi.begin leaves the network it was on at once.               *)
(***************************************************************************)
EXTENDS WifiCredentials

CONSTANTS
  FormNetworks,  \* networks entered in the portal; the others were saved before
  MaxUpsets      \* restarts and hotspots that do not start, in a behaviour

ASSUME FormAssumption == FormNetworks \subseteq Networks /\ MaxUpsets \in Nat

VARIABLES
  phase,        \* runtime.phase
  provisioned,  \* runtime.provisioned
  timer,        \* the deadline of the attempt or of the retry, by phase
  portal,       \* portalActive
  setup,        \* runtime.provisioningDeadlineMs
  pending,      \* the form's network while it is being tried
  page,         \* whether a page with the form's current nonce was served
  reused,       \* history: the current nonce was accepted once
  replayed,     \* history: a nonce was accepted twice
  mode, trying, joined,  \* WiFi.mode, the target of WiFi.begin, WiFi.status
  air,          \* whether networks are in reach and let the device in
  proven,       \* history: networks the device was on
  prompt,       \* an approval is on the screen
  upsets        \* restarts and failed hotspots so far

radioVars == <<mode, trying, joined>>
formVars == <<page, reused, replayed>>
worldVars == <<air, prompt, upsets>>
managerVars == <<phase, provisioned, timer, portal, setup, pending>>
wifiVars == <<credentialVars, managerVars, formVars, radioVars, worldVars, proven>>

Phases == {"unprovisioned", "provisioning", "connecting", "online", "error"}
InPoll == writing = "idle"

(***************************************************************************)
(* The parts the operations are made of.                                   *)
(***************************************************************************)

(* What beginSavedConnection can load; an active slot or the old keys,     *)
(* whichever the credentials in use came from.                             *)
SavedLoads ==
  Provisions(LoadedValue(store)) /\ (LoadedValue(store).slot = "legacy" <=> current.slot = "legacy")

Off == mode' = "off" /\ trying' = NoNetwork /\ joined' = NoNetwork
Unprovision == phase' = "unprovisioned" /\ provisioned' = FALSE /\ timer' = "off" /\ Off
Try(n) == phase' = "connecting" /\ timer' = "running" /\ trying' = n /\ joined' = NoNetwork

BeginSavedConnection ==
  \/ SavedLoads /\ Try(LoadedValue(store).ssid) /\ mode' = "sta" /\ UNCHANGED provisioned
  \/ ~SavedLoads /\ Unprovision

(* wifiConnectFailed; the delay only says when the retry timer elapses. *)
ConnectFailed == phase' = "error" /\ timer' = "running" /\ UNCHANGED provisioned

CleanupTransport ==
  portal' = FALSE /\ setup' = "off" /\ pending' = NoNetwork /\ page' = FALSE /\ reused' = FALSE

(* Back to the saved network, if there is one. *)
ReturnToSaved == IF provisioned THEN BeginSavedConnection ELSE Unprovision

FreshNonce == page' = FALSE /\ reused' = FALSE

(***************************************************************************)
(* Operations of the user: the Wi-Fi screen, the factory reset.            *)
(***************************************************************************)

StartProvisioning ==
  /\ InPoll /\ ~portal
  /\ \/ /\ phase' = "provisioning" /\ timer' = "off" /\ setup' = "running" /\ portal' = TRUE
        /\ mode' = "apsta" /\ trying' = NoNetwork /\ joined' = NoNetwork
        /\ FreshNonce
        /\ UNCHANGED <<provisioned, pending, upsets>>
     \/ /\ upsets < MaxUpsets /\ upsets' = upsets + 1    \* WiFi.softAP failed
        /\ CleanupTransport /\ ReturnToSaved
  /\ UNCHANGED <<credentialVars, replayed, air, prompt, proven>>

CancelProvisioning ==
  /\ CleanupTransport /\ ReturnToSaved
  /\ UNCHANGED <<credentialVars, replayed, worldVars, proven>>

UserCancels == InPoll /\ portal /\ CancelProvisioning

Forget ==
  /\ ForgetCredentials
  /\ CleanupTransport /\ Unprovision
  /\ UNCHANGED <<replayed, worldVars, proven>>

(***************************************************************************)
(* wifiManagerPoll.  A portal whose time is up is closed before anything   *)
(* else; then the first branch that applies is taken.                      *)
(***************************************************************************)

\* For comparison: the portal's deadline waits for an attempt to end.
SetupOverAtRest == portal /\ setup = "due" /\ phase # "connecting"
SetupOver == portal /\ setup = "due"
Connects == phase = "connecting" /\ joined # NoNetwork
Paused == prompt /\ ~portal /\ provisioned /\ phase = "connecting"
Polling == InPoll /\ ~SetupOver

PollSetupOver == InPoll /\ SetupOver /\ CancelProvisioning

(* handlePortalComplete: the page carries the nonce of the moment; a form  *)
(* with that nonce is tried even while an earlier one is.  The rest of the *)
(* poll finds an attempt that has just begun.                              *)
PageServed ==
  /\ Polling /\ portal /\ page' = TRUE
  /\ UNCHANGED <<credentialVars, managerVars, reused, replayed, radioVars, worldVars, proven>>

FormPosted(n) ==
  /\ Polling /\ portal /\ page
  /\ pending' = n /\ Try(n)
  /\ replayed' = (replayed \/ reused)
  /\ FreshNonce
  /\ UNCHANGED <<credentialVars, provisioned, portal, setup, mode, worldVars, proven>>

PollPaused ==
  /\ Polling /\ Paused
  /\ ConnectFailed
  /\ trying' = NoNetwork /\ joined' = NoNetwork
  /\ UNCHANGED <<credentialVars, portal, setup, pending, formVars, mode, worldVars, proven>>

ConnectSucceeded ==
  /\ phase' = "online" /\ provisioned' = TRUE /\ timer' = "off"
  /\ CleanupTransport
  /\ mode' = "sta" /\ UNCHANGED <<trying, joined>>

PollConnected ==
  /\ Polling /\ ~Paused /\ Connects
  /\ IF pending # NoNetwork
     THEN BeginCommit(pending) /\ UNCHANGED <<managerVars, formVars, radioVars>>
     ELSE ConnectSucceeded /\ UNCHANGED <<credentialVars, replayed>>
  /\ UNCHANGED <<worldVars, proven>>

(* persistPendingCredentials, write by write, and what the poll makes of it. *)
WriteStep == (WriteTakes \/ WriteFails)
                 /\ UNCHANGED <<managerVars, formVars, radioVars, worldVars, proven>>

PollCommitted ==
  /\ EndCommit
  /\ IF writing = "saved"
     THEN ConnectSucceeded
     ELSE ConnectFailed /\ pending' = NoNetwork
          /\ UNCHANGED <<portal, setup, page, reused, radioVars>>
  /\ UNCHANGED <<replayed, worldVars, proven>>

PollAttemptOver ==
  /\ Polling /\ ~Paused /\ ~Connects /\ phase = "connecting" /\ timer = "due"
  /\ ConnectFailed
  /\ trying' = NoNetwork /\ joined' = NoNetwork /\ pending' = NoNetwork
  /\ UNCHANGED <<credentialVars, portal, setup, formVars, mode, worldVars, proven>>

PollRetries ==
  /\ Polling /\ ~portal /\ ~prompt /\ provisioned /\ phase = "error" /\ timer = "due"
  /\ BeginSavedConnection
  /\ UNCHANGED <<credentialVars, portal, setup, pending, formVars, worldVars, proven>>

PollLost ==
  /\ Polling /\ phase = "online" /\ joined = NoNetwork
  /\ ConnectFailed
  /\ UNCHANGED <<credentialVars, portal, setup, pending, formVars, radioVars, worldVars, proven>>

(***************************************************************************)
(* The rest of the world.                                                  *)
(***************************************************************************)

Elapse ==
  /\ \/ timer = "running" /\ timer' = "due" /\ UNCHANGED setup
     \/ setup = "running" /\ setup' = "due" /\ UNCHANGED timer
  /\ UNCHANGED <<credentialVars, phase, provisioned, portal, pending,
                 formVars, radioVars, worldVars, proven>>

Join ==
  /\ air /\ trying # NoNetwork /\ joined = NoNetwork
  /\ joined' = trying /\ proven' = proven \cup {trying}
  /\ UNCHANGED <<credentialVars, managerVars, formVars, mode, trying, worldVars>>

Lose ==
  /\ joined # NoNetwork /\ ~air
  /\ joined' = NoNetwork
  /\ UNCHANGED <<credentialVars, managerVars, formVars, mode, trying, worldVars, proven>>

WorldChanges ==
  /\ \/ air' = ~air /\ UNCHANGED prompt
     \/ prompt' = ~prompt /\ UNCHANGED air
  /\ UNCHANGED <<credentialVars, managerVars, formVars, radioVars, upsets, proven>>

(* A restart: wifiManagerBegin. *)
Restart ==
  /\ upsets < MaxUpsets /\ upsets' = upsets + 1
  /\ ReloadCredentials
  /\ portal' = FALSE /\ setup' = "off" /\ pending' = NoNetwork /\ FreshNonce
  /\ provisioned' = Provisions(current')
  /\ IF Provisions(current')
     THEN Try(current'.ssid) /\ mode' = "sta"
     ELSE phase' = "unprovisioned" /\ timer' = "off" /\ Off
  /\ UNCHANGED <<replayed, air, prompt, proven>>

WifiInit ==
  /\ CredentialsInit /\ current.ssid \notin FormNetworks
  /\ portal = FALSE /\ setup = "off" /\ pending = NoNetwork
  /\ page = FALSE /\ reused = FALSE /\ replayed = FALSE
  /\ provisioned = Provisions(current)
  /\ phase = IF provisioned THEN "connecting" ELSE "unprovisioned"
  /\ timer = IF provisioned THEN "running" ELSE "off"
  /\ mode = IF provisioned THEN "sta" ELSE "off"
  /\ trying = current.ssid /\ joined = NoNetwork
  /\ air = TRUE /\ prompt = FALSE /\ upsets = 0
  /\ proven = {current.ssid} \cap Networks

Poll ==
  \/ PollSetupOver \/ PollPaused \/ PollConnected \/ PollCommitted
  \/ PollAttemptOver \/ PollRetries \/ PollLost

WifiNext ==
  \/ StartProvisioning \/ UserCancels \/ Forget
  \/ PageServed \/ \E n \in FormNetworks : FormPosted(n)
  \/ Poll \/ WriteStep
  \/ Elapse \/ Join \/ Lose \/ WorldChanges \/ Restart

(* The main loop polls for ever and every flash write returns; timers      *)
(* elapse; a radio that could join again and again joins at last.          *)
WifiFairness ==
  /\ WF_wifiVars(Poll \/ WriteStep)
  /\ WF_wifiVars(timer = "running" /\ Elapse /\ timer' = "due")
  /\ WF_wifiVars(setup = "running" /\ Elapse /\ setup' = "due")
  /\ SF_wifiVars(Join)

WifiSpec == WifiInit /\ [][WifiNext]_wifiVars
FairWifiSpec == WifiSpec /\ WifiFairness

WifiTypeOK ==
  /\ CredentialsTypeOK
  /\ phase \in Phases /\ provisioned \in BOOLEAN /\ portal \in BOOLEAN
  /\ timer \in {"off", "running", "due"} /\ setup \in {"off", "running", "due"}
  /\ pending \in Networks \cup {NoNetwork}
  /\ {page, reused, replayed, prompt} \subseteq BOOLEAN
  /\ mode \in {"off", "sta", "apsta"}
  /\ {trying, joined} \subseteq Networks \cup {NoNetwork}
  /\ air \in BOOLEAN /\ proven \subseteq Networks /\ upsets \in 0..MaxUpsets

(* Every network that can be loaded from flash is one the device was on    *)
(* with these credentials: a form is saved only once it connected, whatever *)
(* is posted, cancelled or cut off meanwhile (wifiManagerPoll).            *)
SavedOnlyIfProven == Provisions(LoadedValue(store)) => LoadedValue(store).ssid \in proven

(* The manager is never stuck: a failed attempt is retried or the portal   *)
(* is open for another form, an attempt has its deadline, and a device     *)
(* without credentials has its radio off (wifiProvisioningCancel,          *)
(* beginSavedConnection, wifiManagerPoll).                                 *)
AlwaysAWayOn ==
  /\ phase = "error" => timer # "off" /\ (provisioned \/ portal)
  /\ phase = "connecting" /\ InPoll => timer # "off" /\ trying # NoNetwork
  /\ phase = "unprovisioned" => mode = "off" /\ ~portal /\ ~provisioned
  /\ portal <=> setup # "off"
  /\ pending # NoNetwork => portal /\ phase = "connecting"

(* A form is accepted once: its nonce is gone before the answer is sent.   *)
FormAcceptedOnce == ~replayed

(* The radio's promises: one way on, nothing saved that did not connect.   *)
WifiKeepsItsWord ==
  /\ CredentialsSurvive /\ FlashAgrees
  /\ SavedOnlyIfProven /\ AlwaysAWayOn /\ FormAcceptedOnce

(* The setup portal closes by itself within its ten minutes, even when     *)
(* forms keep coming, attempts fail or saving fails (wifiProvisioningTimedOut). *)
PortalCloses == portal ~> ~portal

(* Once the saved network is within reach for good, no approval is shown   *)
(* and nobody opens the portal, the device gets online and stays so.       *)
GetsOnline ==
  <>[](~prompt /\ ~portal /\ provisioned /\ air) => <>[](phase = "online")
=============================================================================
