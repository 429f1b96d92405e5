-------------------------- MODULE WifiCredentials --------------------------
(***************************************************************************)
(* The Wi-Fi credentials in flash (wifi_credentials_logic.h): two slots, a *)
(* marker naming the active one, and the two keys of older firmware.  New  *)
(* credentials go to the inactive slot, one key after the other, and are   *)
(* switched to by the write of the marker.  Every write may fail and the   *)
(* power may be cut between two of them.  A network stands for its SSID,   *)
(* its password and the generation written with them: a slot is whole when *)
(* its three fields hold the same network.                                 *)
(***************************************************************************)
EXTENDS Naturals

CONSTANTS
  Networks,   \* networks the user may enter
  NoNetwork,  \* no value under a key
  MaxFaults   \* failed writes and power cuts one commit may meet

ASSUME WifiAssumption ==
  /\ NoNetwork \notin Networks
  /\ Networks \cap {"yes", "no", "s0", "s1", "none"} = {}
  /\ NoNetwork \notin {"yes", "no", "s0", "s1", "none"}
  /\ MaxFaults \in Nat

VARIABLES
  store,      \* the value under each key
  writing,    \* the write the commit in progress makes next
  current,    \* activeCredentials of the manager: its slot and network
  candidate,  \* the network being committed
  faults      \* failed writes of the commit in progress

credentialVars == <<store, writing, current, candidate, faults>>

Slots == {"s0", "s1"}
SlotFields == {"valid", "ssid", "pass", "gen"}
Active == <<"any", "active">>
Migrated == <<"any", "migrated">>
LegacySsid == <<"any", "ssid">>
LegacyPassword == <<"any", "password">>
Keys == (Slots \X SlotFields) \cup {Active, Migrated, LegacySsid, LegacyPassword}

(* Nothing stored, a network in slot s0, or one in the keys of old firmware. *)
EmptyStore == [k \in Keys |-> NoNetwork]
SlotStore(n) ==
  [k \in Keys |->
     CASE k \in {<<"s0", "ssid">>, <<"s0", "pass">>, <<"s0", "gen">>} -> n
       [] k \in {<<"s0", "valid">>, Migrated} -> "yes"
       [] k = Active -> "s0"
       [] OTHER -> NoNetwork]
LegacyStore(n) ==
  [k \in Keys |-> IF k \in {LegacySsid, LegacyPassword} THEN n ELSE NoNetwork]

NoCredentials == [slot |-> "none", ssid |-> NoNetwork, pass |-> NoNetwork]

(* wifiCredentialLoad *)
SlotLoads(st, s) ==
  /\ st[<<s, "valid">>] = "yes"
  /\ \A f \in {"ssid", "pass", "gen"} : st[<<s, f>>] # NoNetwork

(* wifiCredentialMayUseLegacy *)
MayUseLegacy(st) == st[Migrated] # "yes"

(* What wifiManagerBegin and beginSavedConnection find. *)
LoadedValue(st) ==
  IF st[Active] \in Slots /\ SlotLoads(st, st[Active])
  THEN [slot |-> st[Active], ssid |-> st[<<st[Active], "ssid">>], pass |-> st[<<st[Active], "pass">>]]
  ELSE IF MayUseLegacy(st) /\ st[LegacySsid] # NoNetwork /\ st[LegacyPassword] # NoNetwork
  THEN [slot |-> "legacy", ssid |-> st[LegacySsid], pass |-> st[LegacyPassword]]
  ELSE NoCredentials

Provisions(c) == c.slot # "none"
WholeNetwork(c) == c.ssid = c.pass /\ c.ssid \in Networks

CredentialsInit ==
  /\ store \in {EmptyStore} \cup {SlotStore(n) : n \in Networks} \cup {LegacyStore(n) : n \in Networks}
  /\ writing = "idle"
  /\ current = LoadedValue(store)
  /\ candidate = NoNetwork
  /\ faults = 0

(***************************************************************************)
(* wifiCredentialCommit, one write a step.                                 *)
(***************************************************************************)

\* For comparison: the slot in use is written over.
SlotInUse == IF current.slot = "s1" THEN "s1" ELSE "s0"
TargetSlot == IF current.slot = "s0" THEN "s1" ELSE "s0"

CommitWrites == {"invalidate", "ssid", "pass", "gen", "validate", "activate", "migrate"}
RollbackWrites == {"rollbackValid", "rollbackActive", "rollbackMigrated"}
CleanupWrites == {"dropSsid", "dropPassword"}
Writes == CommitWrites \cup RollbackWrites \cup CleanupWrites

Successor(w) ==
  CASE w = "invalidate" -> "ssid"     [] w = "ssid" -> "pass"
    [] w = "pass" -> "gen"            [] w = "gen" -> "validate"
    [] w = "validate" -> "activate"   [] w = "activate" -> "migrate"
    [] w = "migrate" -> "dropSsid"    [] w = "dropSsid" -> "dropPassword"
    [] w = "dropPassword" -> "saved"
    [] w = "rollbackValid" -> "rollbackActive"
    [] w = "rollbackActive" -> "rollbackMigrated"
    [] w = "rollbackMigrated" -> "failed"

(* The key and the value of a write; wifiCredentialRollback returns the    *)
(* markers to the slot that was active, if one was.                        *)
KeyOf(w) ==
  CASE w \in {"invalidate", "validate", "rollbackValid"} -> <<TargetSlot, "valid">>
    [] w \in {"ssid", "pass", "gen"} -> <<TargetSlot, w>>
    [] w \in {"activate", "rollbackActive"} -> Active
    [] w \in {"migrate", "rollbackMigrated"} -> Migrated
    [] w = "dropSsid" -> LegacySsid
    [] w = "dropPassword" -> LegacyPassword

ValueOf(w) ==
  CASE w \in {"invalidate", "rollbackValid"} -> "no"
    [] w \in {"ssid", "pass", "gen"} -> candidate
    [] w \in {"validate", "migrate"} -> "yes"
    [] w = "activate" -> TargetSlot
    [] w = "rollbackActive" -> IF current.slot \in Slots THEN current.slot ELSE "none"
    [] w = "rollbackMigrated" -> IF current.slot \in Slots THEN "yes" ELSE "no"
    [] w \in CleanupWrites -> NoNetwork

Written == [store EXCEPT ![KeyOf(writing)] = ValueOf(writing)]

BeginCommit(n) ==
  /\ writing = "idle"
  /\ writing' = "invalidate"
  /\ candidate' = n
  /\ faults' = 0
  /\ UNCHANGED <<store, current>>

WriteTakes ==
  /\ writing \in Writes
  /\ store' = Written
  /\ writing' = Successor(writing)
  /\ UNCHANGED <<current, candidate, faults>>

(* A write fails, or it takes and its read-back does not: the commit rolls *)
(* back.  The writes of the rollback and of the clean-up are not looked at. *)
WriteFails ==
  /\ writing \in Writes
  /\ faults < MaxFaults
  /\ faults' = faults + 1
  /\ store' \in (IF writing \in CommitWrites THEN {store, Written} ELSE {store})
  /\ writing' = IF writing \in CommitWrites THEN "rollbackValid" ELSE Successor(writing)
  /\ UNCHANGED <<current, candidate>>

(* persistPendingCredentials takes over what was committed. *)
EndCommit ==
  /\ writing \in {"saved", "failed"}
  /\ current' = IF writing = "saved"
                THEN [slot |-> TargetSlot, ssid |-> candidate, pass |-> candidate]
                ELSE current
  /\ writing' = "idle"
  /\ candidate' = NoNetwork
  /\ faults' = 0
  /\ UNCHANGED store

(* wifiManagerForget; a store that does not open keeps what it holds. *)
ForgetCredentials ==
  /\ writing = "idle"
  /\ store' = EmptyStore
  /\ current' = NoCredentials
  /\ UNCHANGED <<writing, candidate, faults>>

(* A restart: wifiManagerBegin loads what the flash holds.  In the middle  *)
(* of a commit it is one of the faults the commit may meet.                *)
PowerMayBeCut == writing = "idle" \/ faults < MaxFaults

ReloadCredentials ==
  /\ PowerMayBeCut
  /\ current' = LoadedValue(store)
  /\ writing' = "idle"
  /\ candidate' = NoNetwork
  /\ faults' = 0
  /\ UNCHANGED store

CredentialsNext ==
  \/ \E n \in Networks : BeginCommit(n)
  \/ WriteTakes \/ WriteFails \/ EndCommit
  \/ ForgetCredentials \/ ReloadCredentials

CredentialsSpec == CredentialsInit /\ [][CredentialsNext]_credentialVars

CredentialsTypeOK ==
  /\ store \in [Keys -> Networks \cup {NoNetwork, "yes", "no", "none"} \cup Slots]
  /\ writing \in Writes \cup {"idle", "saved", "failed"}
  /\ current \in [slot : Slots \cup {"legacy", "none"},
                  ssid : Networks \cup {NoNetwork}, pass : Networks \cup {NoNetwork}]
  /\ candidate \in Networks \cup {NoNetwork}
  /\ faults \in 0..MaxFaults

(* Whenever the power is cut, the next start finds the credentials that    *)
(* were in use or, whole, those being committed: never the SSID of one     *)
(* network with the password of another, and never nothing in place of     *)
(* something (wifiCredentialCommit, wifiCredentialRollback).               *)
CredentialsSurvive ==
  PowerMayBeCut =>
    /\ Provisions(LoadedValue(store)) => WholeNetwork(LoadedValue(store))
    /\ Provisions(current) => LoadedValue(store).ssid \in {current.ssid, candidate} \ {NoNetwork}

(* A commit that reported a failure left the credentials in use as they    *)
(* were: the manager's copy and the flash agree whenever no commit runs.   *)
FlashAgrees == writing \in {"idle", "failed"} => LoadedValue(store) = current
=============================================================================
