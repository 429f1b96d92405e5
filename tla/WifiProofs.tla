------------------------------ MODULE WifiProofs ------------------------------
(***************************************************************************)
(* Why the Wi-Fi credentials survive whatever a commit of new ones meets,  *)
(* for any networks and any behaviour of the radio and of the portal.      *)
(***************************************************************************)
EXTENDS WifiManager, TLAPS

--------------------------------------------------------------------------------
(* The inductive invariant of the store.                                   *)

SlotKinds(s) ==
  /\ store[<<s, "valid">>] \in {NoNetwork, "yes", "no"}
  /\ \A f \in {"ssid", "pass", "gen"} : store[<<s, f>>] \in Networks \cup {NoNetwork}

(* What may stand under each key.                                          *)
StoreKinds ==
  /\ store \in [Keys -> Networks \cup {NoNetwork, "yes", "no", "none"} \cup Slots]
  /\ SlotKinds("s0") /\ SlotKinds("s1")
  /\ store[Active] \in {NoNetwork, "none"} \cup Slots
  /\ store[Migrated] \in {NoNetwork, "yes", "no"}
  /\ store[LegacySsid] \in Networks \cup {NoNetwork}
  /\ store[LegacyPassword] \in Networks \cup {NoNetwork}

SlotHolds(s, n) ==
  store[<<s, "ssid">>] = n /\ store[<<s, "pass">>] = n /\ store[<<s, "gen">>] = n

LegacyThere == store[LegacySsid] # NoNetwork /\ store[LegacyPassword] # NoNetwork

(* The slot in use stays whole while the other one is written, and the old *)
(* keys hold one network or do not load.                                   *)
InUseKept ==
  /\ current.slot \in Slots =>
       /\ store[<<current.slot, "valid">>] = "yes"
       /\ SlotHolds(current.slot, current.ssid)
  /\ LegacyThere => store[LegacySsid] = store[LegacyPassword]
  /\ current.slot = "legacy" /\ writing \notin {"dropPassword", "saved"} =>
       /\ store[LegacyPassword] = current.ssid
       /\ writing # "dropSsid" => store[LegacySsid] = current.ssid
  /\ current.slot = "none" => ~LegacyThere

CurrentWhole == IF Provisions(current) THEN WholeNetwork(current) ELSE current = NoCredentials

(* The writes after each of those of a commit.                             *)
AfterSsid == {"pass", "gen", "validate", "activate", "migrate", "dropSsid", "dropPassword", "saved"}
AfterPass == AfterSsid \ {"pass"}
AfterGen == AfterPass \ {"gen"}
AfterValidate == AfterGen \ {"validate"}
AfterActivate == AfterValidate \ {"activate"}
AfterMigrate == AfterActivate \ {"migrate"}

(* The target slot fills up in order.                                      *)
TargetFilled ==
  /\ writing \in AfterSsid => store[<<TargetSlot, "ssid">>] = candidate
  /\ writing \in AfterPass => store[<<TargetSlot, "pass">>] = candidate
  /\ writing \in AfterGen => store[<<TargetSlot, "gen">>] = candidate
  /\ writing \in AfterValidate => store[<<TargetSlot, "valid">>] = "yes"

(* The markers name the slot in use until they are written, and again once *)
(* a rollback wrote them.                                                  *)
OldMarkers ==
  IF current.slot \in Slots THEN store[Active] = current.slot
  ELSE store[Active] \notin Slots /\ store[Migrated] # "yes"

MarkersInOrder ==
  /\ writing \in {"idle", "failed"} \cup (CommitWrites \ {"migrate"}) => OldMarkers
  /\ writing \in AfterActivate => store[Active] = TargetSlot
  /\ writing \in AfterMigrate => store[Migrated] = "yes"
  /\ writing \in {"rollbackValid", "rollbackActive"} =>
       \/ OldMarkers
       \/ store[Active] = TargetSlot /\ SlotHolds(TargetSlot, candidate)
  /\ writing = "rollbackActive" => store[<<TargetSlot, "valid">>] = "no"
  /\ writing = "rollbackMigrated" =>
       IF current.slot \in Slots THEN store[Active] = current.slot ELSE store[Active] \notin Slots

(* With at most one fault the rollback and the clean-up meet none.         *)
FaultsSpent ==
  /\ writing \in {"idle"} \cup CommitWrites => faults = 0
  /\ writing \in RollbackWrites \cup {"failed"} => faults = MaxFaults
  /\ writing \in RollbackWrites \cup {"failed"} => MaxFaults = 1

CredentialsInv ==
  /\ CredentialsTypeOK /\ StoreKinds
  /\ CurrentWhole /\ InUseKept
  /\ (writing # "idle" => candidate \in Networks)
  /\ TargetFilled /\ MarkersInOrder /\ FaultsSpent

(* What the radio and the portal add: a form that is tried is the network  *)
(* the radio is after, and what could be loaded was joined once.           *)
LegacyProven == LegacyThere => store[LegacySsid] \in proven

RadioTypes ==
  /\ phase \in Phases /\ provisioned \in BOOLEAN /\ portal \in BOOLEAN
  /\ timer \in {"off", "running", "due"} /\ setup \in {"off", "running", "due"}
  /\ pending \in Networks \cup {NoNetwork}
  /\ page \in BOOLEAN /\ prompt \in BOOLEAN
  /\ mode \in {"off", "sta", "apsta"}
  /\ trying \in Networks \cup {NoNetwork} /\ joined \in Networks \cup {NoNetwork}
  /\ air \in BOOLEAN /\ proven \subseteq Networks /\ upsets \in 0..MaxUpsets

RadioInv ==
  /\ RadioTypes /\ AlwaysAWayOn
  /\ (joined # NoNetwork => joined = trying /\ joined \in proven)
  /\ (pending # NoNetwork => trying = pending)
  /\ (phase \in {"connecting", "online"} => provisioned \/ portal)
  /\ reused = FALSE /\ replayed = FALSE

ProvenInv ==
  /\ (writing # "idle" => candidate \in proven /\ pending = candidate)
  /\ (Provisions(current) => current.ssid \in proven)
  /\ LegacyProven

WifiInv == CredentialsInv /\ RadioInv /\ ProvenInv

--------------------------------------------------------------------------------
(* Keys.                                                                   *)

LEMMA StringsApart ==
  /\ NoNetwork \notin {"yes", "no", "s0", "s1", "none"} /\ NoNetwork \notin Networks
  /\ \A n \in Networks : n \notin {"yes", "no", "s0", "s1", "none"}
BY WifiAssumption

LEMMA KeysAre ==
  /\ Active \in Keys /\ Migrated \in Keys /\ LegacySsid \in Keys /\ LegacyPassword \in Keys
  /\ Active # Migrated /\ Active # LegacySsid /\ Active # LegacyPassword
  /\ Migrated # LegacySsid /\ Migrated # LegacyPassword /\ LegacySsid # LegacyPassword
  /\ \A s \in Slots, f \in SlotFields :
       /\ <<s, f>> \in Keys
       /\ <<s, f>> \notin {Active, Migrated, LegacySsid, LegacyPassword}
       /\ \A t \in Slots, g \in SlotFields : <<s, f>> = <<t, g>> => s = t /\ f = g
BY DEF Keys, Active, Migrated, LegacySsid, LegacyPassword, Slots, SlotFields

LEMMA Target ==
  TargetSlot \in Slots /\ TargetSlot # current.slot
BY DEF TargetSlot, Slots

LEMMA Written1 ==
  ASSUME NEW f \in SlotFields, NEW v, store \in [Keys -> Networks \cup {NoNetwork, "yes", "no", "none"} \cup Slots],
         store' = [store EXCEPT ![<<TargetSlot, f>>] = v]
  PROVE  /\ \A s \in Slots, g \in SlotFields :
              store'[<<s, g>>] = IF s = TargetSlot /\ g = f THEN v ELSE store[<<s, g>>]
         /\ \A k \in {Active, Migrated, LegacySsid, LegacyPassword} : store'[k] = store[k]
BY KeysAre, Target

(* A step that leaves the store and the commit alone.                      *)
LEMMA CredentialsRest ==
  ASSUME CredentialsInv, UNCHANGED credentialVars
  PROVE  CredentialsInv'
BY DEF credentialVars, CredentialsInv, CredentialsTypeOK, StoreKinds, SlotKinds, CurrentWhole,
       Provisions, WholeNetwork, NoCredentials, InUseKept, SlotHolds, LegacyThere, TargetFilled,
       TargetSlot, MarkersInOrder, OldMarkers, FaultsSpent

LEMMA LoadsCurrent ==
  ASSUME CredentialsInv, OldMarkers, writing \notin {"dropSsid", "dropPassword", "saved"}
  PROVE  LoadedValue(store) = current
<1>1. current = [slot |-> current.slot, ssid |-> current.ssid, pass |-> current.pass]
      /\ current.slot \in Slots \cup {"legacy", "none"}
  BY DEF CredentialsInv, CredentialsTypeOK
<1>2. CASE current.slot \in Slots
  <2>1. store[Active] = current.slot /\ SlotHolds(current.slot, current.ssid)
        /\ store[<<current.slot, "valid">>] = "yes" /\ current.slot # "none"
    BY <1>2 DEF OldMarkers, CredentialsInv, InUseKept, Slots
  <2>2. current.ssid \in Networks /\ current.pass = current.ssid
    BY <2>1 DEF CredentialsInv, CurrentWhole, Provisions, WholeNetwork
  <2>3. QED
    BY <1>1, <1>2, <2>1, <2>2, StringsApart DEF LoadedValue, SlotLoads, SlotHolds
<1>3. CASE current.slot = "legacy"
  <2>1. /\ store[Active] \notin Slots /\ store[Migrated] # "yes"
        /\ store[LegacySsid] = current.ssid /\ store[LegacyPassword] = current.ssid
    BY <1>3 DEF OldMarkers, CredentialsInv, InUseKept, Slots
  <2>2. current.ssid \in Networks /\ current.pass = current.ssid
    BY <1>3 DEF CredentialsInv, CurrentWhole, Provisions, WholeNetwork
  <2>3. QED
    BY <1>1, <1>3, <2>1, <2>2, StringsApart DEF LoadedValue, MayUseLegacy
<1>4. CASE current.slot = "none"
  <2>1. store[Active] \notin Slots /\ ~LegacyThere /\ current = NoCredentials
    BY <1>4 DEF OldMarkers, CredentialsInv, InUseKept, CurrentWhole, Provisions, Slots
  <2>2. QED
    BY <2>1 DEF LoadedValue, LegacyThere
<1>5. QED
  BY <1>1, <1>2, <1>3, <1>4

LEMMA LoadsCandidate ==
  ASSUME CredentialsInv, writing \in AfterActivate
  PROVE  LoadedValue(store) = [slot |-> TargetSlot, ssid |-> candidate, pass |-> candidate]
<1>1. /\ store[Active] = TargetSlot /\ candidate \in Networks
      /\ store[<<TargetSlot, "valid">>] = "yes" /\ SlotHolds(TargetSlot, candidate)
  BY DEF CredentialsInv, MarkersInOrder, TargetFilled, SlotHolds, AfterActivate, AfterValidate,
         AfterGen, AfterPass, AfterSsid
<1>2. QED
  BY <1>1, StringsApart, Target DEF LoadedValue, SlotLoads, SlotHolds

LEMMA LoadedFrom ==
  ASSUME CredentialsInv, Provisions(LoadedValue(store))
  PROVE  LoadedValue(store).ssid \in {n \in {current.ssid} : Provisions(current)}
            \cup {n \in {candidate} : writing # "idle"} \cup {n \in {store[LegacySsid]} : LegacyThere}
<1>1. CASE store[Active] \in Slots /\ SlotLoads(store, store[Active])
  <2>1. LoadedValue(store).ssid = store[<<store[Active], "ssid">>]
    BY <1>1 DEF LoadedValue
  <2>2. \/ store[Active] = current.slot /\ current.slot \in Slots
        \/ store[Active] = TargetSlot /\ store[<<TargetSlot, "ssid">>] = candidate /\ writing # "idle"
    BY <1>1 DEF CredentialsInv, CredentialsTypeOK, Writes, CommitWrites, RollbackWrites, CleanupWrites,
                MarkersInOrder, OldMarkers, TargetFilled, SlotHolds, AfterMigrate,
                AfterActivate, AfterValidate, AfterGen, AfterPass, AfterSsid
  <2>3. CASE store[Active] = current.slot /\ current.slot \in Slots
    BY <2>1, <2>3 DEF CredentialsInv, InUseKept, SlotHolds, Provisions, Slots
  <2>4. QED
    BY <2>1, <2>2, <2>3
<1>2. CASE ~(store[Active] \in Slots /\ SlotLoads(store, store[Active]))
  BY <1>2 DEF LoadedValue, LegacyThere, Provisions, NoCredentials
<1>3. QED
  BY <1>1, <1>2

LEMMA CredentialsPromise ==
  ASSUME CredentialsInv
  PROVE  CredentialsSurvive /\ FlashAgrees
<1>1. ASSUME writing \in {"idle", "failed"}
      PROVE  LoadedValue(store) = current
  BY <1>1, LoadsCurrent DEF CredentialsInv, MarkersInOrder
<1>2. ASSUME PowerMayBeCut
      PROVE  /\ Provisions(LoadedValue(store)) => WholeNetwork(LoadedValue(store))
             /\ Provisions(current) => LoadedValue(store).ssid \in {current.ssid, candidate} \ {NoNetwork}
  <2>1. writing \in {"idle"} \cup (CommitWrites \ {"migrate"}) \/ writing \in AfterActivate
    BY <1>2 DEF CredentialsInv, CredentialsTypeOK, FaultsSpent, PowerMayBeCut, Writes, CommitWrites,
                RollbackWrites, CleanupWrites, AfterActivate, AfterValidate,
                AfterGen, AfterPass, AfterSsid
  <2>2. CASE writing \in {"idle"} \cup (CommitWrites \ {"migrate"})
    <3>1. LoadedValue(store) = current
      BY <2>2, LoadsCurrent DEF CredentialsInv, MarkersInOrder, CommitWrites
    <3>2. QED
      BY <3>1, StringsApart DEF CredentialsInv, CurrentWhole, WholeNetwork
  <2>3. CASE writing \in AfterActivate
    <3>1. candidate \in Networks
      BY <2>3 DEF CredentialsInv, AfterActivate, AfterValidate, AfterGen, AfterPass, AfterSsid
    <3>2. QED
      BY <2>3, <3>1, LoadsCandidate, StringsApart DEF WholeNetwork
  <2>4. QED
    BY <2>1, <2>2, <2>3
<1>3. QED
  BY <1>1, <1>2 DEF CredentialsSurvive, FlashAgrees

(* A write to the slot that is not in use.                                 *)
LEMMA TargetWritten ==
  ASSUME CredentialsInv, NEW f \in SlotFields,
         NEW v \in Networks \cup {"yes", "no"}, f = "valid" <=> v \in {"yes", "no"},
         store' = [store EXCEPT ![<<TargetSlot, f>>] = v], UNCHANGED <<current, candidate>>,
         writing \in CommitWrites \cup RollbackWrites,
         writing' \notin {"idle", "saved", "dropSsid", "dropPassword"}
  PROVE  /\ store' \in [Keys -> Networks \cup {NoNetwork, "yes", "no", "none"} \cup Slots]
         /\ \A g \in SlotFields :
              store'[<<TargetSlot, g>>] = IF g = f THEN v ELSE store[<<TargetSlot, g>>]
         /\ \A k \in {Active, Migrated, LegacySsid, LegacyPassword} : store'[k] = store[k]
         /\ StoreKinds' /\ CurrentWhole' /\ InUseKept'
         /\ TargetSlot' = TargetSlot /\ (OldMarkers <=> OldMarkers')
<1>1. store \in [Keys -> Networks \cup {NoNetwork, "yes", "no", "none"} \cup Slots] /\ StoreKinds
  BY DEF CredentialsInv, StoreKinds
<1>2. /\ \A s \in Slots, g \in SlotFields :
           store'[<<s, g>>] = IF s = TargetSlot /\ g = f THEN v ELSE store[<<s, g>>]
      /\ \A k \in {Active, Migrated, LegacySsid, LegacyPassword} : store'[k] = store[k]
  BY <1>1, Written1
<1>3. store' \in [Keys -> Networks \cup {NoNetwork, "yes", "no", "none"} \cup Slots]
  BY <1>1, KeysAre, Target
<1>4. \A s \in Slots : SlotKinds(s)'
  BY <1>1, <1>2, StringsApart DEF StoreKinds, SlotKinds, Slots, SlotFields
<1>5. StoreKinds'
  BY <1>1, <1>2, <1>3, <1>4 DEF StoreKinds, Slots
<1>6. CurrentWhole'
  BY DEF CredentialsInv, CurrentWhole, Provisions, WholeNetwork, NoCredentials
<1>7. InUseKept'
  <2>1. current.slot \in Slots => \A g \in SlotFields : store'[<<current.slot, g>>] = store[<<current.slot, g>>]
    BY <1>2, Target
  <2>2. InUseKept
    BY DEF CredentialsInv
  <2>3. QED
    BY <1>2, <2>1, <2>2 DEF InUseKept, SlotHolds, SlotFields, LegacyThere, CommitWrites, RollbackWrites
<1>8. TargetSlot' = TargetSlot /\ (OldMarkers <=> OldMarkers')
  BY <1>2 DEF TargetSlot, OldMarkers
<1>9. \A g \in SlotFields :
        store'[<<TargetSlot, g>>] = IF g = f THEN v ELSE store[<<TargetSlot, g>>]
  BY <1>2, Target
<1>10. QED
  BY <1>2, <1>3, <1>5, <1>6, <1>7, <1>8, <1>9

(* The key and the value of each write.                                    *)
LEMMA WriteKeys ==
  /\ KeyOf("invalidate") = <<TargetSlot, "valid">> /\ ValueOf("invalidate") = "no"
  /\ KeyOf("ssid") = <<TargetSlot, "ssid">> /\ ValueOf("ssid") = candidate
  /\ KeyOf("pass") = <<TargetSlot, "pass">> /\ ValueOf("pass") = candidate
  /\ KeyOf("gen") = <<TargetSlot, "gen">> /\ ValueOf("gen") = candidate
  /\ KeyOf("validate") = <<TargetSlot, "valid">> /\ ValueOf("validate") = "yes"
  /\ KeyOf("activate") = Active /\ ValueOf("activate") = TargetSlot
  /\ KeyOf("migrate") = Migrated /\ ValueOf("migrate") = "yes"
  /\ KeyOf("rollbackValid") = <<TargetSlot, "valid">> /\ ValueOf("rollbackValid") = "no"
  /\ KeyOf("rollbackActive") = Active
  /\ ValueOf("rollbackActive") = IF current.slot \in Slots THEN current.slot ELSE "none"
  /\ KeyOf("rollbackMigrated") = Migrated
  /\ ValueOf("rollbackMigrated") = IF current.slot \in Slots THEN "yes" ELSE "no"
  /\ KeyOf("dropSsid") = LegacySsid /\ ValueOf("dropSsid") = NoNetwork
  /\ KeyOf("dropPassword") = LegacyPassword /\ ValueOf("dropPassword") = NoNetwork
BY DEF KeyOf, ValueOf, CleanupWrites

LEMMA TargetWrites == {"invalidate", "ssid", "pass", "gen", "validate"} \subseteq CommitWrites
BY DEF CommitWrites

(* The writes of a commit up to its markers take.                          *)
LEMMA TargetWriteTakes ==
  ASSUME CredentialsInv, WriteTakes, writing \in {"invalidate", "ssid", "pass", "gen", "validate"}
  PROVE  CredentialsInv'
<1> DEFINE f == IF writing \in {"invalidate", "validate"} THEN "valid" ELSE writing
           v == CASE writing = "invalidate" -> "no" [] writing = "validate" -> "yes" [] OTHER -> candidate
<1>1. candidate \in Networks /\ writing \in CommitWrites /\ OldMarkers
  BY TargetWrites DEF CredentialsInv, MarkersInOrder, CommitWrites
<1>2. f \in SlotFields /\ v \in Networks \cup {"yes", "no"} /\ (f = "valid" <=> v \in {"yes", "no"})
  BY <1>1, StringsApart DEF SlotFields
<1>3. KeyOf(writing) = <<TargetSlot, f>> /\ ValueOf(writing) = v
  BY WriteKeys
<1>4. /\ store' = [store EXCEPT ![<<TargetSlot, f>>] = v]
      /\ writing' = Successor(writing) /\ UNCHANGED <<current, candidate, faults>>
  BY <1>3 DEF WriteTakes, Written
<1>5. writing' \in {"ssid", "pass", "gen", "validate", "activate"}
      /\ (writing = "invalidate" => writing' = "ssid") /\ (writing = "ssid" => writing' = "pass")
      /\ (writing = "pass" => writing' = "gen") /\ (writing = "gen" => writing' = "validate")
      /\ (writing = "validate" => writing' = "activate")
  BY <1>4 DEF Successor
<1> HIDE DEF f, v
<1>6. /\ store' \in [Keys -> Networks \cup {NoNetwork, "yes", "no", "none"} \cup Slots]
      /\ StoreKinds' /\ CurrentWhole' /\ InUseKept' /\ TargetSlot' = TargetSlot /\ OldMarkers'
      /\ \A g \in SlotFields : store'[<<TargetSlot, g>>] = IF g = f THEN v ELSE store[<<TargetSlot, g>>]
  BY <1>1, <1>2, <1>4, <1>5, TargetWritten
<1>8. TargetFilled'
  BY <1>1, <1>4, <1>5, <1>6 DEF f, v, CredentialsInv, TargetFilled, SlotFields, AfterValidate,
     AfterGen, AfterPass, AfterSsid
<1>9. MarkersInOrder' /\ FaultsSpent' /\ writing' # "idle"
  BY <1>1, <1>4, <1>5, <1>6 DEF CredentialsInv, MarkersInOrder, FaultsSpent, CommitWrites, RollbackWrites,
     AfterMigrate, AfterActivate, AfterValidate, AfterGen, AfterPass, AfterSsid
<1>10. CredentialsTypeOK'
  BY <1>1, <1>4, <1>5, <1>6 DEF CredentialsInv, CredentialsTypeOK, Writes, CommitWrites
<1>11. QED
  BY <1>1, <1>4, <1>6, <1>8, <1>9, <1>10 DEF CredentialsInv

(* The slot being written keeps what it holds when a marker or an old key  *)
(* is written.                                                             *)
LEMMA MarkerWritten ==
  ASSUME CredentialsInv, NEW k \in {Active, Migrated, LegacySsid, LegacyPassword},
         NEW v \in {NoNetwork, "yes", "no", "none"} \cup Slots,
         store' = [store EXCEPT ![k] = v], UNCHANGED <<current, candidate>>
  PROVE  /\ store' \in [Keys -> Networks \cup {NoNetwork, "yes", "no", "none"} \cup Slots]
         /\ store'[k] = v
         /\ \A j \in {Active, Migrated, LegacySsid, LegacyPassword} \ {k} : store'[j] = store[j]
         /\ \A s \in Slots, f \in SlotFields : store'[<<s, f>>] = store[<<s, f>>]
         /\ SlotKinds("s0")' /\ SlotKinds("s1")'
         /\ CurrentWhole' /\ TargetSlot' = TargetSlot /\ TargetSlot \in Slots
<1>1. store \in [Keys -> Networks \cup {NoNetwork, "yes", "no", "none"} \cup Slots] /\ StoreKinds
  BY DEF CredentialsInv, StoreKinds
<1>2. /\ store' \in [Keys -> Networks \cup {NoNetwork, "yes", "no", "none"} \cup Slots]
      /\ store'[k] = v
      /\ \A j \in {Active, Migrated, LegacySsid, LegacyPassword} \ {k} : store'[j] = store[j]
  BY <1>1, KeysAre
<1>3. \A s \in Slots, f \in SlotFields : store'[<<s, f>>] = store[<<s, f>>]
  BY <1>1, KeysAre
<1>4. SlotKinds("s0")' /\ SlotKinds("s1")'
  BY <1>1, <1>3 DEF StoreKinds, SlotKinds, Slots, SlotFields
<1>5. CurrentWhole'
  BY DEF CredentialsInv, CurrentWhole, Provisions, WholeNetwork, NoCredentials
<1>6. QED
  BY <1>2, <1>3, <1>4, <1>5, Target DEF TargetSlot

(* The marker of the active slot is switched to the filled slot.           *)
LEMMA ActivateTakes ==
  ASSUME CredentialsInv, WriteTakes, writing = "activate"
  PROVE  CredentialsInv'
<1>1. /\ store' = [store EXCEPT ![Active] = TargetSlot] /\ writing' = "migrate"
      /\ UNCHANGED <<current, candidate, faults>>
  BY WriteKeys DEF WriteTakes, Written, Successor
<1>2. /\ store' \in [Keys -> Networks \cup {NoNetwork, "yes", "no", "none"} \cup Slots]
      /\ store'[Active] = TargetSlot
      /\ \A j \in {Migrated, LegacySsid, LegacyPassword} : store'[j] = store[j]
      /\ \A s \in Slots, f \in SlotFields : store'[<<s, f>>] = store[<<s, f>>]
      /\ SlotKinds("s0")' /\ SlotKinds("s1")'
      /\ CurrentWhole' /\ TargetSlot' = TargetSlot /\ TargetSlot \in Slots
  BY <1>1, MarkerWritten, KeysAre, Target
<1>3. StoreKinds'
  BY <1>2 DEF CredentialsInv, StoreKinds
<1>4. InUseKept'
  BY <1>1, <1>2 DEF CredentialsInv, InUseKept, SlotHolds, SlotFields, LegacyThere
<1>5. TargetFilled'
  BY <1>1, <1>2 DEF CredentialsInv, TargetFilled, SlotFields, AfterValidate, AfterGen, AfterPass, AfterSsid
<1>6. MarkersInOrder' /\ FaultsSpent'
  BY <1>1, <1>2 DEF CredentialsInv, MarkersInOrder, FaultsSpent, CommitWrites, RollbackWrites,
     AfterMigrate, AfterActivate, AfterValidate, AfterGen, AfterPass, AfterSsid
<1>7. CredentialsTypeOK' /\ candidate' \in Networks
  BY <1>1, <1>2 DEF CredentialsInv, CredentialsTypeOK, Writes, CommitWrites
<1>8. QED
  BY <1>2, <1>3, <1>4, <1>5, <1>6, <1>7 DEF CredentialsInv

(* The old keys are ruled out, then erased.                                *)
LEMMA MigrateTakes ==
  ASSUME CredentialsInv, WriteTakes, writing = "migrate"
  PROVE  CredentialsInv'
<1>1. /\ store' = [store EXCEPT ![Migrated] = "yes"] /\ writing' = "dropSsid"
      /\ UNCHANGED <<current, candidate, faults>>
  BY WriteKeys DEF WriteTakes, Written, Successor
<1>2. /\ store' \in [Keys -> Networks \cup {NoNetwork, "yes", "no", "none"} \cup Slots]
      /\ store'[Migrated] = "yes"
      /\ \A j \in {Active, LegacySsid, LegacyPassword} : store'[j] = store[j]
      /\ \A s \in Slots, f \in SlotFields : store'[<<s, f>>] = store[<<s, f>>]
      /\ SlotKinds("s0")' /\ SlotKinds("s1")'
      /\ CurrentWhole' /\ TargetSlot' = TargetSlot /\ TargetSlot \in Slots
  BY <1>1, MarkerWritten, KeysAre, Target
<1>3. StoreKinds'
  BY <1>2 DEF CredentialsInv, StoreKinds
<1>4. InUseKept'
  BY <1>1, <1>2 DEF CredentialsInv, InUseKept, SlotHolds, SlotFields, LegacyThere
<1>5. TargetFilled'
  BY <1>1, <1>2 DEF CredentialsInv, TargetFilled, SlotFields, AfterValidate, AfterGen, AfterPass, AfterSsid
<1>6. MarkersInOrder' /\ FaultsSpent'
  BY <1>1, <1>2 DEF CredentialsInv, MarkersInOrder, FaultsSpent, CommitWrites, RollbackWrites,
     AfterMigrate, AfterActivate, AfterValidate, AfterGen, AfterPass, AfterSsid
<1>7. CredentialsTypeOK' /\ candidate' \in Networks
  BY <1>1, <1>2 DEF CredentialsInv, CredentialsTypeOK, Writes, CleanupWrites
<1>8. QED
  BY <1>2, <1>3, <1>4, <1>5, <1>6, <1>7 DEF CredentialsInv

LEMMA CleanupTakes ==
  ASSUME CredentialsInv, WriteTakes, writing \in CleanupWrites
  PROVE  CredentialsInv'
<1> DEFINE k == IF writing = "dropSsid" THEN LegacySsid ELSE LegacyPassword
<1>1. writing \in {"dropSsid", "dropPassword"} /\ k \in {LegacySsid, LegacyPassword}
  BY DEF CleanupWrites
<1>2. /\ store' = [store EXCEPT ![k] = NoNetwork]
      /\ writing' = IF writing = "dropSsid" THEN "dropPassword" ELSE "saved"
      /\ UNCHANGED <<current, candidate, faults>>
  BY <1>1, WriteKeys DEF WriteTakes, Written, Successor
<1>3. /\ store' \in [Keys -> Networks \cup {NoNetwork, "yes", "no", "none"} \cup Slots]
      /\ store'[k] = NoNetwork
      /\ store'[Active] = store[Active] /\ store'[Migrated] = store[Migrated]
      /\ \A j \in {LegacySsid, LegacyPassword} : store'[j] \in {store[j], NoNetwork}
      /\ \A s \in Slots, f \in SlotFields : store'[<<s, f>>] = store[<<s, f>>]
      /\ SlotKinds("s0")' /\ SlotKinds("s1")'
      /\ CurrentWhole' /\ TargetSlot' = TargetSlot /\ TargetSlot \in Slots
  <2> HIDE DEF k
  <2> QED
    BY <1>1, <1>2, MarkerWritten, KeysAre
<1>4. StoreKinds'
  BY <1>3 DEF CredentialsInv, StoreKinds
<1>5. InUseKept'
  BY <1>1, <1>2, <1>3 DEF CredentialsInv, InUseKept, SlotHolds, SlotFields, LegacyThere
<1>6. TargetFilled'
  BY <1>1, <1>2, <1>3 DEF CredentialsInv, TargetFilled, SlotFields, AfterValidate, AfterGen, AfterPass, AfterSsid
<1>7. MarkersInOrder' /\ FaultsSpent'
  BY <1>1, <1>2, <1>3 DEF CredentialsInv, MarkersInOrder, FaultsSpent, CommitWrites, RollbackWrites,
     AfterMigrate, AfterActivate, AfterValidate, AfterGen, AfterPass, AfterSsid
<1>8. CredentialsTypeOK' /\ candidate' \in Networks
  BY <1>1, <1>2, <1>3 DEF CredentialsInv, CredentialsTypeOK, Writes, CleanupWrites
<1>9. QED
  BY <1>3, <1>4, <1>5, <1>6, <1>7, <1>8 DEF CredentialsInv

(* The rollback: the half-written slot is ruled out, and the markers name  *)
(* the slot in use again.                                                  *)
LEMMA RollbackValidTakes ==
  ASSUME CredentialsInv, WriteTakes, writing = "rollbackValid"
  PROVE  CredentialsInv'
<1>1. /\ store' = [store EXCEPT ![<<TargetSlot, "valid">>] = "no"] /\ writing' = "rollbackActive"
      /\ UNCHANGED <<current, candidate, faults>>
  BY WriteKeys DEF WriteTakes, Written, Successor
<1>2. /\ store' \in [Keys -> Networks \cup {NoNetwork, "yes", "no", "none"} \cup Slots]
      /\ \A g \in SlotFields : store'[<<TargetSlot, g>>] = IF g = "valid" THEN "no" ELSE store[<<TargetSlot, g>>]
      /\ \A j \in {Active, Migrated, LegacySsid, LegacyPassword} : store'[j] = store[j]
      /\ StoreKinds' /\ CurrentWhole' /\ InUseKept' /\ TargetSlot' = TargetSlot
      /\ (OldMarkers <=> OldMarkers')
  BY <1>1, TargetWritten DEF SlotFields, CommitWrites, RollbackWrites
<1>3. TargetFilled'
  BY <1>1 DEF TargetFilled, AfterValidate, AfterGen, AfterPass, AfterSsid
<1>4. MarkersInOrder' /\ FaultsSpent'
  BY <1>1, <1>2 DEF CredentialsInv, MarkersInOrder, FaultsSpent, CommitWrites, RollbackWrites, SlotHolds,
     SlotFields, AfterMigrate, AfterActivate, AfterValidate, AfterGen, AfterPass, AfterSsid
<1>5. CredentialsTypeOK' /\ candidate' \in Networks
  BY <1>1, <1>2 DEF CredentialsInv, CredentialsTypeOK, Writes, RollbackWrites
<1>6. QED
  BY <1>2, <1>3, <1>4, <1>5, <1>1 DEF CredentialsInv

LEMMA RollbackMarkerTakes ==
  ASSUME CredentialsInv, WriteTakes, writing \in {"rollbackActive", "rollbackMigrated"}
  PROVE  CredentialsInv'
<1> DEFINE k == IF writing = "rollbackActive" THEN Active ELSE Migrated
           v == IF writing = "rollbackActive" THEN IF current.slot \in Slots THEN current.slot ELSE "none"
                ELSE IF current.slot \in Slots THEN "yes" ELSE "no"
<1>1. k \in {Active, Migrated} /\ v \in {"yes", "no", "none"} \cup Slots
  OBVIOUS
<1>2. /\ store' = [store EXCEPT ![k] = v]
      /\ writing' = IF writing = "rollbackActive" THEN "rollbackMigrated" ELSE "failed"
      /\ UNCHANGED <<current, candidate, faults>>
  BY WriteKeys DEF WriteTakes, Written, Successor
<1>3. /\ store' \in [Keys -> Networks \cup {NoNetwork, "yes", "no", "none"} \cup Slots]
      /\ store'[k] = v
      /\ \A j \in {Active, Migrated} \ {k} : store'[j] = store[j]
      /\ store'[LegacySsid] = store[LegacySsid] /\ store'[LegacyPassword] = store[LegacyPassword]
      /\ \A s \in Slots, f \in SlotFields : store'[<<s, f>>] = store[<<s, f>>]
      /\ SlotKinds("s0")' /\ SlotKinds("s1")'
      /\ CurrentWhole' /\ TargetSlot' = TargetSlot /\ TargetSlot \in Slots
  <2> HIDE DEF k, v
  <2> QED
    BY <1>1, <1>2, MarkerWritten, KeysAre
<1>4. /\ writing = "rollbackActive" => store'[Migrated] = store[Migrated]
      /\ writing = "rollbackMigrated" => store'[Active] = store[Active]
  BY <1>3, KeysAre
<1>5. StoreKinds'
  BY <1>3, <1>4 DEF CredentialsInv, StoreKinds, Slots
<1>6. InUseKept'
  BY <1>2, <1>3 DEF CredentialsInv, InUseKept, SlotHolds, SlotFields, LegacyThere
<1>7. TargetFilled'
  BY <1>2 DEF TargetFilled, AfterValidate, AfterGen, AfterPass, AfterSsid
<1>8. MarkersInOrder' /\ FaultsSpent'
  BY <1>2, <1>3, <1>4 DEF CredentialsInv, MarkersInOrder, OldMarkers, FaultsSpent, CommitWrites, RollbackWrites,
     Slots, AfterMigrate, AfterActivate, AfterValidate, AfterGen, AfterPass, AfterSsid
<1>9. CredentialsTypeOK' /\ candidate' \in Networks
  BY <1>2, <1>3 DEF CredentialsInv, CredentialsTypeOK, Writes, RollbackWrites
<1>10. QED
  BY <1>3, <1>5, <1>6, <1>7, <1>8, <1>9 DEF CredentialsInv

LEMMA TakesKeeps ==
  ASSUME CredentialsInv, WriteTakes
  PROVE  CredentialsInv'
<1>1. \/ writing \in {"invalidate", "ssid", "pass", "gen", "validate"}
      \/ writing = "activate" \/ writing = "migrate" \/ writing \in CleanupWrites
      \/ writing = "rollbackValid" \/ writing \in {"rollbackActive", "rollbackMigrated"}
  BY DEF WriteTakes, Writes, CommitWrites, RollbackWrites, CleanupWrites
<1>2. QED
  BY <1>1, TargetWriteTakes, ActivateTakes, MigrateTakes, CleanupTakes, RollbackValidTakes,
     RollbackMarkerTakes

(* A commit whose write failed and left nothing starts its rollback.       *)
LEMMA FailsUnwritten ==
  ASSUME MaxFaults \in {0, 1}, CredentialsInv, WriteFails, store' = store
  PROVE  CredentialsInv'
<1>1. /\ faults < MaxFaults /\ faults' = faults + 1 /\ UNCHANGED <<store, current, candidate>>
      /\ writing \in Writes
      /\ writing' = IF writing \in CommitWrites THEN "rollbackValid" ELSE Successor(writing)
  BY DEF WriteFails
<1>2. faults = 0 /\ MaxFaults = 1 /\ faults' = 1 /\ writing \notin RollbackWrites
  BY <1>1 DEF CredentialsInv, CredentialsTypeOK, FaultsSpent
<1>3. \/ writing \in CommitWrites /\ writing' = "rollbackValid"
      \/ writing = "dropSsid" /\ writing' = "dropPassword"
      \/ writing = "dropPassword" /\ writing' = "saved"
  BY <1>1, <1>2 DEF Writes, CleanupWrites, CommitWrites, Successor
<1>4. StoreKinds' /\ CurrentWhole' /\ TargetSlot' = TargetSlot /\ (OldMarkers <=> OldMarkers')
      /\ candidate' \in Networks
  BY <1>1, <1>3 DEF CredentialsInv, StoreKinds, SlotKinds, CurrentWhole, Provisions, WholeNetwork,
                    NoCredentials, TargetSlot, OldMarkers, CommitWrites
<1>5. InUseKept'
  BY <1>1, <1>3 DEF CredentialsInv, InUseKept, SlotHolds, LegacyThere, CommitWrites
<1>6. TargetFilled'
  BY <1>1, <1>3, <1>4 DEF CredentialsInv, TargetFilled, AfterValidate, AfterGen, AfterPass, AfterSsid
<1>7. MarkersInOrder' /\ FaultsSpent'
  BY <1>1, <1>2, <1>3, <1>4 DEF CredentialsInv, TargetFilled, MarkersInOrder, FaultsSpent, CommitWrites,
     RollbackWrites, SlotHolds, AfterMigrate, AfterActivate, AfterValidate, AfterGen, AfterPass, AfterSsid
<1>8. CredentialsTypeOK'
  BY <1>1, <1>2, <1>3 DEF CredentialsInv, CredentialsTypeOK, Writes, RollbackWrites, CleanupWrites
<1>9. QED
  BY <1>1, <1>4, <1>5, <1>6, <1>7, <1>8 DEF CredentialsInv

(* So does one whose write took and whose read-back failed.                *)
LEMMA FailsWritten ==
  ASSUME MaxFaults \in {0, 1}, CredentialsInv, WriteFails, store' = Written, writing \in CommitWrites
  PROVE  CredentialsInv'
<1>1. /\ writing' = "rollbackValid" /\ faults' = faults + 1 /\ faults < MaxFaults
      /\ UNCHANGED <<current, candidate>>
  BY DEF WriteFails
<1>2. faults = 0 /\ MaxFaults = 1 /\ faults' = 1
  BY <1>1 DEF CredentialsInv, CredentialsTypeOK, FaultsSpent
<1>3. FaultsSpent' /\ TargetFilled' /\ candidate' \in Networks
  BY <1>1, <1>2 DEF CredentialsInv, FaultsSpent, TargetFilled, AfterValidate, AfterGen, AfterPass, AfterSsid,
     CommitWrites, RollbackWrites
<1>4. CASE writing \in {"invalidate", "ssid", "pass", "gen", "validate"}
  <2> DEFINE f == IF writing \in {"invalidate", "validate"} THEN "valid" ELSE writing
             v == CASE writing = "invalidate" -> "no" [] writing = "validate" -> "yes" [] OTHER -> candidate
  <2>1. candidate \in Networks
    BY <1>4 DEF CredentialsInv
  <2>2. f \in SlotFields /\ v \in Networks \cup {"yes", "no"} /\ (f = "valid" <=> v \in {"yes", "no"})
    BY <1>4, <2>1, StringsApart DEF SlotFields
  <2>3. store' = [store EXCEPT ![<<TargetSlot, f>>] = v]
    BY <1>4, WriteKeys DEF Written
  <2> HIDE DEF f, v
  <2>4. /\ store' \in [Keys -> Networks \cup {NoNetwork, "yes", "no", "none"} \cup Slots]
        /\ StoreKinds' /\ CurrentWhole' /\ InUseKept' /\ (OldMarkers <=> OldMarkers')
    BY <1>1, <2>2, <2>3, TargetWritten
  <2>5. MarkersInOrder'
    BY <1>1, <1>4, <2>4 DEF CredentialsInv, MarkersInOrder, CommitWrites, AfterMigrate, AfterActivate,
       AfterValidate, AfterGen, AfterPass, AfterSsid
  <2>6. CredentialsTypeOK'
    BY <1>1, <1>2, <2>4 DEF CredentialsInv, CredentialsTypeOK, Writes, RollbackWrites
  <2>7. QED
    BY <1>1, <1>3, <2>4, <2>5, <2>6 DEF CredentialsInv
<1>5. CASE writing \in {"activate", "migrate"}
  <2> DEFINE k == IF writing = "activate" THEN Active ELSE Migrated
             v == IF writing = "activate" THEN TargetSlot ELSE "yes"
  <2>1. k \in {Active, Migrated} /\ v \in {"yes"} \cup Slots
    BY Target
  <2>2. store' = [store EXCEPT ![k] = v]
    BY <1>5, WriteKeys DEF Written
  <2>3. /\ store' \in [Keys -> Networks \cup {NoNetwork, "yes", "no", "none"} \cup Slots]
        /\ store'[k] = v
        /\ \A j \in {Active, Migrated} \ {k} : store'[j] = store[j]
        /\ store'[LegacySsid] = store[LegacySsid] /\ store'[LegacyPassword] = store[LegacyPassword]
        /\ \A s \in Slots, g \in SlotFields : store'[<<s, g>>] = store[<<s, g>>]
        /\ SlotKinds("s0")' /\ SlotKinds("s1")'
        /\ CurrentWhole' /\ TargetSlot' = TargetSlot /\ TargetSlot \in Slots
    <3> HIDE DEF k, v
    <3> QED
      BY <1>1, <2>1, <2>2, MarkerWritten, KeysAre
  <2>4. /\ writing = "activate" => store'[Active] = TargetSlot /\ store'[Migrated] = store[Migrated]
        /\ writing = "migrate" => store'[Active] = store[Active] /\ store'[Migrated] = "yes"
    BY <1>5, <2>3, KeysAre
  <2>5. StoreKinds'
    BY <1>5, <2>3, <2>4 DEF CredentialsInv, StoreKinds, Slots
  <2>6. InUseKept'
    BY <1>1, <1>5, <2>3 DEF CredentialsInv, InUseKept, SlotHolds, SlotFields, LegacyThere
  <2>7. MarkersInOrder'
    BY <1>1, <1>5, <2>3, <2>4 DEF CredentialsInv, MarkersInOrder, TargetFilled, SlotHolds, SlotFields,
       CommitWrites, AfterMigrate, AfterActivate, AfterValidate, AfterGen, AfterPass, AfterSsid
  <2>8. CredentialsTypeOK'
    BY <1>1, <1>2, <2>3 DEF CredentialsInv, CredentialsTypeOK, Writes, RollbackWrites
  <2>9. QED
    BY <1>1, <1>3, <2>3, <2>5, <2>6, <2>7, <2>8 DEF CredentialsInv
<1>6. QED
  BY <1>4, <1>5 DEF CommitWrites

LEMMA FailsKeeps ==
  ASSUME MaxFaults \in {0, 1}, CredentialsInv, WriteFails
  PROVE  CredentialsInv'
<1>1. store' = store \/ (writing \in CommitWrites /\ store' = Written)
  BY DEF WriteFails
<1>2. QED
  BY <1>1, FailsUnwritten, FailsWritten

(* The ends of a commit, and what is between two.                          *)
LEMMA BeginKeeps ==
  ASSUME CredentialsInv, NEW n \in Networks, BeginCommit(n)
  PROVE  CredentialsInv'
<1>1. /\ writing = "idle" /\ writing' = "invalidate" /\ candidate' = n /\ faults' = 0
      /\ UNCHANGED <<store, current>>
  BY DEF BeginCommit
<1>2. StoreKinds' /\ CurrentWhole' /\ InUseKept'
  BY <1>1 DEF CredentialsInv, StoreKinds, SlotKinds, CurrentWhole, Provisions, WholeNetwork, NoCredentials,
     InUseKept, SlotHolds, LegacyThere
<1>3. TargetFilled' /\ MarkersInOrder' /\ FaultsSpent'
  BY <1>1 DEF CredentialsInv, TargetFilled, MarkersInOrder, OldMarkers, FaultsSpent, CommitWrites, RollbackWrites,
     AfterMigrate, AfterActivate, AfterValidate, AfterGen, AfterPass, AfterSsid
<1>4. CredentialsTypeOK'
  BY <1>1, WifiAssumption DEF CredentialsInv, CredentialsTypeOK, Writes, CommitWrites
<1>5. QED
  BY <1>1, <1>2, <1>3, <1>4 DEF CredentialsInv

LEMMA IdleWithSlot ==
  ASSUME CredentialsInv, writing \in AfterActivate, UNCHANGED store, writing' = "idle", faults' = 0,
         candidate' = NoNetwork, current' = [slot |-> TargetSlot, ssid |-> candidate, pass |-> candidate]
  PROVE  CredentialsInv'
<1>1. /\ candidate \in Networks /\ store[Active] = TargetSlot
      /\ SlotHolds(TargetSlot, candidate) /\ store[<<TargetSlot, "valid">>] = "yes"
  BY DEF CredentialsInv, MarkersInOrder, TargetFilled, SlotHolds, AfterMigrate, AfterActivate, AfterValidate,
     AfterGen, AfterPass, AfterSsid
<1>2. current'.slot = TargetSlot /\ current'.ssid = candidate /\ current'.pass = candidate
      /\ TargetSlot \in Slots /\ TargetSlot \notin {"none", "legacy"}
  BY Target DEF Slots
<1>3. StoreKinds' /\ CurrentWhole'
  BY <1>1, <1>2 DEF CredentialsInv, StoreKinds, SlotKinds, CurrentWhole, Provisions, WholeNetwork
<1>4. InUseKept'
  BY <1>1, <1>2 DEF CredentialsInv, InUseKept, SlotHolds, LegacyThere
<1>5. TargetFilled' /\ MarkersInOrder' /\ FaultsSpent'
  BY <1>1, <1>2 DEF TargetFilled, MarkersInOrder, OldMarkers, FaultsSpent, RollbackWrites,
     AfterMigrate, AfterActivate, AfterValidate, AfterGen, AfterPass, AfterSsid
<1>6. CredentialsTypeOK'
  BY <1>1, <1>2, WifiAssumption DEF CredentialsInv, CredentialsTypeOK
<1>7. QED
  BY <1>3, <1>4, <1>5, <1>6 DEF CredentialsInv

LEMMA IdleAsBefore ==
  ASSUME CredentialsInv, OldMarkers, writing \notin {"dropSsid", "dropPassword", "saved"},
         UNCHANGED <<store, current>>, writing' = "idle", faults' = 0, candidate' = NoNetwork
  PROVE  CredentialsInv'
<1>1. StoreKinds' /\ CurrentWhole' /\ InUseKept'
  BY DEF CredentialsInv, StoreKinds, SlotKinds, CurrentWhole, Provisions, WholeNetwork, NoCredentials,
     InUseKept, SlotHolds, LegacyThere
<1>2. TargetFilled' /\ MarkersInOrder' /\ FaultsSpent'
  BY DEF CredentialsInv, TargetFilled, MarkersInOrder, OldMarkers, FaultsSpent, CommitWrites, RollbackWrites,
     AfterMigrate, AfterActivate, AfterValidate, AfterGen, AfterPass, AfterSsid
<1>3. CredentialsTypeOK'
  BY WifiAssumption DEF CredentialsInv, CredentialsTypeOK
<1>4. QED
  BY <1>1, <1>2, <1>3 DEF CredentialsInv

LEMMA EndKeeps ==
  ASSUME CredentialsInv, EndCommit
  PROVE  CredentialsInv'
<1>1. CASE writing = "saved"
  BY <1>1, IdleWithSlot DEF EndCommit, AfterMigrate, AfterActivate, AfterValidate, AfterGen, AfterPass, AfterSsid
<1>2. CASE writing = "failed"
  BY <1>2, IdleAsBefore DEF EndCommit, CredentialsInv, MarkersInOrder
<1>3. QED
  BY <1>1, <1>2 DEF EndCommit

LEMMA EmptyIsEmpty ==
  /\ EmptyStore \in [Keys -> Networks \cup {NoNetwork, "yes", "no", "none"} \cup Slots]
  /\ \A s \in Slots, f \in SlotFields : EmptyStore[<<s, f>>] = NoNetwork
  /\ \A k \in {Active, Migrated, LegacySsid, LegacyPassword} : EmptyStore[k] = NoNetwork
BY KeysAre DEF EmptyStore

LEMMA ForgetKeeps ==
  ASSUME CredentialsInv, ForgetCredentials
  PROVE  CredentialsInv'
<1>1. /\ writing = "idle" /\ store' = EmptyStore /\ current' = NoCredentials
      /\ UNCHANGED <<writing, candidate, faults>>
  BY DEF ForgetCredentials
<1>2. /\ \A s \in Slots, f \in SlotFields : store'[<<s, f>>] = NoNetwork
      /\ \A k \in {Active, Migrated, LegacySsid, LegacyPassword} : store'[k] = NoNetwork
      /\ store' \in [Keys -> Networks \cup {NoNetwork, "yes", "no", "none"} \cup Slots]
  BY <1>1, EmptyIsEmpty
<1>3. StoreKinds'
  BY <1>2 DEF StoreKinds, SlotKinds, Slots, SlotFields
<1>4. CurrentWhole' /\ InUseKept'
  BY <1>1, <1>2 DEF CurrentWhole, Provisions, NoCredentials, InUseKept, LegacyThere, Slots
<1>5. TargetFilled' /\ MarkersInOrder' /\ FaultsSpent'
  BY <1>1, <1>2, StringsApart DEF CredentialsInv, NoCredentials, TargetFilled, MarkersInOrder, OldMarkers, FaultsSpent,
     RollbackWrites, Slots, AfterMigrate, AfterActivate, AfterValidate, AfterGen, AfterPass, AfterSsid
<1>6. CredentialsTypeOK'
  BY <1>1, <1>2 DEF CredentialsInv, CredentialsTypeOK, NoCredentials
<1>7. QED
  BY <1>1, <1>3, <1>4, <1>5, <1>6 DEF CredentialsInv

(* Where the power may be cut: before the markers, or after the slot's.    *)
LEMMA CutWhere ==
  ASSUME CredentialsInv, PowerMayBeCut
  PROVE  \/ OldMarkers /\ writing \notin {"dropSsid", "dropPassword", "saved"}
         \/ writing \in AfterActivate /\ candidate \in Networks
BY DEF CredentialsInv, CredentialsTypeOK, FaultsSpent, PowerMayBeCut, MarkersInOrder, Writes, CommitWrites,
       RollbackWrites, CleanupWrites, AfterActivate, AfterValidate, AfterGen, AfterPass, AfterSsid

LEMMA ReloadKeeps ==
  ASSUME CredentialsInv, ReloadCredentials
  PROVE  CredentialsInv'
<1>1. /\ PowerMayBeCut /\ current' = LoadedValue(store) /\ writing' = "idle"
      /\ candidate' = NoNetwork /\ faults' = 0 /\ UNCHANGED store
  BY DEF ReloadCredentials
<1>2. CASE OldMarkers /\ writing \notin {"dropSsid", "dropPassword", "saved"}
  BY <1>1, <1>2, LoadsCurrent, IdleAsBefore
<1>3. CASE writing \in AfterActivate
  BY <1>1, <1>3, LoadsCandidate, IdleWithSlot
<1>4. QED
  BY <1>1, <1>2, <1>3, CutWhere

--------------------------------------------------------------------------------
(* The radio and the portal.                                               *)

(* A step that leaves the credentials alone and unlearns no network; a     *)
(* commit keeps its form.                                                  *)
LEMMA ProvenRest ==
  ASSUME ProvenInv, UNCHANGED credentialVars, proven \subseteq proven',
         writing = "idle" \/ pending' = pending
  PROVE  ProvenInv'
BY DEF ProvenInv, credentialVars, Provisions, LegacyProven, LegacyThere

(* Back to the saved network, or nowhere.                                  *)
LEMMA SavedConnection ==
  ASSUME CredentialsInv, RadioInv, InPoll, BeginSavedConnection
  PROVE  \/ /\ phase' = "connecting" /\ timer' = "running" /\ mode' = "sta"
            /\ trying' \in Networks /\ joined' = NoNetwork /\ UNCHANGED provisioned
         \/ /\ phase' = "unprovisioned" /\ timer' = "off" /\ mode' = "off" /\ provisioned' = FALSE
            /\ trying' = NoNetwork /\ joined' = NoNetwork
<1>1. CASE SavedLoads
  <2>1. LoadedValue(store) = current
    BY LoadsCurrent DEF InPoll, CredentialsInv, MarkersInOrder
  <2>2. LoadedValue(store).ssid \in Networks
    BY <1>1, <2>1 DEF SavedLoads, CredentialsInv, CurrentWhole, WholeNetwork
  <2>3. QED
    BY <1>1, <2>2 DEF BeginSavedConnection, Try
<1>2. CASE ~SavedLoads
  BY <1>2 DEF BeginSavedConnection, Unprovision, Off
<1>3. QED
  BY <1>1, <1>2

LEMMA ReturnsToSaved ==
  ASSUME CredentialsInv, RadioInv, InPoll, CleanupTransport, ReturnToSaved,
         UNCHANGED <<prompt, air, proven, replayed>>, upsets' \in 0..MaxUpsets
  PROVE  RadioInv'
<1>1. \/ /\ phase' = "connecting" /\ timer' = "running" /\ mode' = "sta"
         /\ trying' \in Networks /\ joined' = NoNetwork /\ provisioned' = TRUE
      \/ /\ phase' = "unprovisioned" /\ timer' = "off" /\ mode' = "off" /\ provisioned' = FALSE
         /\ trying' = NoNetwork /\ joined' = NoNetwork
  <2>1. CASE provisioned = TRUE
    BY <2>1, SavedConnection DEF ReturnToSaved
  <2>2. CASE provisioned = FALSE
    BY <2>2 DEF ReturnToSaved, Unprovision, Off
  <2>3. QED
    BY <2>1, <2>2 DEF RadioInv, RadioTypes
<1>2. portal' = FALSE /\ setup' = "off" /\ pending' = NoNetwork /\ page' = FALSE /\ reused' = FALSE
  BY DEF CleanupTransport
<1>3. RadioTypes'
  BY <1>1, <1>2 DEF RadioInv, RadioTypes, Phases
<1>4. QED
  BY <1>1, <1>2, <1>3, WifiAssumption DEF RadioInv, AlwaysAWayOn, RadioTypes

LEMMA CancelKeeps ==
  ASSUME WifiInv, InPoll, CancelProvisioning
  PROVE  WifiInv'
<1>1. CredentialsInv'
  BY CredentialsRest DEF WifiInv, CancelProvisioning
<1>2. ProvenInv'
  BY ProvenRest DEF WifiInv, CancelProvisioning, InPoll
<1>3. RadioInv'
  BY ReturnsToSaved DEF WifiInv, CancelProvisioning, worldVars, RadioInv, RadioTypes
<1>4. QED
  BY <1>1, <1>2, <1>3 DEF WifiInv

LEMMA StartKeeps ==
  ASSUME WifiInv, StartProvisioning
  PROVE  WifiInv'
<1>1. CredentialsInv'
  BY CredentialsRest DEF WifiInv, StartProvisioning
<1>2. ProvenInv'
  BY ProvenRest DEF WifiInv, StartProvisioning, InPoll
<1>3. ASSUME phase' = "provisioning", timer' = "off", setup' = "running", portal' = TRUE,
             mode' = "apsta", trying' = NoNetwork, joined' = NoNetwork, FreshNonce,
             UNCHANGED <<provisioned, pending, upsets>>
      PROVE  RadioInv'
  BY <1>3, WifiAssumption DEF WifiInv, StartProvisioning, RadioInv, RadioTypes, AlwaysAWayOn, Phases, FreshNonce, InPoll
<1>4. ASSUME upsets < MaxUpsets, upsets' = upsets + 1, CleanupTransport, ReturnToSaved
      PROVE  RadioInv'
  <2>1. upsets' \in 0..MaxUpsets
    BY <1>4, FormAssumption DEF WifiInv, RadioInv, RadioTypes
  <2>2. InPoll /\ UNCHANGED <<prompt, air, proven, replayed>>
    BY DEF StartProvisioning
  <2>3. QED
    BY <1>4, <2>1, <2>2, ReturnsToSaved DEF WifiInv
<1>5. QED
  BY <1>1, <1>2, <1>3, <1>4 DEF WifiInv, StartProvisioning

LEMMA ForgetAllKeeps ==
  ASSUME WifiInv, Forget
  PROVE  WifiInv'
<1>1. CredentialsInv'
  BY ForgetKeeps DEF WifiInv, Forget
<1>2. ProvenInv'
  BY EmptyIsEmpty DEF WifiInv, ProvenInv, Forget, ForgetCredentials, Provisions, NoCredentials, LegacyProven, LegacyThere
<1>3. RadioInv'
  BY WifiAssumption DEF WifiInv, Forget, CleanupTransport, Unprovision, Off, worldVars, RadioInv, RadioTypes,
     AlwaysAWayOn, Phases
<1>4. QED
  BY <1>1, <1>2, <1>3 DEF WifiInv

(* Steps that leave the credentials and what is proven alone.              *)
LEMMA PortalStepKeeps ==
  ASSUME WifiInv, PageServed \/ (\E n \in FormNetworks : FormPosted(n)) \/ PollPaused
                  \/ PollAttemptOver \/ PollLost
  PROVE  WifiInv'
<1>1. UNCHANGED credentialVars /\ proven' = proven /\ InPoll
  BY DEF PageServed, FormPosted, PollPaused, PollAttemptOver, PollLost, Polling
<1>2. CredentialsInv' /\ ProvenInv'
  BY <1>1, CredentialsRest, ProvenRest DEF WifiInv, InPoll
<1>3. RadioInv'
  <2> USE WifiAssumption, FormAssumption
  <2>1. CASE PageServed
    BY <2>1 DEF PageServed, WifiInv, Polling, InPoll, credentialVars, RadioInv, RadioTypes, AlwaysAWayOn, managerVars, radioVars, worldVars
  <2>2. CASE \E n \in FormNetworks : FormPosted(n)
    <3>1. PICK n \in FormNetworks : FormPosted(n)
      BY <2>2
    <3>2. replayed' = FALSE
      BY <3>1 DEF FormPosted, WifiInv, RadioInv
    <3>3. QED
      BY <3>1, <3>2 DEF FormPosted, Try, FreshNonce, WifiInv, Polling, InPoll, credentialVars, RadioInv, RadioTypes, AlwaysAWayOn, worldVars, Phases
  <2>3. CASE PollPaused
    BY <2>3 DEF PollPaused, Paused, ConnectFailed, WifiInv, Polling, InPoll, credentialVars, RadioInv, RadioTypes, AlwaysAWayOn, formVars, worldVars, Phases
  <2>4. CASE PollAttemptOver
    BY <2>4 DEF PollAttemptOver, ConnectFailed, WifiInv, Polling, InPoll, credentialVars, RadioInv, RadioTypes, AlwaysAWayOn, formVars, worldVars, Phases
  <2>5. CASE PollLost
    BY <2>5 DEF PollLost, ConnectFailed, WifiInv, Polling, InPoll, credentialVars, RadioInv, RadioTypes, AlwaysAWayOn, formVars, radioVars, worldVars, Phases
  <2>6. QED
    BY <2>1, <2>2, <2>3, <2>4, <2>5
<1>4. QED
  BY <1>2, <1>3 DEF WifiInv

LEMMA ConnectedKeeps ==
  ASSUME WifiInv, PollConnected
  PROVE  WifiInv'
<1>1. InPoll /\ phase = "connecting" /\ joined # NoNetwork /\ UNCHANGED <<air, prompt, upsets, proven>>
  BY DEF PollConnected, Polling, Connects, worldVars
<1>2. CASE pending # NoNetwork
  <2>1. BeginCommit(pending) /\ UNCHANGED <<managerVars, formVars, radioVars>>
    BY <1>2 DEF PollConnected
  <2>2. pending \in Networks /\ pending \in proven
    BY <1>1, <1>2 DEF WifiInv, RadioInv, RadioTypes
  <2>3. CredentialsInv'
    BY <2>1, <2>2, BeginKeeps DEF WifiInv
  <2>4. RadioInv'
    BY <1>1, <2>1 DEF WifiInv, RadioInv, RadioTypes, AlwaysAWayOn, InPoll, managerVars, formVars, radioVars, BeginCommit
  <2>5. ProvenInv'
    BY <1>1, <2>1, <2>2 DEF WifiInv, ProvenInv, BeginCommit, managerVars, Provisions, LegacyProven, LegacyThere
  <2>6. QED
    BY <2>3, <2>4, <2>5 DEF WifiInv
<1>3. CASE pending = NoNetwork
  <2>1. ConnectSucceeded /\ UNCHANGED <<credentialVars, replayed>>
    BY <1>3 DEF PollConnected
  <2>2. CredentialsInv' /\ ProvenInv'
    BY <1>1, <2>1, CredentialsRest, ProvenRest DEF WifiInv, InPoll
  <2>3. RadioInv'
    BY <1>1, <2>1, WifiAssumption DEF WifiInv, RadioInv, RadioTypes, AlwaysAWayOn, ConnectSucceeded, CleanupTransport, Phases
  <2>4. QED
    BY <2>2, <2>3 DEF WifiInv
<1>4. QED
  BY <1>2, <1>3

(* The old keys are only ever erased.                                      *)
LEMMA LegacyOnlyErased ==
  ASSUME CredentialsInv, WriteTakes \/ WriteFails
  PROVE  \A k \in {LegacySsid, LegacyPassword} : store'[k] \in {store[k], NoNetwork}
<1>1. store' = store \/ store' = Written
  BY DEF WriteTakes, WriteFails
<1>2. store \in [Keys -> Networks \cup {NoNetwork, "yes", "no", "none"} \cup Slots] /\ TargetSlot \in Slots
      /\ writing \in Writes
  BY Target DEF WriteTakes, WriteFails, CredentialsInv, StoreKinds
<1>3. CASE writing \in CleanupWrites
  BY <1>1, <1>2, <1>3, WriteKeys, KeysAre DEF Written, CleanupWrites
<1>4. CASE writing \notin CleanupWrites
  <2>1. KeyOf(writing) \notin {LegacySsid, LegacyPassword}
    BY <1>2, <1>4, WriteKeys, KeysAre DEF Writes, CommitWrites, RollbackWrites, SlotFields
  <2>2. QED
    BY <1>1, <1>2, <2>1, KeysAre DEF Written
<1>5. QED
  BY <1>3, <1>4

LEMMA WriteStepKeeps ==
  ASSUME MaxFaults \in {0, 1}, WifiInv, WriteStep
  PROVE  WifiInv'
<1>1. /\ WriteTakes \/ WriteFails
      /\ UNCHANGED <<managerVars, formVars, radioVars, worldVars, proven, current, candidate>>
  BY DEF WriteStep, WriteTakes, WriteFails
<1>2. CredentialsInv'
  BY <1>1, TakesKeeps, FailsKeeps DEF WifiInv
<1>3. writing \in Writes /\ writing' # "idle" /\ writing # "idle"
  BY <1>1 DEF WriteTakes, WriteFails, Writes, CommitWrites, RollbackWrites, CleanupWrites, Successor
<1>4. RadioInv'
  BY <1>1, <1>3 DEF WifiInv, RadioInv, RadioTypes, AlwaysAWayOn, InPoll, managerVars, formVars, radioVars, worldVars
<1>5. ProvenInv'
  BY <1>1, <1>3, LegacyOnlyErased DEF WifiInv, ProvenInv, managerVars, Provisions, LegacyProven, LegacyThere
<1>6. QED
  BY <1>2, <1>4, <1>5 DEF WifiInv

LEMMA CommittedKeeps ==
  ASSUME WifiInv, PollCommitted
  PROVE  WifiInv'
<1>1. /\ EndCommit /\ UNCHANGED <<replayed, air, prompt, upsets, proven>>
      /\ writing \in {"saved", "failed"} /\ writing' = "idle" /\ store' = store
      /\ candidate \in proven /\ pending = candidate /\ candidate \in Networks /\ pending # NoNetwork
  BY WifiAssumption DEF PollCommitted, EndCommit, worldVars, WifiInv, ProvenInv, CredentialsInv
<1>2. CredentialsInv'
  BY <1>1, EndKeeps DEF WifiInv
<1>3. portal = TRUE /\ phase = "connecting"
  BY <1>1 DEF WifiInv, RadioInv, RadioTypes, AlwaysAWayOn
<1>4. CASE writing = "saved"
  <2>1. ConnectSucceeded /\ current' = [slot |-> TargetSlot, ssid |-> candidate, pass |-> candidate]
    BY <1>4 DEF PollCommitted, EndCommit
  <2>2. RadioInv'
    BY <1>1, <2>1, WifiAssumption DEF WifiInv, RadioInv, RadioTypes, AlwaysAWayOn, ConnectSucceeded, CleanupTransport, Phases
  <2>3. ProvenInv'
    BY <1>1, <2>1 DEF WifiInv, ProvenInv, LegacyProven, LegacyThere
  <2>4. QED
    BY <1>2, <2>2, <2>3 DEF WifiInv
<1>5. CASE writing = "failed"
  <2>1. /\ ConnectFailed /\ pending' = NoNetwork /\ current' = current
        /\ UNCHANGED <<portal, setup, page, reused, radioVars>>
    BY <1>5 DEF PollCommitted, EndCommit
  <2>2. RadioInv'
    BY <1>1, <1>3, <2>1, WifiAssumption DEF WifiInv, RadioInv, RadioTypes, AlwaysAWayOn, ConnectFailed, radioVars, Phases
  <2>3. ProvenInv'
    BY <1>1, <2>1 DEF WifiInv, ProvenInv, Provisions, LegacyProven, LegacyThere
  <2>4. QED
    BY <1>2, <2>2, <2>3 DEF WifiInv
<1>6. QED
  BY <1>1, <1>4, <1>5

LEMMA RetriesKeep ==
  ASSUME WifiInv, PollRetries
  PROVE  WifiInv'
<1>1. /\ InPoll /\ ~portal /\ provisioned = TRUE /\ BeginSavedConnection
      /\ UNCHANGED <<credentialVars, portal, setup, pending, formVars, worldVars, proven>>
  BY DEF PollRetries, Polling, WifiInv, RadioInv, RadioTypes
<1>2. CredentialsInv' /\ ProvenInv'
  BY <1>1, CredentialsRest, ProvenRest DEF WifiInv, InPoll
<1>3. \/ /\ phase' = "connecting" /\ timer' = "running" /\ mode' = "sta"
         /\ trying' \in Networks /\ joined' = NoNetwork /\ provisioned' = TRUE
      \/ /\ phase' = "unprovisioned" /\ timer' = "off" /\ mode' = "off" /\ provisioned' = FALSE
         /\ trying' = NoNetwork /\ joined' = NoNetwork
  BY <1>1, SavedConnection DEF WifiInv
<1>4. RadioInv'
  BY <1>1, <1>3, WifiAssumption DEF WifiInv, RadioInv, RadioTypes, AlwaysAWayOn, formVars, worldVars, Phases
<1>5. QED
  BY <1>2, <1>4 DEF WifiInv

LEMMA WorldKeeps ==
  ASSUME WifiInv, Elapse \/ Join \/ Lose \/ WorldChanges
  PROVE  WifiInv'
<1>1. UNCHANGED <<credentialVars, pending>> /\ proven \subseteq proven'
  BY DEF Elapse, Join, Lose, WorldChanges, managerVars
<1>2. CredentialsInv' /\ ProvenInv'
  BY <1>1, CredentialsRest, ProvenRest DEF WifiInv
<1>3. RadioInv'
  <2> USE WifiAssumption DEF WifiInv, RadioInv, RadioTypes, AlwaysAWayOn, InPoll, credentialVars, managerVars, formVars,
          radioVars, worldVars
  <2>1. CASE Elapse
    BY <2>1 DEF Elapse
  <2>2. CASE Join
    BY <2>2 DEF Join
  <2>3. CASE Lose
    BY <2>3 DEF Lose
  <2>4. CASE WorldChanges
    <3>1. air' \in BOOLEAN /\ prompt' \in BOOLEAN
      BY <2>4 DEF WorldChanges
    <3>2. UNCHANGED <<credentialVars, managerVars, formVars, radioVars, upsets, proven>>
      BY <2>4 DEF WorldChanges
    <3>3. QED
      BY <3>1, <3>2
  <2>5. QED
    BY <2>1, <2>2, <2>3, <2>4
<1>4. QED
  BY <1>2, <1>3 DEF WifiInv

LEMMA RestartKeeps ==
  ASSUME WifiInv, Restart
  PROVE  WifiInv'
<1>1. /\ ReloadCredentials /\ current' = LoadedValue(store) /\ store' = store /\ writing' = "idle"
      /\ upsets < MaxUpsets /\ upsets' = upsets + 1
      /\ portal' = FALSE /\ setup' = "off" /\ pending' = NoNetwork /\ page' = FALSE /\ reused' = FALSE
      /\ UNCHANGED <<replayed, air, prompt, proven>>
  BY DEF Restart, ReloadCredentials, FreshNonce
<1>2. CredentialsInv'
  BY <1>1, ReloadKeeps DEF WifiInv
<1>3. ProvenInv'
  <2>1. Provisions(current') => current'.ssid \in proven
    BY <1>1, LoadedFrom DEF WifiInv, ProvenInv, LegacyProven
  <2>2. QED
    BY <1>1, <2>1 DEF WifiInv, ProvenInv, LegacyProven, LegacyThere, Provisions
<1>4. upsets' \in 0..MaxUpsets
  BY <1>1, FormAssumption DEF WifiInv, RadioInv, RadioTypes
<1>5. CASE Provisions(current')
  <2>1. /\ current'.ssid \in Networks /\ provisioned' = TRUE /\ phase' = "connecting" /\ timer' = "running"
        /\ trying' = current'.ssid /\ joined' = NoNetwork /\ mode' = "sta"
    BY <1>2, <1>5 DEF Restart, Try, CredentialsInv, CurrentWhole, WholeNetwork, Provisions
  <2>2. RadioInv'
    BY <1>1, <1>4, <2>1, WifiAssumption DEF WifiInv, RadioInv, RadioTypes, AlwaysAWayOn, Phases
  <2>3. QED
    BY <1>2, <1>3, <2>2 DEF WifiInv
<1>6. CASE ~Provisions(current')
  <2>1. /\ provisioned' = FALSE /\ phase' = "unprovisioned" /\ timer' = "off"
        /\ mode' = "off" /\ trying' = NoNetwork /\ joined' = NoNetwork
    BY <1>6 DEF Restart, Off, Provisions
  <2>2. RadioInv'
    BY <1>1, <1>4, <2>1, WifiAssumption DEF WifiInv, RadioInv, RadioTypes, AlwaysAWayOn, Phases
  <2>3. QED
    BY <1>2, <1>3, <2>2 DEF WifiInv
<1>7. QED
  BY <1>5, <1>6

LEMMA CredentialsStart ==
  ASSUME CredentialsInit
  PROVE  CredentialsInv /\ (LegacyThere => current.ssid = store[LegacySsid])
<1>1. writing = "idle" /\ candidate = NoNetwork /\ faults = 0 /\ current = LoadedValue(store)
  BY DEF CredentialsInit
<1>2. TargetFilled /\ FaultsSpent
  BY <1>1 DEF TargetFilled, FaultsSpent, RollbackWrites, AfterValidate, AfterGen, AfterPass, AfterSsid
<1> SUFFICES /\ store \in [Keys -> Networks \cup {NoNetwork, "yes", "no", "none"} \cup Slots]
             /\ StoreKinds /\ CurrentWhole /\ InUseKept /\ OldMarkers
             /\ current \in [slot : Slots \cup {"legacy", "none"},
                             ssid : Networks \cup {NoNetwork}, pass : Networks \cup {NoNetwork}]
             /\ (LegacyThere => current.ssid = store[LegacySsid])
  BY <1>1, <1>2, WifiAssumption DEF CredentialsInv, CredentialsTypeOK, MarkersInOrder, AfterMigrate,
     AfterActivate, AfterValidate, AfterGen, AfterPass, AfterSsid
<1>3. CASE store = EmptyStore
  <2>1. /\ store \in [Keys -> Networks \cup {NoNetwork, "yes", "no", "none"} \cup Slots]
        /\ \A s \in Slots, f \in SlotFields : store[<<s, f>>] = NoNetwork
        /\ \A k \in {Active, Migrated, LegacySsid, LegacyPassword} : store[k] = NoNetwork
    BY <1>3, EmptyIsEmpty
  <2>2. current = NoCredentials /\ NoNetwork \notin Slots /\ NoNetwork # "yes"
    BY <1>1, <2>1, StringsApart DEF LoadedValue, Slots
  <2>3. QED
    BY <1>1, <2>1, <2>2 DEF StoreKinds, SlotKinds, Slots, SlotFields, CurrentWhole, Provisions, NoCredentials,
       InUseKept, LegacyThere, OldMarkers
<1>4. CASE \E n \in Networks : store = SlotStore(n)
  <2>1. PICK n \in Networks : store = SlotStore(n)
    BY <1>4
  <2>2. \A k \in Keys : store[k] =
           CASE k \in {<<"s0", "ssid">>, <<"s0", "pass">>, <<"s0", "gen">>} -> n
             [] k \in {<<"s0", "valid">>, Migrated} -> "yes"
             [] k = Active -> "s0"
             [] OTHER -> NoNetwork
    BY <2>1 DEF SlotStore
  <2>3. store \in [Keys -> Networks \cup {NoNetwork, "yes", "no", "none"} \cup Slots]
    BY <2>1 DEF SlotStore, Slots
  <2>4. /\ store[<<"s0", "valid">>] = "yes" /\ SlotHolds("s0", n)
        /\ \A f \in SlotFields : store[<<"s1", f>>] = NoNetwork
        /\ store[Active] = "s0" /\ store[Migrated] = "yes"
        /\ store[LegacySsid] = NoNetwork /\ store[LegacyPassword] = NoNetwork
    BY <2>2, KeysAre DEF SlotHolds, Slots, SlotFields, Active, Migrated, LegacySsid, LegacyPassword
  <2>5. current = [slot |-> "s0", ssid |-> n, pass |-> n]
    BY <1>1, <2>4, StringsApart DEF LoadedValue, SlotLoads, SlotHolds, Slots
  <2>6. QED
    BY <1>1, <2>3, <2>4, <2>5 DEF StoreKinds, SlotKinds, SlotHolds, Slots, SlotFields, CurrentWhole, Provisions,
       WholeNetwork, InUseKept, LegacyThere, OldMarkers
<1>5. CASE \E n \in Networks : store = LegacyStore(n)
  <2>1. PICK n \in Networks : store = LegacyStore(n)
    BY <1>5
  <2>2. store \in [Keys -> Networks \cup {NoNetwork, "yes", "no", "none"} \cup Slots]
    BY <2>1 DEF LegacyStore
  <2>3. /\ \A s \in Slots, f \in SlotFields : store[<<s, f>>] = NoNetwork
        /\ store[Active] = NoNetwork /\ store[Migrated] = NoNetwork
        /\ store[LegacySsid] = n /\ store[LegacyPassword] = n
    BY <2>1, KeysAre DEF LegacyStore
  <2>4. current = [slot |-> "legacy", ssid |-> n, pass |-> n] /\ NoNetwork \notin Slots /\ NoNetwork # "yes"
    BY <1>1, <2>3, StringsApart DEF LoadedValue, MayUseLegacy, Slots
  <2>5. QED
    BY <1>1, <2>1, <2>2, <2>3, <2>4 DEF StoreKinds, SlotKinds, Slots, SlotFields, CurrentWhole, Provisions,
       WholeNetwork, InUseKept, LegacyThere, OldMarkers
<1>6. QED
  BY <1>3, <1>4, <1>5 DEF CredentialsInit

LEMMA WifiStarts == WifiInit => WifiInv
<1> SUFFICES ASSUME WifiInit PROVE WifiInv
  OBVIOUS
<1>1. CredentialsInv /\ (LegacyThere => current.ssid = store[LegacySsid])
  BY CredentialsStart DEF WifiInit
<1>2. ProvenInv
  BY <1>1 DEF WifiInit, ProvenInv, CredentialsInv, CurrentWhole, WholeNetwork, Provisions, LegacyProven, LegacyThere,
     CredentialsInit, StoreKinds
<1>3. RadioInv
  <2>0. /\ portal = FALSE /\ setup = "off" /\ pending = NoNetwork
        /\ page = FALSE /\ reused = FALSE /\ replayed = FALSE
        /\ trying = current.ssid /\ joined = NoNetwork
        /\ air = TRUE /\ prompt = FALSE /\ upsets = 0
        /\ proven = {current.ssid} \cap Networks
    BY DEF WifiInit
  <2>1. CASE Provisions(current)
    <3>1. provisioned = TRUE /\ phase = "connecting" /\ timer = "running" /\ mode = "sta"
      BY <2>1 DEF WifiInit
    <3>2. current.ssid \in Networks
      BY <1>1, <2>1 DEF CredentialsInv, CurrentWhole, WholeNetwork
    <3>3. RadioTypes
      <4>1. {provisioned, portal, page, prompt, air} \subseteq BOOLEAN
        BY <2>0, <3>1
      <4>2. proven \subseteq Networks /\ upsets \in 0..MaxUpsets
        BY <2>0, FormAssumption
      <4>3. QED
        BY <2>0, <3>1, <3>2, <4>1, <4>2 DEF RadioTypes, Phases
    <3>4. AlwaysAWayOn
      BY <2>0, <3>1, <3>2, WifiAssumption DEF AlwaysAWayOn
    <3>5. QED
      BY <2>0, <3>1, <3>3, <3>4 DEF RadioInv
  <2>2. CASE ~Provisions(current)
    <3>1. provisioned = FALSE /\ phase = "unprovisioned" /\ timer = "off" /\ mode = "off"
      BY <2>2 DEF WifiInit
    <3>2. current.ssid = NoNetwork
      BY <1>1, <2>2 DEF CredentialsInv, CurrentWhole, NoCredentials
    <3>3. RadioTypes
      <4>1. {provisioned, portal, page, prompt, air} \subseteq BOOLEAN
        BY <2>0, <3>1
      <4>2. proven \subseteq Networks /\ upsets \in 0..MaxUpsets
        BY <2>0, FormAssumption
      <4>3. QED
        BY <2>0, <3>1, <3>2, <4>1, <4>2 DEF RadioTypes, Phases
    <3>4. AlwaysAWayOn
      BY <2>0, <3>1, <3>2, WifiAssumption DEF AlwaysAWayOn
    <3>5. QED
      BY <2>0, <3>1, <3>3, <3>4 DEF RadioInv
  <2>3. QED
    BY <2>1, <2>2
<1>4. QED
  BY <1>1, <1>2, <1>3 DEF WifiInv

LEMMA WifiStays ==
  ASSUME MaxFaults \in {0, 1}, WifiInv, [WifiNext]_wifiVars
  PROVE  WifiInv'
<1>1. CASE StartProvisioning
  BY <1>1, StartKeeps
<1>2. CASE UserCancels \/ PollSetupOver
  BY <1>2, CancelKeeps DEF UserCancels, PollSetupOver
<1>3. CASE Forget
  BY <1>3, ForgetAllKeeps
<1>4. CASE PageServed \/ (\E n \in FormNetworks : FormPosted(n)) \/ PollPaused \/ PollAttemptOver \/ PollLost
  BY <1>4, PortalStepKeeps
<1>5. CASE PollConnected
  BY <1>5, ConnectedKeeps
<1>6. CASE PollCommitted
  BY <1>6, CommittedKeeps
<1>7. CASE PollRetries
  BY <1>7, RetriesKeep
<1>8. CASE WriteStep
  BY <1>8, WriteStepKeeps
<1>9. CASE Elapse \/ Join \/ Lose \/ WorldChanges
  BY <1>9, WorldKeeps
<1>10. CASE Restart
  BY <1>10, RestartKeeps
<1>11. CASE UNCHANGED wifiVars
  <2>1. CredentialsInv' /\ ProvenInv'
    BY <1>11, CredentialsRest, ProvenRest DEF wifiVars, WifiInv, managerVars
  <2>2. RadioInv'
    BY <1>11 DEF wifiVars, WifiInv, managerVars, credentialVars, formVars, radioVars, worldVars, RadioInv, RadioTypes, AlwaysAWayOn, InPoll
  <2>3. QED
    BY <2>1, <2>2 DEF WifiInv
<1>12. QED
  BY <1>1, <1>2, <1>3, <1>4, <1>5, <1>6, <1>7, <1>8, <1>9, <1>10, <1>11 DEF WifiNext, Poll

LEMMA WifiSays == WifiInv => WifiKeepsItsWord
<1> SUFFICES ASSUME WifiInv PROVE WifiKeepsItsWord
  OBVIOUS
<1>1. CredentialsSurvive /\ FlashAgrees
  BY CredentialsPromise DEF WifiInv
<1>2. SavedOnlyIfProven
  BY LoadedFrom DEF WifiInv, ProvenInv, LegacyProven, SavedOnlyIfProven
<1>3. QED
  BY <1>1, <1>2 DEF WifiInv, RadioInv, WifiKeepsItsWord, FormAcceptedOnce

LEMMA WifiTyped == WifiInv => WifiTypeOK
BY DEF WifiInv, CredentialsInv, RadioInv, RadioTypes, WifiTypeOK

(* The saved credentials survive every commit, cut off or failing where it *)
(* may; nothing is saved that the device was not on; the manager always    *)
(* has a way on; a form is accepted once (wifiCredentialCommit,            *)
(* wifiManagerPoll).  One fault a commit is what two slots bear.           *)
THEOREM WifiWordKept ==
  ASSUME MaxFaults \in {0, 1}
  PROVE  WifiSpec => []WifiKeepsItsWord
<1>1. WifiInv /\ [WifiNext]_wifiVars => WifiInv'
  BY WifiStays
<1>2. QED
  BY <1>1, WifiSays, WifiStarts, PTL DEF WifiSpec

(* Every variable of the Wi-Fi manager stays in its range.                 *)
THEOREM WifiTypes ==
  ASSUME MaxFaults \in {0, 1}
  PROVE  WifiSpec => []WifiTypeOK
<1>1. WifiInv /\ [WifiNext]_wifiVars => WifiInv'
  BY WifiStays
<1>2. QED
  BY <1>1, WifiTyped, WifiStarts, PTL DEF WifiSpec
===============================================================================
