----------------------------- MODULE DeviceStats -----------------------------
(***************************************************************************)
(* What the pet has lived through (stats.h): the tokens that feed it, its   *)
(* level, and the answers that set its mood, kept in RAM and saved to NVS   *)
(* key by key.  The bridge reports the tokens it has counted since it       *)
(* started; the device adds the differences.  Power may fail at any moment, *)
(* also between two keys of a save, and the bridge may restart.             *)
(***************************************************************************)
EXTENDS Integers

CONSTANTS
  PerLevel,      \* TOKENS_PER_LEVEL
  Levels,        \* the values of a level: 2^8, for the stored uint8_t
  MaxTokens,     \* bound on the tokens all bridges together count
  MaxPowerCuts        \* bound on the power cuts and bridge restarts

ASSUMPTION StatsAssumption ==
  /\ {PerLevel, Levels} \subseteq Nat \ {0} /\ {MaxTokens, MaxPowerCuts} \subseteq Nat

VARIABLES
  stats,       \* approvals, denials, level and tokens in RAM
  nvs,         \* the same four keys as they are saved
  latch,       \* _tokensSynced and _lastBridgeTokens
  levelUp,     \* _levelUpPending
  bridge,      \* the total the bridge running now has counted
  produced,    \* the tokens of all bridges so far
  torn,        \* a save was cut between two keys
  powerCuts

statsVars == <<stats, nvs, latch, levelUp, bridge, produced, torn, powerCuts>>

FreshStats == [appr |-> 0, deny |-> 0, lvl |-> 0, tok |-> 0]
\* For comparison: a restart that takes the first total for new tokens.
SyncedAtZero == [synced |-> TRUE, last |-> 0]
Unsynced == [synced |-> FALSE, last |-> 0]
LevelOf(tokens) == (tokens \div PerLevel) % Levels

(* statsLoad: tokens are filled in from a level that has none. *)
Loaded(saved) ==
  IF saved.tok = 0 /\ saved.lvl > 0 THEN [saved EXCEPT !.tok = saved.lvl * PerLevel]
  ELSE saved

StatsInit ==
  /\ stats = FreshStats /\ nvs = FreshStats /\ latch = Unsynced /\ levelUp = FALSE
  /\ bridge = 0 /\ produced = 0 /\ torn = FALSE /\ powerCuts = 0

(* statsSave writes the keys in this order; the cut comes after k of them. *)
Order == [appr |-> 1, deny |-> 2, lvl |-> 3, tok |-> 4]
WrittenUpTo(k, new) == [key \in DOMAIN Order |-> IF Order[key] <= k THEN new[key] ELSE nvs[key]]

Reboot(saved) ==
  /\ stats' = Loaded(saved) /\ latch' = Unsynced /\ levelUp' = FALSE

Saved(new, up, after) ==
  \/ /\ stats' = new /\ nvs' = new /\ levelUp' = up /\ latch' = after
     /\ UNCHANGED <<torn, powerCuts>>
  \/ /\ powerCuts < MaxPowerCuts /\ powerCuts' = powerCuts + 1
     /\ \E k \in 0..3 : nvs' = WrittenUpTo(k, new)
     /\ torn' = (torn \/ nvs' \notin {nvs, new})
     /\ Reboot(nvs')

\* An answered approval or denial is saved at once, and so is the end of a nap.
Answer(key) ==
  /\ stats[key] < 1
  /\ Saved([stats EXCEPT ![key] = @ + 1], levelUp, latch)
  /\ UNCHANGED <<bridge, produced>>

BridgeCounts(n) ==
  /\ produced + n <= MaxTokens
  /\ bridge' = bridge + n /\ produced' = produced + n
  /\ UNCHANGED <<stats, nvs, latch, levelUp, torn, powerCuts>>

\* The first total and a total that dropped only move the latch.
Resync ==
  /\ \/ ~latch.synced
     \/ bridge < latch.last
  /\ latch' = [synced |-> TRUE, last |-> bridge]
  /\ UNCHANGED <<stats, nvs, levelUp, bridge, produced, torn, powerCuts>>

\* A new level is saved; tokens below it stay in RAM.
Credit ==
  /\ latch.synced /\ bridge > latch.last
  /\ LET tokens == stats.tok + (bridge - latch.last)
         after == [latch EXCEPT !.last = bridge]
         fed == [stats EXCEPT !.tok = tokens]
     IN  IF LevelOf(tokens) > LevelOf(stats.tok)
         THEN Saved([fed EXCEPT !.lvl = LevelOf(tokens)], TRUE, after)
         ELSE /\ stats' = fed /\ latch' = after
              /\ UNCHANGED <<nvs, levelUp, torn, powerCuts>>
  /\ UNCHANGED <<bridge, produced>>

Celebrate ==
  /\ levelUp /\ levelUp' = FALSE
  /\ UNCHANGED <<stats, nvs, latch, bridge, produced, torn, powerCuts>>

PowerFails ==
  /\ powerCuts < MaxPowerCuts /\ powerCuts' = powerCuts + 1 /\ Reboot(nvs)
  /\ UNCHANGED <<nvs, bridge, produced, torn>>

BridgeRestarts ==
  /\ powerCuts < MaxPowerCuts /\ powerCuts' = powerCuts + 1 /\ bridge' = 0
  /\ UNCHANGED <<stats, nvs, latch, levelUp, produced, torn>>

StatsNext ==
  \/ \E key \in {"appr", "deny"} : Answer(key)
  \/ \E n \in 1..PerLevel + 1 : BridgeCounts(n)
  \/ Resync \/ Credit \/ Celebrate \/ PowerFails \/ BridgeRestarts

StatsSpec == StatsInit /\ [][StatsNext]_statsVars

(***************************************************************************)
(* Properties.                                                             *)
(***************************************************************************)

StatsTypeOK ==
  /\ \A s \in {stats, nvs} : /\ {s.appr, s.deny} \subseteq 0..1
                             /\ s.lvl \in 0..Levels - 1 /\ s.tok \in Nat
  /\ latch.synced \in BOOLEAN /\ latch.last \in 0..MaxTokens
  /\ {bridge, produced} \subseteq 0..MaxTokens /\ {levelUp, torn} \subseteq BOOLEAN

\* Tokens are never credited twice: across reboots of the device, restarts of
\* the bridge and saves cut in the middle, the pet has eaten no more than the
\* bridges ever counted (the latch of statsOnBridgeTokens, the backfill of
\* statsLoad).
NothingCreditedTwice == stats.tok <= produced /\ nvs.tok <= produced

\* A power cut costs less than a level ("lose up to 50K tokens of progress"),
\* as long as the level fits its byte and no save was cut short.
AtMostALevelLost ==
  ~torn /\ stats.tok < Levels * PerLevel => stats.tok - Loaded(nvs).tok < PerLevel

\* The level shown is the one the tokens give, under the same conditions: the
\* stored level and the stored tokens do not drift apart.
LevelFollowsTokens ==
  ~torn /\ stats.tok < Levels * PerLevel => stats.lvl = LevelOf(stats.tok)
================================================================================
