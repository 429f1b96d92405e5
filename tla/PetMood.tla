------------------------------- MODULE PetMood -------------------------------
(***************************************************************************)
(* How the pet feels (stats.h): its mood comes from the median time of the  *)
(* last approvals, kept in a ring, and from the share of denials; its       *)
(* energy from the hours since its last nap.                                *)
(***************************************************************************)
EXTENDS Integers, SequencesExt

CONSTANTS
  Slots,      \* the slots of the ring: 8
  Times,       \* the answer times tried, in seconds
  MaxAnswers,  \* bound on the answers of a behaviour
  MaxHours     \* bound on the hours the device stays up

ASSUMPTION MoodAssumption ==
  /\ Slots \in Nat \ {0}
  /\ \A t \in Times : t \in Nat /\ t <= 65535
  /\ {MaxAnswers, MaxHours} \subseteq Nat

VARIABLES velocity, velIdx, velCount, approvals, denials,
          hours,      \* since the last nap, or since the start of the device
          atNap,      \* _energyAtNap
          answerTimes    \* the times of all approvals, in order

moodVars == <<velocity, velIdx, velCount, approvals, denials, hours, atNap, answerTimes>>

\* The ring's slots are numbered from 0.
MoodInit ==
  /\ velocity = [i \in 0..Slots - 1 |-> 0] /\ velIdx = 0 /\ velCount = 0
  /\ approvals = 0 /\ denials = 0 /\ hours = 0 /\ atNap = 3 /\ answerTimes = <<>>

Approved(t) ==
  /\ approvals + denials < MaxAnswers
  /\ approvals' = approvals + 1 /\ answerTimes' = Append(answerTimes, t)
  /\ velocity' = [velocity EXCEPT ![velIdx] = t]
  /\ velIdx' = (velIdx + 1) % Slots
  /\ velCount' = Min({velCount + 1, Slots})
  /\ UNCHANGED <<denials, hours, atNap>>

Denied ==
  /\ approvals + denials < MaxAnswers
  /\ denials' = denials + 1
  /\ UNCHANGED <<velocity, velIdx, velCount, approvals, hours, atNap, answerTimes>>

HourPasses ==
  /\ hours < MaxHours /\ hours' = hours + 1
  /\ UNCHANGED <<velocity, velIdx, velCount, approvals, denials, atNap, answerTimes>>

NapEnds ==
  /\ hours' = 0 /\ atNap' = 5
  /\ UNCHANGED <<velocity, velIdx, velCount, approvals, denials, answerTimes>>

MoodNext == (\E t \in Times : Approved(t)) \/ Denied \/ HourPasses \/ NapEnds
MoodSpec == MoodInit /\ [][MoodNext]_moodVars

(* The insertion sort over the first velCount slots, and its middle element. *)
Inserted(s, t) ==
  LET k == Cardinality({i \in DOMAIN s : s[i] <= t})
  IN  [i \in 1..Len(s) + 1 |-> IF i <= k THEN s[i] ELSE IF i = k + 1 THEN t ELSE s[i - 1]]
Sorted ==
  LET sort[n \in 0..velCount] ==
        IF n = 0 THEN << >> ELSE Inserted(sort[n - 1], velocity[n - 1])
  IN  sort[velCount]
MedianVelocity == IF velCount = 0 THEN 0 ELSE Sorted[velCount \div 2 + 1]

VelocityTier(v) == CASE v = 0 -> 2 [] v \in 1..14 -> 4 [] v \in 15..29 -> 3
                     [] v \in 30..59 -> 2 [] v \in 60..119 -> 1 [] OTHER -> 0
DenialPenalty == IF approvals + denials < 3 THEN 0
                 ELSE IF denials > approvals THEN 2
                 ELSE IF denials * 2 > approvals THEN 1 ELSE 0
MoodTier == Max({VelocityTier(MedianVelocity) - DenialPenalty, 0})

(* Both casts are to int8_t. *)
Int8(n) == ((n + 128) % 256) - 128
EnergyTier == Max({0, Min({5, Int8(atNap - Int8(hours \div 2))})})

\* The ring holds the last answers, as many as fit, and its median has at most
\* half of them below it and less than half above: overwriting the oldest slot
\* never loses or doubles a time.
MedianOfLast ==
  LET n == Min({Len(answerTimes), Slots})
      last == SubSeq(answerTimes, Len(answerTimes) - n + 1, Len(answerTimes))
  IN  IF n = 0 THEN MedianVelocity = 0
      ELSE /\ \E i \in DOMAIN last : last[i] = MedianVelocity
           /\ 2 * Cardinality({i \in DOMAIN last : last[i] < MedianVelocity}) <= n
           /\ 2 * Cardinality({i \in DOMAIN last : last[i] > MedianVelocity}) < n

\* A denial never makes the pet happier, nor does it touch its energy.
DenialNeverCheers ==
  [][denials' > denials => MoodTier' <= MoodTier /\ EnergyTier' = EnergyTier]_moodVars

\* "drains 1 tier per 2h": true for eleven days; after 264 hours without a nap
\* the int8_t arithmetic wraps and the pet is full of energy again.
EnergyDrains ==
  hours < 264 => EnergyTier = Max({0, atNap - hours \div 2})
================================================================================
