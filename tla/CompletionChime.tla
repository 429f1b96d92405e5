--------------------------- MODULE CompletionChime ---------------------------
(***************************************************************************)
(* The chime at the end of a turn.  OpenCode announces the end twice, as a  *)
(* status that is idle and as an idle session; neither names the turn.  The *)
(* agent counts what it has not counted before (agent.py), keeps the number *)
(* in its state file and sends it with every snapshot; the device rings     *)
(* when the number it hears is another one (completion_chime_logic.h).      *)
(* The agent and the device restart, the link drops.  Sound is on.          *)
(***************************************************************************)
EXTENDS FiniteSets, Functions, Integers, Sequences

CONSTANTS
  OpenSessions,
  DedupeLimit,    \* _COMPLETED_TURN_DEDUPE_LIMIT
  SeqModulus,     \* 2^32
  MaxTurns,       \* bound on the turns
  MaxLines,       \* bound on the lines between two iterations of the loop
  MaxMishaps      \* bound on restarts, drops and lost notices

ASSUMPTION ChimeAssumption ==
  /\ IsFiniteSet(OpenSessions) /\ {DedupeLimit, SeqModulus, MaxLines} \subseteq Nat \ {0}
  /\ {MaxTurns, MaxMishaps} \subseteq Nat

VARIABLES
  notices,      \* of the last turn of a session: how often its end is still to be told
  turnKeys,     \* _completed_turn_order; the keys' turn is always "", so the sessions
  completionSeq,
  stateFile,    \* completion_seq of the state file
  linked,
  lines,        \* the snapshots the device has yet to read: their number and, for the
                \* properties, how many turns were counted by then
  chime,        \* tama.completionSeq and CompletionChimeState, if there is one
  tally          \* what happened: turns, rings, turns that may count again, turns counted
                \* (of them before the last ring), whether a turn ended since, mishaps

chimeVars == <<notices, turnKeys, completionSeq, stateFile, linked, lines, chime, tally>>

Unheard == [has |-> FALSE, seq |-> 0]
NoTally == [turns |-> 0, rings |-> 0, again |-> 0, counted |-> 0, heard |-> 0,
                silent |-> FALSE, mishaps |-> 0]

ChimeInit ==
  /\ notices = [s \in OpenSessions |-> 0]
  /\ turnKeys = <<>> /\ completionSeq = 0 /\ stateFile = 0
  /\ linked = FALSE /\ lines = <<>> /\ chime = Unheard
  /\ tally = NoTally

(* OpenCode ends a turn; that of the same session before was told long ago. *)
TurnEnds(s) ==
  /\ tally.turns < MaxTurns /\ notices[s] = 0
  /\ notices' = [notices EXCEPT ![s] = 2]
  /\ tally' = [tally EXCEPT !.turns = @ + 1, !.silent = chime.has]
  /\ UNCHANGED <<turnKeys, completionSeq, stateFile, linked, lines, chime>>

(* BridgeStateStore: what the next agent starts with. *)
\* For comparison: an agent that begins anew.
RestoredAtZero == 0
Restored == stateFile

(* _publish_state: the snapshot goes out if there is a link.  It differs    *)
(* from the last one in other fields too, so it may go out or not when the  *)
(* number is the same; the state file is written in either case.            *)
Line(seq, counted) == [seq |-> seq, counted |-> counted]
Published ==
  /\ stateFile' = completionSeq'
  /\ \/ /\ linked /\ Len(lines) < MaxLines
        /\ lines' = Append(lines, Line(completionSeq', tally'.counted))
     \/ /\ linked => completionSeq' = completionSeq
        /\ UNCHANGED lines

(* _record_completion_key: a key counts once, and is forgotten when the     *)
(* limit pushes it out.                                                     *)
Pushed(s) == Append(IF Len(turnKeys) >= DedupeLimit THEN Tail(turnKeys) ELSE turnKeys, s)
NextSeq == (completionSeq + 1) % SeqModulus

\* A key that is forgotten between the two notices of a turn lets it count again.
Forgotten(keys) == Cardinality({s \in Range(turnKeys) \ keys : notices[s] = 1})

NoticeCounts(s) ==
  /\ s \notin Range(turnKeys)
  /\ turnKeys' = Pushed(s) /\ completionSeq' = NextSeq
  /\ tally' = [tally EXCEPT !.counted = @ + 1,
                          !.again = @ + Forgotten(Range(turnKeys'))]

NoticeKnown(s) ==
  /\ s \in Range(turnKeys)
  /\ UNCHANGED <<turnKeys, completionSeq, tally>>

(* _opencode_notify with session.status idle or session.idle. *)
Notice(s) ==
  /\ notices[s] > 0 /\ notices' = [notices EXCEPT ![s] = @ - 1]
  /\ NoticeCounts(s) \/ NoticeKnown(s)
  /\ Published
  /\ UNCHANGED <<linked, chime>>

Keepalive ==
  /\ linked /\ Len(lines) < MaxLines
  /\ lines' = Append(lines, Line(completionSeq, tally.counted))
  /\ UNCHANGED <<notices, turnKeys, completionSeq, stateFile, linked, chime, tally>>

(* The link is made: a snapshot is forced. *)
Link ==
  /\ ~linked /\ linked' = TRUE /\ lines' = <<Line(completionSeq, tally.counted)>>
  /\ UNCHANGED <<notices, turnKeys, completionSeq, stateFile, chime, tally>>

(* completionChimeObserve: the first number is where it starts. *)
Rings(seq) == chime.has /\ chime.seq # seq
Observed(line) ==
  /\ chime' = [has |-> TRUE, seq |-> line.seq]
  /\ tally' = CASE Rings(line.seq) ->
                    [tally EXCEPT !.rings = @ + 1, !.heard = line.counted, !.silent = FALSE]
               [] ~chime.has -> [tally EXCEPT !.heard = line.counted, !.silent = FALSE]
               [] OTHER -> tally

(* One iteration of loop() reads some lines, of which the last one counts. *)
Loop(k) ==
  /\ lines' = SubSeq(lines, k + 1, Len(lines))
  /\ Observed(lines[k])
  /\ UNCHANGED <<notices, turnKeys, completionSeq, stateFile, linked>>

Mishap(lost) ==
  /\ tally.mishaps < MaxMishaps
  /\ tally' = [tally EXCEPT !.mishaps = @ + 1, !.again = @ + lost]

(* The lines that did not arrive are gone, the snapshot after the next      *)
(* connection has the number.                                               *)
Unlink ==
  /\ linked /\ Mishap(0) /\ linked' = FALSE /\ lines' = <<>>
  /\ UNCHANGED <<notices, turnKeys, completionSeq, stateFile, chime>>

AgentRestarts ==
  /\ Mishap(Forgotten({}))
  /\ turnKeys' = <<>> /\ completionSeq' = Restored
  /\ linked' = FALSE /\ lines' = <<>>
  /\ UNCHANGED <<notices, stateFile, chime>>

DeviceRestarts ==
  /\ Mishap(0)
  /\ chime' = Unheard /\ linked' = FALSE /\ lines' = <<>>
  /\ UNCHANGED <<notices, turnKeys, completionSeq, stateFile>>

(* The plugin finds no agent. *)
NoticeLost(s) ==
  /\ notices[s] > 0 /\ Mishap(0) /\ notices' = [notices EXCEPT ![s] = @ - 1]
  /\ UNCHANGED <<turnKeys, completionSeq, stateFile, linked, lines, chime>>

ChimeNext ==
  \/ \E s \in OpenSessions : TurnEnds(s) \/ Notice(s) \/ NoticeLost(s)
  \/ Keepalive \/ Link \/ Unlink
  \/ \E k \in 1..Len(lines) : Loop(k)
  \/ AgentRestarts \/ DeviceRestarts

ChimeSpec == ChimeInit /\ [][ChimeNext]_chimeVars

--------------------------------------------------------------------------------
ChimeTypeOK ==
  /\ notices \in [OpenSessions -> 0..2]
  /\ turnKeys \in Seq(OpenSessions) /\ Len(turnKeys) <= DedupeLimit
  /\ {completionSeq, stateFile, chime.seq} \cup {line.seq : line \in Range(lines)}
       \subseteq 0..SeqModulus - 1
  /\ {linked, chime.has} \subseteq BOOLEAN

\* Everything is told and heard.
Quiet == linked /\ lines = <<>> /\ \A s \in OpenSessions : notices[s] = 0

(* Across restarts of the agent and of the device, lost links and the wrap  *)
(* of the number: no chime without a turn, and none twice unless the key of *)
(* the turn was forgotten between its two notices.                          *)
ChimesAreEarned == tally.rings <= tally.turns + tally.again

(* What was counted rings, one chime for what came together, unless the     *)
(* number went round in the meantime.                                       *)
CountedTurnsRing == Quiet => (tally.counted - tally.heard) % SeqModulus = 0

(* "A short chime plays once per completed turn" (firmware/README.md:40): a *)
(* turn that ended before a device that listens was heard when all is quiet. *)
EveryTurnRings == Quiet /\ tally.mishaps = 0 => ~tally.silent
================================================================================
