# OpenCode Buddy in TLA+

OpenCode Buddy puts the permission prompts and questions of OpenCode on a small
hardware device, an M5 StickS3. This directory holds TLA+ modules of the
program, TLC configurations that check them on small instances, and theorems
about them that TLAPS checks for every instance. Paths below are relative to the
repository.

## The system

```
 OpenCode process(es)                agent (launchd)                 StickS3
 +---------------------+   socket   +-----------------+     BLE     +----------------+
 | opencode-buddy.js   |----------->| agent.py        |------------>| data.h parser  |
 |  permission queue   |  commands  |  catalog.py     |  snapshots  | main.cpp loop()|
 |  question queue     |<-----------|  reducer.py     |<------------|  buttons       |
 +---------------------+  decisions |  ble_transport  |   answers   +----------------+
        ^     | reply               +-----------------+
        +-----+  OpenCode's HTTP API
```

### Components

| Component | State | Operations | What makes it correct |
|---|---|---|---|
| Plugin (`opencode-buddy.js`) | two queues, one request in flight in each, part of the current question | `event`, `drainPermissions`, `drainQuestions`, `replyToOpenCode` | tells OpenCode only what the user pressed; one lost request does not block the next |
| Agent, approvals (`agent.py`) | futures of permissions and questions, the question slot, session runtimes, request-to-session map | `permission_ask`, `question_ask`, `opencode_notify`, device answers, timeouts | an ask gets the first answer that arrives and always ends; a prompt never outlives its ask |
| Session catalog (`catalog.py`) | records, prompt of each record, request-to-session map | `upsert`, `resolve_prompt`, `snapshot` | a prompt it shows can be resolved; a pending prompt is shown |
| Agent, BLE (`agent.py`, `ble_transport.py`) | link flag, last payload, transport lock, OTA claim | BLE loop, keepalive, `_publish_state`, disconnect callback | every change reaches a connected device |
| Reduction (`reducer.py`, `text_width.py`) | none | `as_ble_payload` | at most 900 bytes |
| Completion counter, state store (`agent.py`, `state_store.py`) | counter, recent turn keys, a JSON file | record, persist, load | one chime for each full turn, none twice, across restarts |
| Host OTA (`ota_coordination.py`, `ota_server.py`, `ota_trust.py`, `ota_release.py`) | session phase, cancellation, HTTPS server | prepare, confirm, transfer, cancel, commit | never reports success or failure against what the device did |
| BLE helper (`native_ble_helper/OpenCodeBuddyBLEHelper.swift`) | scan, peripheral, chunk queue | connect, write, notify | a write ends once, a line is whole |
| Device loop (`main.cpp`) | prompt shown, selection, answer sent, press flags, screen | `loop()` | a press answers what is shown, once |
| Device parser and BLE (`data.h`, `ble_bridge.cpp`) | receive ring, line buffer, last snapshot | `dataPoll`, `_applyJson`, GATT callbacks | the last snapshot counts |
| Device boot health (`ota_boot_health*`) | supervisor phase, health bits, retained rollback record, otadata | arm, signal, fail, poll on the loop task; deadline on a watchdog task | a new image is kept only if it proved healthy in 30 s, else the old one boots; the two tasks decide once |
| Device update (`ota_update*`, `ota_manifest_logic.h`, `ota_authorization_logic.h`, `ota_policy_logic.h`, `ota_status*`) | offer, replay list, runtime, update machine, OTA handle | offer, confirm, cancel, one step for each iteration of the loop | only what was agreed to is installed, whole; a cancelled update is not; the fallback slot survives |
| Device Wi-Fi (`wifi_manager.cpp`, `wifi_*_logic.h`) | manager phase, two slots of credentials in NVS, the portal's parser and its one client | connect, retry, open and close the portal, judge a form, commit credentials key by key | a network that worked is never lost; the portal closes; nothing is saved that did not connect |
| Device transfer (`xfer.h`, `character.cpp`) | open file, expected bytes, the pack that plays | begin, file, chunk, end | a pack that is installed is whole; a transfer ends |
| Device panels (`main.cpp`, `settings_menu_logic.h`) | flags of the open panels, cursors, the armed reset | short A, long A, B, applying an item | a press is for the panel on the screen; nothing is erased by accident |
| Device screens (`main.cpp`, `screen_orient_logic.h`, `shared_clock_face_logic.h`) | sprite, LCD, caches of what was painted | one frame | an approval is painted; what is painted is current |
| Device sleep (`main.cpp`) | nap, screen off, dim, face-down counter | wake, nap, time out, power key | an approval is lit |
| Clocks (`trusted_time_logic.h`, `wifi_manager.cpp`, `data.h`) | the clock shown, the system time and who it is trusted from | host time, SNTP, ageing | certificates are judged by a time that somebody authenticated |
| Faces and heartbeat (`usage_meter_logic.h`, `token_heartbeat_logic.h`, `clock_orient_logic.h`) | caches of the face, the bars of the graph, counters of the orientation | paint what changed, shift, settle | the picture is what would be painted from nothing; a screen does not flap |
| Pet (`stats.h`) | tokens, level, ring of answers, in RAM and NVS | credit, save, mood, energy | nothing is credited twice, at most a level is lost |
| CLI, setup, launchd, session watcher, build scripts | files | start and stop the parts above | I/O |

### What is hard here

Nothing in the repository runs two of these programs against each other. The
agent is one asyncio loop whose handlers await BLE writes of up to ten seconds in
the middle of their work; events arrive on connections of their own, in any
order; the link drops between a write and its acknowledgement; the plugin, the
agent and the device time out at different moments; the agent can die and be
restarted with an empty catalog while the device still shows its last prompt. On
the device, presses span many iterations of the loop while prompts change under
the finger. A firmware update crosses reboots: power may fail between any two
writes to flash, and the task that supervises a new image races the one that runs
it. PROJECT.json lists these hazards at their lines.

## Modules

| Module | Models |
|---|---|
| `BuddyBase` | requests, sessions, answers and snapshots the programs share |
| `Approval` | abstract specification: an ask gets one outcome, the first answer, and ends |
| `BuddyAgent` | the agent: runtimes, catalog, futures, question slot, publisher, BLE loop |
| `BuddyPlugin` | the plugin's two queues and OpenCode's view of each request |
| `BuddyDevice` | the device's loop: snapshot, buttons, screen, answers |
| `DevicePresses` | `BuddyDevice` with a memory of what the press of A and the prompt of the moment led to |
| `ApprovalSystem` | plugin, agent and device composed over socket and BLE |
| `BleLines` | how a line of the host reaches the parser: pieces, the ring, the line buffer |
| `CompletionChime` | the number of completed turns: agent, state file, snapshot, chime |
| `DeviceSleep` | nap, dimming, the thirty seconds, the power key |
| `DeviceScreens` | what each frame paints, over what |
| `DeviceMenus` | panels, cursors, and what a press does with them |
| `ApprovalText` | the hint: cut, wrapped into rows, scrolled |
| `ClockFace`, `Heartbeat`, `DeviceOrientation` | the face and its caches, the graph, the hysteresis of the orientation |
| `DeviceTime` | the clock that is shown and the system time that is trusted |
| `DeviceStats`, `PetMood` | tokens, levels and their saving; mood and energy |
| `WifiCredentials`, `WifiManager`, `WifiPortal` | two slots in NVS; phases, deadlines and the portal; the HTTP parser |
| `CharacterTransfer` | the pack of GIFs: protocol, files, what plays after a restart |
| `OtaFlash` | the two application slots, otadata and the bootloader (ESP-IDF, external) |
| `BootHealth` | the supervisor of a new image: `setup()` and `loop()`, the watchdog, rollback, the retained record |
| `OtaUpdate` | the offer, the runtime and the update machine, poll by poll |
| `OtaDevice` | both on one device, across boots and power cuts |
| `OtaPush` | the host's coordinator and the device it pushes to, over a link that loses messages |
| `BuddyAgentProofs` | theorems about `BuddyAgent`, among them that it implements `Approval` |
| `BuddyDeviceProofs` | lemmas about `BuddyDevice` |
| `ApprovalSystemProofs` | theorems about `ApprovalSystem`, from the lemmas of both |
| `DevicePartsProofs` | theorems about `DevicePresses` and about each part of `MCDeviceParts`, alone and together |
| `ApprovalTextProofs` | theorems about `ApprovalText` |
| `WifiProofs` | theorems about `WifiManager` with `WifiCredentials` |
| `ServicesProofs` | theorems about `OtaPush`, `CompletionChime`, `WifiPortal`, `CharacterTransfer`, and all parts of `MCServices` together |
| `OtaDeviceProofs` | theorems about `OtaDevice` with `OtaUpdate` and `BootHealth` |
| `MCBuddyAgent`, `MCDevice`, `MCSystem`, `MCOtaDevice` | the small instances |
| `MCDeviceParts`, `MCServices` | small instances of several parts that share no variable |

A definition marked "For comparison" differs in one detail from the one it
precedes, as a plausible slip in that code would; PROJECT.json names it as a
mutant, and the property it belongs to notices it.

`MCDeviceParts` and `MCServices` put parts side by side that read no variable of each
other. Interleaving them would multiply their states and show nothing, so a
behaviour moves one part, its `scope`, and the others stay as they start; every
property of a part holds or fails in the composition as it does alone. Where parts
of the device do meet, one module has both: the prompt and the buttons with the
screen that wakes (`BuddyDevice`), the prompt and the panels (`DeviceMenus`), the
prompt and every picture (`DeviceScreens`), the prompt and the nap (`DeviceSleep`), the
credentials and the portal's forms (`WifiManager`), the update and the supervisor
(`OtaDevice`), the coordinator and the update (`OtaPush`).

### How they correspond to the code

*Agent.* One step is the code one task runs between two awaits that really
suspend. `_publish_state` suspends only when it sends; so a handler that
publishes stops in the stages `showing` or `clearing` of `task` when it sends and
runs on when it does not. Writes queue in `outq` in the order of the transport's
lock; `WriteDone`, `WriteFailed` and `Unlinked` resume the publisher. The parts of
a payload that are not modelled (messages, counters) can differ or not, so
`Publish` may send although prompt and question are as before. A session has two
states because the code keeps two: the runtime (`rtState`, `rtPending`) and the
catalog's record (`recState`, `recPrompt`), and two maps from requests
(`reqControl`, `catReq`). `Apply`, `Resolve` and `KeepRuntimes` are the three
places that write them.

*Device.* One step is one iteration of `loop()` with at most one button edge.
Edges are `down`, `held` (600 ms) and `up`. The order inside the iteration is the
code's: poll, prompt change, wake, long presses, release of A, press of B.

*Plugin.* `permBusy` and `partBusy` are the requests awaited in the two drain
loops. `oc` is what OpenCode has been told, and by whom.

*System.* `Requested` is the plugin's write and the agent's handler in one step,
as the socket is local; the response and the notice of a reply are steps of their
own. A snapshot reaches the device (`Deliver`) before its acknowledgement reaches
the agent (`Acknowledge`), and the link may drop between the two.

*Update and boot.* `stage` follows the main task through `setup()` and one
iteration of `loop()`; `pc` says where each task is inside the supervisor's
functions, whose state machine (`Decided`, `Claimed`, `MarkResult`) runs under
`supervisorMux` in one step while the ESP-IDF calls and the writes to the record
are steps of their own. `now` is the time a poll was called with, which may be old
when the lock is taken. In stage `body` the loop takes in offers, presses and
commands, then polls the update once (`Polled`). A poll sees one of `Worlds`, the
first obstacle `otaUpdateGate` would find. The four phases that fetch manifest and
signature are one, as they have the same guards and ends. `image` keeps of a slot's
bytes whether all of them are there and right; `DigestMatches` is true only then.
`Boot` is the bootloader: it falls back from a slot that was tried once and not
confirmed.

*Lines.* `BleLines` numbers the bytes of each line. A host writes pieces; a write that
fails, or a link that ends, leaves the rest unsent. `RxPush` runs in the task of the
BLE stack, a byte a step, against `PollByte` in the loop.

*Chime.* OpenCode tells the end of a turn twice, without naming the turn; `Notice` is
the handler with everything up to the write of the state file, which has no await in
it. `Loop` reads some of the lines that arrived, of which only the last counts.

*Screens.* A picture is the set of layers one could see in it. `Frame` is one pass of the
rendering half of `loop()`: flags, resets by comparison with the flags before, the
choice of the screen, what it paints. Everything that happens before a frame is an
action of its own, one for each pass.

*Panels.* `ShortAOrder`, `LongAOrder`, `BOrder` and `DrawOrder` are the orders in which the
code asks for the open panels; that they lead to the same one is a property.

*Sleep.* One step is one loop in the code's order: prompt, update, button, nap, time out.

*Faces.* `ClockFace` and `Heartbeat` keep the canvas next to the caches that decide what is
painted again, and compare it with what would be painted from nothing. `late` is for the
properties: how long the canvas has shown another state of the pet than the current one.

*Time.* A clock is kept as what it is wrong by. `millis` wraps at `Wrap`; ages are the
modular differences of the code, and `heardAgo` is the true age for comparison.

*Pet.* `Saved` writes its keys one after the other; the power may be cut between two.

*Wi-Fi.* `WriteStep` is one write to NVS of the nine a commit takes, each of which may fail
or be the last before the power is cut. Deadlines are `off`, `running` or `due`. The
portal's parser is fed `PollBytes` a poll; a byte is chosen when the parser asks for
it, by the kinds the parser tells apart.

*Transfer.* A file is counted in chunks, the flash in the same unit. The host waits for
each answer, as the protocol demands. `Serve` is one command with its answer.

*Push.* `OtaPush` has the update as its statuses show it, phase by phase, and the
coordinator's `run()`, `_receive` and `cancel()` in detail; sessions are numbered and
session n offers version n. `OtaDevice` has the detail of the update.

*Hint.* `PlaceWord` is one turn of the loop of `utf8WrapInto`; a letter is one byte and
one cell, a wide character three bytes and two cells.

## Runs

| Run | Instance | Shows |
|---|---|---|
| `agent` | 1 busy session, 2 permissions, one also announced by an event | futures, records and maps stay with the asks that own them; no prompt outlives its ask |
| `agentLive` | 1 permission or 2 questions | the slot names a question somebody waits for; the agent implements `Approval`; every ask ends |
| `system` | 2 permissions of one session, 1 permission that is also announced by an event, or 1 question of 2 parts | nothing is replied that was not pressed |
| `systemLive` | 1 permission, 1 drop, 1 restart | the same across faults; every request leaves the queue; the device is cleared |
| `otaDevice` | 1 offer, 2 bytes, any number of boots and power cuts | a whole image always boots, one task decides, cancellation is honoured, flash is touched only with consent, no handle leaks, the reported reason is true; supervision and updates end |
| `device` | the parts a user touches and sees, one at a time: 1 permission and 1 question with every edge of both buttons; all panels; all screens in two landscape poses; three clocks, two personas; a graph of two bins; three lines and a ring of four bytes | what one press may answer; a press is for the panel that is drawn; an approval is painted, lit, and gone when it is over; pictures kept by difference are what would be painted; the trusted time was earned; the pet is credited once; lines arrive whole or not at all |
| `services` | what the device does with others until it is done, one at a time: 2 networks, a portal of 2 fields, 2 pushes with one lost message, 2 packs in a small flash, hints of 5 characters, 2 turns of 2 sessions with 2 mishaps | credentials survive, forms are judged, the host is told the truth about an update, a pack is whole, the rows of a hint are the hint, a chime stands for a turn; everything that begins ends |

Five runs end in a violation, each of a sentence of the repository; the entries
under "findings" quote it.

| Run | What happens |
|---|---|
| `answerDropped` | an answer pressed before the snapshot's acknowledgement has no future yet and is dropped |
| `overlapHides` | the end of one ask hides the prompt of the other of the same session |
| `hiddenPrompt` | holding A on a question approves the permission behind it |
| `otaShown` | an offer that arrives at the confirmation screen replaces the one shown, and A installs it |
| `secondTurn` | the second turn of a session ends and no chime plays: every completion has the turn id "", so its key is known |

What else was seen is under "Observations".

Three relatives of these were seen and have no run of their own: a late status
event takes the prompt of a waiting session off the device as an overlapping ask
does; a press while the link is down counts as sent, so the prompt cannot be
answered again; and the press of B that wakes the screen is not swallowed
(`main.cpp:2731` looks at the press, the flag is for releases), although the comment
at `main.cpp:2599` says that a waking press is.

What the properties say, where the name does not:

- `PressOfAAnswersOnce`: a press of A, from its edge down to its edge up, answers once at
  most, and not at all when it woke the screen - whatever snapshots arrive in between.
  `OneAnswerPerShowing`: as long as a prompt or a question stays it is answered once.
  `ShortPressAnswersShown`: a release of A and a press of B answer what is on the screen.
- `ApprovalIsSeen` joins `PromptIsSeen` (painted, complete, gone afterwards, no pixels of a
  panel left, but around the compact overlay) and `PromptIsLit`.
- `PicturesAreCurrent` joins the comparisons of face, meter, graph and rotation with what
  would be painted from nothing.
- `WifiKeepsItsWord`: with one fault, the network that was connected or confirmed last is
  the one read at the next start; nothing is saved that did not connect.
- `PushIsTrue`: a push that ended in success runs on the device and is confirmed; a cancel
  the caller was told of is final.
- `ChimeIsTrue`: no chime without a turn and none twice, unless the key of the turn was
  forgotten between its two notices; what was counted rings.
- `WhatBeginsEnds`: the portal closes, a client leaves, a push ends, a transfer ends, a
  display left in peace shows every row, a device left in peace gets online.

### Bounds

Two permissions of one session are the smallest instance in which asks overlap;
two questions the smallest in which the slot is contested; two parts the smallest
question that can stop half way. Permissions of different sessions share only the
snapshot, which shows a prompt when exactly one session waits. `MaxQueue` bounds
the background writes that wait behind the lock; one is enough to let an event's
snapshot run into an ask's. `Busy` names the sessions that also report turns,
output and usage. `MaxRx` and `MaxUp` bound messages between two iterations of the
device's loop; `MaxDrops` and `MaxCrashes` bound faults. `ButtonEvents` restricts
the buttons of the composed runs to those that answer; run `device` has all.
`Scopes` lists the sets of requests a behaviour may draw from, so that permissions
and questions need not be in one instance where they do not meet; `Legacy` is the set
of permissions OpenCode announces by event before it asks (`agent` lets one overlap with
another, `system` has it alone).

Run `otaDevice` bounds neither boots, nor power cuts, nor updates: its states repeat.
One offer is enough, since the replay list forgets at a reset and legacy offers are
not in it; `otaShown` needs two. Two bytes in chunks of at most two give a full
read, a short read followed by the rest, and a readback; `Timeout = 1` gives a poll
before the deadline, one at it, and one whose time was read before and which is
decided after it. `RestartTries = 1` lets `esp_restart` return once.

Run `device`: `Wrap`, `WrapMs` = 6 let every counter of milliseconds make a whole turn, so
that ages beyond half and beyond the whole of it occur. The ring of four bytes is
shorter than a line of three with its end and a piece of the next, so it overflows;
`LineCap = 4` is reached by a line without its end. `ScreenOff = 1` and the face-down
thresholds of the code itself (15, 20, -8, -10) are in `DeviceSleep`. `Levels = 4` lets the stored byte of a level
wrap. Run `services`: `MaxFaults = 1` is what two slots can bear - with two faults of the
right writes even both slots may be lost, see "Observations"; `MaxUpsets` bounds
the loss of the network. The portal's limits are one above the longest legal request,
so that each of them is exceeded. `Flash = 5` with `Headroom = 1` takes one of the packs but
not both at once. `LastSession = 2` gives a second push that meets what the first left.
`HintSizes` has a screen whose cells run out first and one whose bytes do. `DedupeLimit = 1`
and `SeqModulus = 2` let keys be forgotten and the number go round within two turns.
Runs of liveness keep to the same bounds: a bound on faults is a bound on how
often the environment may start anew, not on what the program does.

### Fairness

`AgentLiveSpec`: a write ends in an acknowledgement or in the transport's timeout;
`disconnect` returns; `asyncio.wait_for` fires after its timeout unless the future
is set first, which is why the two ways an ask ends share one weak fairness
condition; a handler that is done answers its socket. `SystemLiveSpec` adds the
plugin's 65 s timer, delivery on a live link, the disconnect callback and the
device's loop. Nothing obliges a user to press, OpenCode to ask, or a lost link to
come back: `DeviceCleared` has the link's return as its hypothesis.

`FairDeviceSpec`: neither task of the device is starved and every ESP-IDF call
returns, but a probe of `setup()` may hang - the watchdog is there for that. Time
passes while an image is monitored. A poll compares its deadlines with `millis()`,
so an update that stays within reach of one runs into it (strong fairness of
`Expires`); nothing obliges Wi-Fi to come, the user to press, or a download to
succeed.

`ServicesFairness`: the loop polls the Wi-Fi manager and the portal, and the finite writes of
a commit go on; a running deadline is reached, as `millis()` goes on; a join that is
possible again and again succeeds (strong fairness of `Join`), which is used only
under the hypothesis that the network stays. The device reads what arrived, the coordinator's
timeouts fire (`asyncio.wait_for`), a transfer's command is answered in the same
pass. Nothing obliges a client of the portal to send, a host to push or a link to hold.

## Proofs

`BuddyAgentProofs` proves for all values of the constants that meet
`BaseAssumption` and `AgentAssumption`:

- `AgentTypes`: `AgentTypeOK`, one lemma for each kind of step; the only part that
  needs care is that a handler's answer has the type of its ask.
- `WaitersOwned`: `WaiterOwned` is inductive together with the type invariant.
- `PromptsHaveAsks`: `PromptHasAsk` is not inductive by itself. An ask that ends
  calls `Resolve`, which drops one key and clears one prompt; that nothing of the
  request is left needs `PromptsIndexed`: what a runtime or a record shows is
  findable by the maps. Both are proved in one induction.
- `QuestionsHaveAsks`: the slot.

It also proves `AgentImplementsApproval`, that `AgentSpec` implies
`Approval`'s specification under the mapping of `Phase` and `Outcome`: each step of
the agent is a step of one ask of `Approval` or a stutter. It uses the typing and
ownership invariants: a future that is absent while its ask is pending must map to
"not answered yet".

`OtaDeviceProofs` proves every safety property of the run
`otaDevice`, for any set of offers, any size of image and chunk, any number of
restart attempts and any deadline (`UpdateAssumption`, `TimeoutAssumption`). What
the slots hold and what the bootloader does with them (`OtaFlash`) is taken from
ESP-IDF and is an assumption of all of them. `StepCases` sorts a step into the
supervisor's, the update's, or a reset both go through; each invariant then has a
lemma for each kind.

- `OtaTypes`: a received count stays within the image only because a chunk is cut
  to what is missing (`ChunkFits`), and the selected slot is a slot only because
  the target is chosen before the phases that use it (`TargetChosen`).
- `HandleOwned`: who owns the handle must be known where the runtime is armed or let
  go; `HandleInv` says in which phases the machine may hold one.
- `AlwaysBoots`: `BootInv` has four parts. The running image is whole, and has a
  whole fallback while it is unconfirmed. Only a committed update selects the other
  slot. From its selection on the target is the slot that does not run and the
  running image is not an unconfirmed one - this is where `SelectionValid` is
  needed. Past the digest the target is whole. Each part needs the others.
- `CancelsHonoured`, `FlashConsented`: what was promised or pressed is still latched
  in a phase from which a poll has to act on it (`UserInv`).
- `DecidedOnce`: which places of the two tasks go with which phase (`OwnersAgree`),
  that the main task is alone until the watchdog exists (`Alone`), and that what is
  supervised stays pending until it is marked (`StillPending`). The last one needs
  `BootInv`: an update must not write the state of the running slot.
- `ReasonsReported`: `ReasonInv` follows marker, payload and checksum through the
  four writes and says that a valid record is the halted supervisor's reason, or
  after a reset the cause of it.

`DevicePartsProofs` begins with the types and three of the properties of the buttons, for any number of
permissions and options, any subset of the edges and any bounds. What one iteration sends is
settled in `BuddyDeviceProofs` (`RepliesAre`, `RepliesFit`):

- `PressesTyped`: the types, which need that an answer is one its ask can take: what is
  sent is made of the prompt and of the question the loop has just looked at.
- `OnePressOneAnswer`: the flags of A (swallowed, long, answer sent) are each right about
  one thing only - what the press has already done - and are cleared at different
  edges. `PressOfA` says for each position of the button which of them must be set if the
  press has answered; it is inductive with the types.
- `OneAnswerWhileShown`: `AnswerOfShowing` relates `responseSent` with what was answered
  since the prompt came. The question is answered in a step that may also reject it by a
  long press, so the proof assumes that no option has the label of the rejection.
- `ShortPressesSeen`: an action property, from the types and the order of the handlers.

`ApprovalSystemProofs` proves of the composed system, for any sessions, requests, parts and options
and any number of drops, failed writes and restarts (`BaseAssumption`, `AgentAssumption`,
`DeviceAssumption`, `PluginAssumption`):

- `SystemTypes`: the types of the three programs together; the typing lemmas of each are
  used as they stand, what is new is what the three hand to each other.
- `OnlyPressedIsReplied`: `RepliesWerePressed` looks at OpenCode only, and says nothing of an answer
  on its way. `Carried` says that what is in `upq`, in a future and in a decision was pressed
  for that ask; every step of the agent hands on what it has or drops it (`HandsOn`), and only
  `DeviceRuns` adds something. `PressedFit` keeps "deny" and a label apart, as both end in a
  "reject" of OpenCode's. `PartsCollected` says that each part before the one in flight was
  answered, which is what a reply to the whole question rests on.

The rest of `DevicePartsProofs` proves each safety property of run `device`, first of the part it is
about and then, as a part that does not move stays as it is, of `PartsSpec`:

- `PromptsSeen`, for any set of landscapes. A frame decides by the flags of the frame before and by two
  caches whether a screen is painted anew. `ScreensInv` says what each of them is evidence of: a
  face that a cache believes to be there is there (`FaceInSprite`, `FaceOnLcd`), and what the sprite
  still holds of a prompt or a panel is known to the flags that will clear it (`SpriteLeftovers`).
- `PromptsLit`, for any time out. `Believed` relates the light to the three flags of the code
  in the middle of an iteration; `ApprovalsSeen` joins it with `PromptsSeen`.
- `MenusAreObeyed`: which panels can be open together (`OpenSets`), that the cursor is on the panel on top,
  and that the armed reset is the tap it is said to be (`TapArmed`). The four orders of asking for a panel
  agree only because of `OpenSets`.
- `HonestClocks`, for any length of the counter and of the ages: the modular difference of the
  code is the true age until the counter has made a whole turn; the lemmas on `%` (`SecondLater` and its
  like) carry it from one second to the next.
- `BeatsAreCurrent`, for any window, bins and wrap. A frame with the key of the last one is not drawn.
  `StripIsLast` says what the strip shows for each key it may have, and why the receipt of a picture a whole
  turn of the counter later is not taken for the old one.
- `FacesAreCurrent`, for any clocks, counts and gaps between frames: each field of the cache stands for a
  layer of the canvas (`TimeShown`, `DateShown`, `LayersShown`, `BarsShown`); the arithmetic of the dots is that
  their fill is the percentage, rounded down, of the bar's length.
- `NoJumps`: `CounterIsEarned` bounds the counter of the hysteresis by the samples that asked for the turn. The
  median of the answers is that of an insertion sort in the code, and `SortedUpTo` is the invariant
  of its outer loop; `RingHolds` that the ring has the last answers. Denials then only move the median one way.
- `PetsRemember`: `AteWhatWas` bounds what is stored anywhere by what was produced, and is not inductive
  without the difference the latch is about to credit; `LevelsAgree` ties the stored level to the tokens
  unless a power cut tore the two apart.
- `LinesKept`, for any ring, pieces, cuts and lengths with `Length <= LineCap`: bytes on their way are in
  order, the buffer is what went since the last end of a line, and what was parsed is made of bytes after
  those of the line before. The assumption is what the code has, a buffer of 1023 bytes that the
  snapshots of 900 fit; only the part that nothing but a loss costs a line needs it, since a longer line is cut.
- `PicturesKept` joins the faces, the graph and the rotation, with `PicturesAreCurrent`'s claim that the wave of
  the dots comes round; `PartsTypes` has the types of all parts.

`ApprovalTextProofs` proves of the hint, for any hint, buffers and screens:

- `TextTellsTheHint`: `TextInv` reads the rows back. While words are placed, what was read of the
  hint is some `b` that ends where a word ends, and `b` with its spaces made single is text on earlier rows,
  then the current row, then the word still to be placed (`Reading`); that every row is a piece of the hint follows,
  and cannot be shown from the rows alone. The letters of rows, word and rest are always those of the hint. `BreaksAreForced`
  is an action property from the same invariant: a word is not clipped to nothing, and it is begun on a row
  that is empty or has the width for it.
- `TextTypes`: no more rows than the screen has, and an offset that stays within them.

`WifiProofs` proves `WifiWordKept` and `WifiTypes` for any networks, with `MaxFaults \in {0, 1}`: one failing
write or power cut in a commit is what two slots bear, and two may lose both (see "Observations"). `WifiInv`
follows the nine writes and those of the rollback: the slot in use stays whole (`InUseKept`), the other one fills
in order (`TargetFilled`), the markers name the old slot up to one write and the new one from there
(`MarkersInOrder`), and a fault in a rollback would be a second one (`FaultsSpent`). `ProvenInv` carries along that the
candidate was joined.

`ServicesProofs` proves of the other parts of run `services`:

- `PushesAreTrue`: `Fresh` says that an answer on its way is of this boot, `Newer` that what is
  installed is newer than what runs, and `Cancelled` that the session of an applied cancel is `Buried` - it neither runs
  nor will run, nor can its offer be taken again. The step lemmas sort the device's steps by what they do
  to update and binding (`DeviceStep`) and the coordinator's by what they leave (`HostStep`).
- `ChimesRing`: everywhere on its way the number is the count modulo `SeqModulus` (`NumberIsCount`), and
  each chime is paid for by a turn or a forgotten key (`TurnsPay`), of which some are owed (`Owed`).
- `PortalIsFair`: what the parser knows is what the headers said (`SaidIsKnown`), and a form decodes
  exactly if it has three fields with three names once each, by an induction over its fields.
- `PackPlaysWhole`: the room that was checked at the beginning suffices for what is still to come
  (`NothingIsLost`), which takes lemmas on sums over files (`SumIsOf`, `SumGrows`).
- `HintsAreTold`, `WifiWordStays`, `ServicesKeep`: the same properties for the behaviours of `ServicesSpec`.
- `ServicesTypes`: the types of all parts. Three of them need bounds no other property does: a channel grows
  only below its `Depth`, and an offer is sent only while some are left (`PushRoom`), which needs that the
  coordinator sends at least one; keys are forgotten at the limit (`ChimeRoom`); the flash is
  never overfull, and the chunks written and to come make the file (`TransferRoom`, by `SumsDiffer`: a sum changes as
  its one changed value does).

Recursive functions (the characters chosen from a text, the flattened rows, the decoder of forms, the
insertion sort, the sums over files) are reasoned about by induction over the naturals, in the form of a least
counterexample (`UpTo`), for the definitions the models use; there is no theorem about every recursion.

What stays with TLC: liveness (`EveryAskEnds`, `EveryRequestLeaves`, `DeviceCleared`, `PendingDecided`,
`UpdateEnds`, `WhatBeginsEnds`), which needs ENABLED and fairness and is out of this prover's reach. Every
invariant of the passing runs, and every action property of them, is stated by a theorem.

## Observations

Behaviour that the models show, that no sentence of the repository contradicts, and
that a maintainer may want to know of:

- A prompt rouses a napping device, but its face-down counter stands still while the prompt is
  there, and a counter at its end puts the device back into the nap in the same iteration
  (`main.cpp:3050-3061`): the prompt is shown at nap brightness until a press lights it.
  `PromptIsLit` holds, as a nap dims and does not put the display out.
- Holding A on a question approves the permission behind it (`hiddenPrompt`); it is the hold of B
  that rejects a question. A hold that approves and the release of A on a question that has
  just arrived are two answers in one iteration, to two asks.
- An automatic update closes the open panel without clearing the sprite
  (`main.cpp:2496-2502`), unlike every other path that closes one (2474, 2538-2549, 2655-2665):
  its pixels stay around the compact overlay. `docs/plans/2026-07-12-pet-only-runtime-design.md:36`
  asks that no stale panel remain.
- The host cuts a hint at 160 cells, the device wraps it into eight rows of 47 bytes and
  20 or 36 cells: the end of a long hint of wide characters is never shown.
- `wifi_manager.cpp:306` compares the next attempt of SNTP by signed difference: after
  half a turn of the counter (24.8 days) without an attempt the next one seems to lie ahead.
- Two failing writes in one commit, or a failing write and a power cut, can lose both
  slots of the credentials; one cannot.
- A link that ends in the middle of a line and comes back leaves the half line in the device's buffer:
  the first line after a reconnect is lost with it (`data.h:424`), and the keepalive repairs it.
- The device sends the answers of a question as a list of lists (`main.cpp:1748`); the agent turns
  each inner list into text with `str` (`agent.py:891`), brackets and quotes included, and the plugin
  replies that text. The test passes a flat list (`tests/test_opencode_agent.py:314-317`). In the
  models a label stands for the text the agent makes of it.
- The same request asked on two connections replaces the future of the first
  (`agent.py:752`), which then ends by its timeout.
- Approvals that arrive while an update session owns the link are published with the next
  change or keepalive (`agent.py:908`).
- The completion key of a subagent's session is counted like any other on the event path;
  the read-only path leaves subagents out (`agent.py:680`), but no source of records sets
  the turn it looks for.

## Not modelled, and why

Parsing, texts and layout beyond the hint; cryptography, certificates and HTTP framing of a
download; process setup; art, glyphs and GIF decoding; calendar arithmetic; the host's
activity and token buckets, which only feed the display. A request id is a model value, so
truncation of ids on the device is out of the model, as is the 900-byte budget of a
snapshot. One ask per request is in flight at a time, as one plugin sends them. A state
file torn by a crash raises at the next start: there is no behaviour after it. The session
watcher is optional and read-only, and only adds records nobody waits for.

## Plan

Done: agent, plugin and device with their composition and `Approval`; boot health, update
and push; lines, chime, sleep, screens, panels, faces, clocks, pet; Wi-Fi and transfer; theorems
for the safety properties of all of them. Left, in this order:

1. An abstract specification of an update that both `OtaDevice` and `OtaPush` are shown to implement,
   so that what the host is told and what the flash holds are tied in one statement.
2. An abstract specification of the credentials, a register that a commit sets at one write, with
   `WifiCredentials` shown to implement it.
3. The 900-byte budget and the cut of ids, in a module on sizes.
