-------------------------- MODULE CharacterTransfer --------------------------
(***************************************************************************)
(* The pack of GIFs the device can show instead of its built-in pet: a host *)
(* streams it into LittleFS with char_begin, then file, chunk... and        *)
(* file_end for each file, then char_end, waiting for every answer (xfer.h); *)
(* character.cpp loads what lies under /characters/ and plays it.           *)
(*                                                                         *)
(* A file is counted in units of one chunk.  A pack is a manifest and two   *)
(* GIFs: the idle state rotates through both, the busy state has one and    *)
(* the remaining states have none.  A link lost, a power cut and a file     *)
(* system that does not mount are counted by troubles.                        *)
(***************************************************************************)
EXTENDS Naturals, Sequences, Functions

CONSTANTS
  Packs,       \* the characters a host may install
  NoPack,      \* no character
  Sizes,       \* the chunks of every file of every pack
  Flash,       \* the chunks that fit in the file system
  Headroom,    \* what the fit check keeps back for metadata
  MaxTrouble    \* bound on the faults of a behaviour

Files == {"manifest", "one", "two"}
NoFile == <<"no", "file">>

ASSUMPTION TransferAssumption ==
  /\ NoPack \notin Packs
  /\ Sizes \in [Packs -> [Files -> Nat \ {0}]]
  /\ {Flash, Headroom, MaxTrouble} \subseteq Nat

\* The GIFs the manifest lists for a state of the pet.
Variants(s) == CASE s = "idle" -> <<"one", "two">>
                 [] s = "busy" -> <<"two">>
                 [] OTHER -> <<>>
PetStates == {"idle", "busy", "celebrate"}

VARIABLES
  files,      \* for every directory under /characters/, the length of its files
  xfer,       \* active, the pack of the last char_begin, the open file
              \* (_xFile), what it should hold and what was written
  loaded,     \* the pack whose manifest characterInit read last
  anim,       \* curState, the GIF that is open, where each rotation stands
  pet,        \* buddyMode, gifAvailable and the species saved in NVS
  installer,       \* what the host is installing, the files left, the chunks left
              \* of the current one, whether it gave the total
  kept,       \* the last wipe could not remove the file that was open
  installed,  \* the pack the host last saw confirmed
  troubles

transferVars == <<files, xfer, loaded, anim, pet, installer, kept, installed, troubles>>

SizeOf(fs) == SumFunction(fs)
Used == SumFunction([p \in DOMAIN files |-> SizeOf(files[p])])
Whole(p) == p \in DOMAIN files /\ files[p] = Sizes[p]
Parses(p, st) == /\ "manifest" \in DOMAIN st[p]
                 /\ st[p]["manifest"] = Sizes[p]["manifest"]

Closed == [state |-> "none", gif |-> "none", rot |-> [s \in PetStates |-> 0],
           pause |-> FALSE]
QuietXfer == [active |-> FALSE, pack |-> NoPack, file |-> NoFile,
              expected |-> 0, written |-> 0]
NoInstall == [step |-> "idle", pack |-> NoPack, left |-> {}, chunks |-> 0,
              told |-> FALSE]

(* Opening the GIF of a state fails when the file is not there. *)
Opened(s, rot) ==
  LET v == Variants(s)
  IN  IF v # <<>> /\ v[rot[s] + 1] \in DOMAIN files[loaded]
      THEN v[rot[s] + 1] ELSE "none"

TransferInit ==
  /\ files = << >> /\ xfer = QuietXfer /\ loaded = NoPack /\ anim = Closed
  /\ pet = [buddy |-> TRUE, gifs |-> FALSE, species |-> "gif"]
  /\ installer = NoInstall /\ kept = FALSE /\ installed = NoPack /\ troubles = 0

(***************************************************************************)
(* The commands, each with the answer the host waits for.                  *)
(***************************************************************************)

TotalOf(p) == SizeOf(Sizes[p])

\* For comparison: the check of the room left out.
FitsAnyway(total) == total \in Nat

\* The fit check comes first; then the GIF is closed, everything is wiped and
\* the new directory made.  External: the file system may refuse to unlink the
\* file a broken transfer left open.
Fits(total) == total = 0 \/ total + Headroom <= (Flash - Used) + Used
Wiped(keep) == [p \in {k[1] : k \in keep} |->
                  [f \in {k[2] : k \in {j \in keep : j[1] = p}} |-> files[p][f]]]
StillThere == xfer.file # NoFile /\ xfer.file[1] \in DOMAIN files
              /\ xfer.file[2] \in DOMAIN files[xfer.file[1]]
Unfinished == {k \in {xfer.file} : StillThere}

CharBegin(p) ==
  /\ installer.step = "idle"
  /\ \E gives \in BOOLEAN :
       IF ~Fits(IF gives THEN TotalOf(p) ELSE 0)
       THEN UNCHANGED transferVars
       ELSE \E keep \in SUBSET Unfinished :
              LET left == Wiped(keep) IN
              /\ files' = [q \in DOMAIN left \cup {p} |->
                             IF q \in DOMAIN left THEN left[q] ELSE << >>]
              /\ kept' = (keep # {})
              /\ xfer' = [xfer EXCEPT !.active = TRUE, !.pack = p]
              /\ loaded' = NoPack
              /\ anim' = [anim EXCEPT !.state = "none", !.gif = "none"]
              /\ installer' = [step |-> "files", pack |-> p, left |-> Files,
                          chunks |-> 0, told |-> gives]
              /\ installed' = NoPack
              /\ UNCHANGED <<pet, troubles>>

\* Opening a file for writing truncates it and closes the one open before.
FileStart ==
  /\ installer.step = "files" /\ xfer.active
  /\ \E f \in installer.left :
       /\ files' = [files EXCEPT ![xfer.pack] =
                      [g \in DOMAIN @ \cup {f} |-> IF g = f THEN 0 ELSE @[g]]]
       /\ xfer' = [xfer EXCEPT !.file = <<xfer.pack, f>>, !.written = 0,
                               !.expected = Sizes[installer.pack][f]]
       /\ installer' = [installer EXCEPT !.step = "chunks", !.left = @ \ {f},
                               !.chunks = Sizes[installer.pack][f]]
  /\ UNCHANGED <<loaded, anim, pet, kept, installed, troubles>>

\* The result of the write is not looked at: a full file system loses the
\* chunk and the answer still counts it.
Chunk ==
  /\ installer.step = "chunks" /\ installer.chunks > 0 /\ xfer.active
  /\ files' = IF Used < Flash
              THEN [files EXCEPT ![xfer.file[1]][xfer.file[2]] = @ + 1]
              ELSE files
  /\ xfer' = [xfer EXCEPT !.written = @ + 1]
  /\ installer' = [installer EXCEPT !.chunks = @ - 1]
  /\ UNCHANGED <<loaded, anim, pet, kept, installed, troubles>>

FileEnd ==
  /\ installer.step = "chunks" /\ installer.chunks = 0 /\ xfer.active
  /\ LET ok == xfer.file # NoFile /\ xfer.written = xfer.expected IN
     installer' = IF ok THEN [installer EXCEPT !.step = IF installer.left = {} THEN "end" ELSE "files"]
             ELSE NoInstall
  /\ xfer' = [xfer EXCEPT !.file = NoFile]
  /\ UNCHANGED <<files, loaded, anim, pet, kept, installed, troubles>>

CharEnd ==
  /\ installer.step = "end" /\ xfer.active
  /\ xfer' = [xfer EXCEPT !.active = FALSE]
  /\ IF Parses(xfer.pack, files)
     THEN /\ loaded' = xfer.pack
          /\ anim' = [anim EXCEPT !.rot = [s \in PetStates |-> 0]]
          /\ pet' = [buddy |-> FALSE, gifs |-> TRUE, species |-> "gif"]
          /\ installed' = IF installer.told /\ ~kept THEN xfer.pack ELSE NoPack
     ELSE UNCHANGED <<loaded, anim, pet, installed>>
  /\ installer' = NoInstall
  /\ UNCHANGED <<files, kept, troubles>>

(***************************************************************************)
(* The pet on the screen.                                                  *)
(***************************************************************************)

\* The loop sets the state of the pet before it draws it.
ShowState(s) ==
  /\ loaded # NoPack /\ ~pet.buddy /\ s # anim.state
  /\ anim' = [anim EXCEPT !.state = s, !.gif = Opened(s, anim.rot), !.pause = FALSE]
  /\ UNCHANGED <<files, xfer, loaded, pet, installer, kept, installed, troubles>>

\* At its end a GIF that is alone stays on its last frame; one of several is
\* played again until its time is up, and then the rotation pauses.
GifEnds ==
  /\ loaded # NoPack /\ ~pet.buddy /\ anim.gif # "none"
  /\ LET n == Len(Variants(anim.state)) IN
     anim' = IF n = 1 THEN [anim EXCEPT !.gif = "none"]
             ELSE [anim EXCEPT !.gif = "none", !.pause = TRUE,
                               !.rot[anim.state] = (@ + 1) % n]
  /\ UNCHANGED <<files, xfer, loaded, pet, installer, kept, installed, troubles>>

PauseEnds ==
  /\ loaded # NoPack /\ ~pet.buddy /\ anim.pause /\ anim.gif = "none"
  /\ anim' = [anim EXCEPT !.pause = FALSE, !.gif = Opened(anim.state, anim.rot)]
  /\ UNCHANGED <<files, xfer, loaded, pet, installer, kept, installed, troubles>>

\* characterInvalidate: the GIF of the current state is opened again.
Reopened ==
  IF loaded = NoPack THEN anim
  ELSE [anim EXCEPT !.pause = FALSE,
                    !.gif = IF anim.state = "none" THEN "none"
                            ELSE Opened(anim.state, anim.rot)]

\* The settings menu goes through the species and, with a pack, the GIFs.
NextPet ==
  /\ \/ ~pet.buddy /\ pet' = [pet EXCEPT !.buddy = TRUE, !.species = "ascii"]
     \/ pet.buddy /\ pet.gifs /\ pet' = [pet EXCEPT !.buddy = FALSE, !.species = "gif"]
     \/ pet.buddy /\ pet' = [pet EXCEPT !.species = "ascii"]
  /\ anim' = Reopened
  /\ UNCHANGED <<files, xfer, loaded, installer, kept, installed, troubles>>

\* The host may choose the species too.
SpeciesCommand(s) ==
  /\ pet' = [pet EXCEPT !.species = s, !.buddy = ~(pet.gifs /\ s = "gif")]
  /\ UNCHANGED <<files, xfer, loaded, anim, installer, kept, installed, troubles>>

(***************************************************************************)
(* Restarts and faults.                                                    *)
(***************************************************************************)

\* characterInit without a name takes the first directory it meets.
BootsOn(st, species) ==
  \E p \in (DOMAIN st) \cup {q \in {NoPack} : DOMAIN st = {}} :
    LET up == p # NoPack /\ Parses(p, st) IN
    /\ files' = st
    /\ loaded' = IF up THEN p ELSE NoPack
    /\ pet' = [buddy |-> ~(up /\ species = "gif"), gifs |-> up, species |-> species]
    /\ xfer' = QuietXfer /\ anim' = Closed /\ kept' = FALSE
    /\ installer' = NoInstall

\* What was not synced of the open file is gone.
PowerCut ==
  /\ troubles < MaxTrouble /\ troubles' = troubles + 1
  /\ IF StillThere
     THEN \E n \in 0..files[xfer.file[1]][xfer.file[2]] :
            BootsOn([files EXCEPT ![xfer.file[1]][xfer.file[2]] = n], pet.species)
     ELSE BootsOn(files, pet.species)
  /\ UNCHANGED installed

\* A file system that does not mount is formatted.
MountFails ==
  /\ troubles < MaxTrouble /\ troubles' = troubles + 1
  /\ BootsOn(<< >>, pet.species) /\ installed' = NoPack

LinkDrops ==
  /\ troubles < MaxTrouble /\ troubles' = troubles + 1
  /\ installer.step # "idle" /\ installer' = NoInstall
  /\ UNCHANGED <<files, xfer, loaded, anim, pet, kept, installed>>

\* Both entries of the reset menu end in a restart.
DeleteCharacter ==
  /\ \E keep \in SUBSET (Unfinished \cup {k \in {<<loaded, anim.gif>>} : anim.gif # "none"}) :
       BootsOn(Wiped(keep), pet.species)
  /\ installed' = NoPack /\ UNCHANGED troubles
FactoryReset == BootsOn(<< >>, "gif") /\ installed' = NoPack /\ UNCHANGED troubles

Serve == FileStart \/ Chunk \/ FileEnd \/ CharEnd
TransferNext ==
  \/ \E p \in Packs : CharBegin(p)
  \/ Serve
  \/ \E s \in PetStates : ShowState(s)
  \/ GifEnds \/ PauseEnds \/ NextPet
  \/ \E s \in {"gif", "ascii"} : SpeciesCommand(s)
  \/ PowerCut \/ MountFails \/ LinkDrops \/ DeleteCharacter \/ FactoryReset

TransferSpec == TransferInit /\ [][TransferNext]_transferVars /\ WF_transferVars(Serve)

(***************************************************************************)
(* Properties.                                                             *)
(***************************************************************************)

TransferTypeOK ==
  /\ DOMAIN files \subseteq Packs
  /\ \A p \in DOMAIN files : DOMAIN files[p] \subseteq Files
  /\ Used <= Flash
  /\ xfer.active \in BOOLEAN /\ xfer.pack \in Packs \cup {NoPack}
  /\ xfer.written <= xfer.expected
  /\ loaded \in Packs \cup {NoPack} /\ anim.gif \in Files \cup {"none"}
  /\ installer.left \subseteq Files /\ troubles \in 0..MaxTrouble

\* The renderer never plays from files that are being replaced: while a pack
\* comes in nothing is loaded, and the GIF that is open lies on the flash
\* (char_begin closes before it wipes).
NothingPlaysWhileRewritten ==
  /\ xfer.active => loaded = NoPack
  /\ anim.gif # "none" => loaded \in DOMAIN files /\ anim.gif \in DOMAIN files[loaded]

\* A pack the host saw confirmed, having given its total, is whole, alone under
\* /characters/ and loaded, whatever broken transfers, reboots and power cuts
\* came before and after, until something is installed over it or removed.
InstalledIsWhole ==
  installed # NoPack =>
    Whole(installed) /\ DOMAIN files = {installed} /\ loaded = installed

\* The pet on the screen is the one the next boot chooses: buttons, the host's
\* species command and an install leave buddyMode and the saved species agreed.
PetAsSaved == pet.buddy = ~(pet.gifs /\ pet.species = "gif")

\* The pack that plays is whole, and the one that was chosen.
PackIsWhole == NothingPlaysWhileRewritten /\ InstalledIsWhole /\ PetAsSaved

\* A transfer ends: confirmed, refused or broken off.
TransferEnds == installer.step # "idle" ~> installer.step = "idle"
================================================================================
