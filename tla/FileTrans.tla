----------------------------- MODULE FileTrans -----------------------------
(***************************************************************************)
(* The reception of a file over USB (service_file_trans.c): a firmware or  *)
(* an NFT picture is announced (Info), sent chunk by chunk (Content) and   *)
(* ended (Complete) by the data-parser task, while a one-shot timer, whose *)
(* callback runs in the RTOS timer task of a higher priority, ends the     *)
(* transfer after ten silent seconds.  A handler is cut where the callback *)
(* may come in between two of its statements; the power may fail at any    *)
(* step, the reply to the host may be lost and the host may leave.         *)
(*                                                                         *)
(* A file is a model value of N chunks; a chunk is known by its file, its  *)
(* number and whether the device turned it into plain text.  Size, offset  *)
(* and MD5 are counted in chunks: an MD5 is the sequence it was fed with.  *)
(* The host is honest: it announces a well-formed file, sends its chunks   *)
(* in the order of the acknowledged offsets, and sends encrypted chunks of *)
(* a firmware and plain ones of a picture.                                 *)
(***************************************************************************)
EXTENDS Integers, Sequences

CONSTANTS
    FwFiles,    \* the firmware files a host may send (1:keystone3.bin)
    NftFiles,   \* the pictures a host may send (1:nft.bin)
    N,          \* chunks in a file
    Races,      \* may the timer expire while a handler runs?
    ReadErrors, \* may f_read of 1:nft.bin fail?
    FullVolume, \* may the volume of the two files be full?
    NoFile, Absent, Erased

ASSUME FilesDisjoint == FwFiles \cap NftFiles = {}
ASSUME NAssumption == N \in Nat \ {0}
ASSUME FaultsAssumption == {Races, ReadErrors, FullVolume} \subseteq BOOLEAN
ASSUME NoFileAssumption == NoFile \notin FwFiles \cup NftFiles

VARIABLES
    receiving,  \* g_isReceivingFile
    isNft,      \* g_isNftFile
    info,       \* g_fileTransInfo: the announced file, or NoFile
    offset,     \* g_fileTransCtrl.offset
    md5,        \* g_md5Ctx: the chunks hashed so far
    timer,      \* is g_fileTransTimeOutTimer running?
    disk,       \* the two files of the flash file system
    nftValid,   \* nftValid of the device settings, saved at every change
    nftFlash,   \* the flash sectors at START_ADDR
    pc,         \* where the data-parser task is
    sector,     \* i + 1 in WriteNftToFlash: the sector to write next
    host,       \* the file the host is sending and its next chunk, or NoHost
    spoiled,    \* history: kinds whose last transfer met a race or a read error
    short       \* history: kinds whose last transfer met a full volume

ram == <<receiving, isNft, info, offset, md5, timer>>
flash == <<disk, nftValid, nftFlash>>
vars == <<ram, flash, pc, sector, host, spoiled, short>>

Files == FwFiles \cup NftFiles
Kinds == {"fw", "nft"}
Kind(f) == IF f \in NftFiles THEN "nft" ELSE "fw"

NoHost == [file |-> NoFile, next |-> 0]

Chunk == [file : Files, number : 0..N, plain : BOOLEAN]
ASSUME AbsentAssumption == Absent \notin Seq(Chunk)

WholeFile(f) == [i \in 1..N |-> [file |-> f, number |-> i - 1, plain |-> TRUE]]

(* FatfsFileAppend opens with FA_OPEN_APPEND, which creates an absent file. *)
Content(n) == IF disk[n] = Absent THEN <<>> ELSE disk[n]

Init ==
    /\ receiving = FALSE /\ isNft = FALSE
    /\ info = NoFile /\ offset = 0 /\ md5 = <<>>
    /\ timer = FALSE
    /\ disk = [n \in Kinds |-> Absent]
    /\ nftValid = FALSE
    /\ nftFlash = [i \in 1..N |-> Erased]
    /\ pc = "idle" /\ sector = 1
    /\ host = NoHost /\ spoiled = {} /\ short = {}

-----------------------------------------------------------------------------
(* Info *)

(* Mutant: a picture stays valid while its successor arrives. *)
KeepPicture(f) ==
    IF Kind(f) = "nft"
    THEN isNft' = TRUE /\ UNCHANGED nftValid
    ELSE UNCHANGED <<isNft, nftValid>>

(* ServiceNftFileTransInfo, before it calls ServiceFileTransInfo. *)
WithdrawPicture(f) ==
    IF Kind(f) = "nft"
    THEN isNft' = TRUE /\ nftValid' = FALSE
    ELSE UNCHANGED <<isNft, nftValid>>

(* The file is refused: locked device, low battery, size or signature.  The *)
(* announcement has replaced the previous one, and a transfer that was      *)
(* going on has not been ended.                                             *)
InfoRefused(f) ==
    /\ pc = "idle"
    /\ WithdrawPicture(f)
    /\ info' = f /\ offset' = 0
    /\ host' = NoHost
    /\ spoiled' = spoiled \ {Kind(f)} /\ short' = short \ {Kind(f)}
    /\ UNCHANGED <<receiving, md5, timer, disk, nftFlash, pc, sector>>

(* Mutant: an existing file is opened and kept. *)
OpenFile(f) ==
    /\ disk' = [disk EXCEPT ![Kind(f)] = Content(Kind(f))]
    /\ pc' = "info"
    /\ host' = [file |-> f, next |-> 0]

(* The file is created; when that fails the host is told so. *)
CreateFile(f) ==
    \/ /\ disk' = [disk EXCEPT ![Kind(f)] = <<>>]
       /\ pc' = "info"
       /\ host' = [file |-> f, next |-> 0]
    \/ /\ host' = NoHost
       /\ UNCHANGED <<disk, pc>>

InfoAccepted(f) ==
    /\ pc = "idle"
    /\ WithdrawPicture(f)
    /\ info' = f /\ offset' = 0
    /\ md5' = <<>>
    /\ CreateFile(f)
    /\ spoiled' = spoiled \ {Kind(f)} /\ short' = short \ {Kind(f)}
    /\ UNCHANGED <<receiving, timer, nftFlash, sector>>

(* Mutant: the timer is started by the first chunk only. *)
StartWithoutTimer ==
    /\ pc = "info"
    /\ receiving' = TRUE
    /\ pc' = "idle"
    /\ UNCHANGED <<isNft, info, offset, md5, timer, flash, sector, host, spoiled, short>>

StartReceiving ==
    /\ pc = "info"
    /\ receiving' = TRUE
    /\ timer' = TRUE
    /\ pc' = "idle"
    /\ UNCHANGED <<isNft, info, offset, md5, flash, sector, host, spoiled, short>>

-----------------------------------------------------------------------------
(* Content.  When no file is being received the handler returns at once and *)
(* answers nothing, so that the host gives up.                              *)

ContentChecked ==
    /\ pc = "idle" /\ receiving
    /\ host # NoHost /\ host.next < N
    /\ pc' = "content"
    /\ UNCHANGED <<ram, flash, sector, host, spoiled, short>>

(* A firmware chunk comes encrypted, a picture's chunk in plain text; the *)
(* device decrypts unless g_isNftFile.                                    *)
Received == [file |-> host.file, number |-> host.next,
             plain |-> isNft <=> (Kind(host.file) = "nft")]

(* What FatfsFileAppend leaves in the file, told to be a success: f_write on a *)
(* full volume stops short and returns FR_OK, and nobody looks at writeBytes.  *)
(* The part of a chunk that still fits is not kept apart from none.            *)
Written ==
    \/ /\ disk' = [disk EXCEPT ![Kind(info)] = Append(Content(Kind(info)), Received)]
       /\ UNCHANGED short
    \/ /\ FullVolume
       /\ disk' = [disk EXCEPT ![Kind(info)] = Content(Kind(info))]
       /\ short' = short \cup {Kind(info)}

(* Mutant: the offset of the chunk is not compared with the expected one. *)
AppendAnyChunk ==
    /\ offset' = offset + 1
    /\ Written
    /\ md5' = Append(md5, Received)
    /\ \/ UNCHANGED host
       \/ host' = [host EXCEPT !.next = @ + 1]

(* The MD5 takes the chunk that was received, whatever was written of it. *)
AppendChunk ==
    /\ offset = host.next
    /\ offset' = offset + 1
    /\ \/ /\ Written
          /\ md5' = Append(md5, Received)
          /\ \E replyLost \in BOOLEAN :
                host' = IF replyLost THEN host ELSE [host EXCEPT !.next = offset']
       \/ UNCHANGED <<disk, md5, host, short>>     \* append file err: no reply

ContentStored ==
    /\ pc = "content"
    /\ timer' = TRUE
    /\ \/ AppendChunk
       \/ /\ offset # host.next             \* file trans offset err: no reply
          /\ UNCHANGED <<offset, disk, md5, host, short>>
    /\ pc' = "idle"
    /\ UNCHANGED <<receiving, isNft, info, nftValid, nftFlash, sector, spoiled>>

-----------------------------------------------------------------------------
(* Complete *)

CompleteChecked ==
    /\ pc = "idle" /\ receiving
    /\ host # NoHost /\ host.next = N
    /\ receiving' = FALSE
    /\ isNft' = (isNft /\ Kind(host.file) = "fw")
    /\ pc' = "complete"
    /\ UNCHANGED <<info, offset, md5, timer, flash, sector, host, spoiled, short>>

(* Mutant: the MD5 is not compared. *)
CompleteUnverified ==
    /\ pc = "complete"
    /\ timer' = FALSE
    /\ pc' = IF Kind(host.file) = "fw" THEN "reboot" ELSE "write"
    /\ sector' = 1
    /\ UNCHANGED <<receiving, isNft, info, offset, md5, flash, host, spoiled, short>>

(* The file is as announced: a firmware restarts the device into the        *)
(* loader, a picture is copied to its sectors.  ASSERT(false) otherwise.    *)
CompleteVerified ==
    /\ pc = "complete"
    /\ timer' = FALSE
    /\ IF md5 = WholeFile(info)
       THEN /\ pc' = IF Kind(host.file) = "fw" THEN "reboot" ELSE "write"
            /\ UNCHANGED disk
       ELSE /\ pc' = "asserted"
            /\ disk' = [disk EXCEPT ![Kind(info)] = Absent]
    /\ sector' = 1
    /\ UNCHANGED <<receiving, isNft, info, offset, md5, nftValid, nftFlash, host, spoiled, short>>

(* WriteNftToFlash: without the file it returns at once; at the end of the *)
(* file it removes it.                                                     *)
WriteSector ==
    /\ pc = "write"
    /\ disk["nft"] # Absent /\ sector <= Len(disk["nft"])
    /\ nftFlash' = [nftFlash EXCEPT ![sector] = disk["nft"][sector]]
    /\ sector' = sector + 1
    /\ UNCHANGED <<ram, disk, nftValid, pc, host, spoiled, short>>

WriteEnds ==
    /\ pc = "write"
    /\ disk["nft"] # Absent => sector > Len(disk["nft"])
    /\ disk' = [disk EXCEPT !["nft"] = Absent]
    /\ pc' = "valid"
    /\ UNCHANGED <<ram, nftValid, nftFlash, sector, host, spoiled, short>>

(* A read error is printed and the copy abandoned; the caller is not told. *)
ReadFails ==
    /\ ReadErrors
    /\ pc = "write"
    /\ disk["nft"] # Absent /\ sector <= Len(disk["nft"])
    /\ pc' = "valid"
    /\ spoiled' = spoiled \cup {"nft"}
    /\ UNCHANGED <<ram, flash, sector, host, short>>

ShowPicture ==
    /\ pc = "valid"
    /\ nftValid' = TRUE
    /\ pc' = "idle"
    /\ host' = NoHost
    /\ UNCHANGED <<ram, disk, nftFlash, sector, spoiled, short>>

-----------------------------------------------------------------------------
(* The timer, the host and the power *)

(* FileTransTimeOutTimerFunc.  It preempts the data-parser task, so that    *)
(* its statements are one step of that task.                                *)
TimeOut ==
    /\ timer
    /\ pc = "idle" \/ (Races /\ pc \in {"info", "content", "complete"})
    /\ timer' = FALSE
    /\ receiving' = FALSE
    /\ isNft' = FALSE
    /\ disk' = [disk EXCEPT ![Kind(info)] = Absent]
    /\ spoiled' = IF pc = "idle" THEN spoiled ELSE spoiled \cup {Kind(info)}
    /\ UNCHANGED <<info, offset, md5, nftValid, nftFlash, pc, sector, host, short>>

HostLeaves ==
    /\ pc = "idle" /\ host # NoHost
    /\ host' = NoHost
    /\ UNCHANGED <<ram, flash, pc, sector, spoiled, short>>

(* SystemReboot, or a power loss: what is not in flash starts over. *)
Restart ==
    /\ receiving' = FALSE /\ isNft' = FALSE
    /\ info' = NoFile /\ offset' = 0 /\ md5' = <<>>
    /\ timer' = FALSE
    /\ pc' = "idle" /\ sector' = 1
    /\ host' = NoHost
    /\ UNCHANGED <<flash, spoiled, short>>

Handler ==
    \/ StartReceiving \/ ContentStored \/ CompleteVerified
    \/ WriteSector \/ WriteEnds \/ ReadFails \/ ShowPicture

Next ==
    \/ \E f \in Files : InfoRefused(f) \/ InfoAccepted(f)
    \/ ContentChecked \/ CompleteChecked
    \/ Handler \/ TimeOut \/ HostLeaves \/ Restart

(* The task runs once a frame has come, and an RTOS timer that is started *)
(* expires.  Nothing is assumed of the host or of the power.              *)
Spec == Init /\ [][Next]_vars /\ WF_vars(Handler) /\ WF_vars(TimeOut)

-----------------------------------------------------------------------------
(* Properties *)

TypeOK ==
    /\ receiving \in BOOLEAN /\ isNft \in BOOLEAN /\ timer \in BOOLEAN
    /\ info \in Files \cup {NoFile}
    /\ offset \in 0..N
    /\ md5 \in Seq(Chunk)
    /\ disk \in [Kinds -> Seq(Chunk) \cup {Absent}]
    /\ nftValid \in BOOLEAN
    /\ nftFlash \in [1..N -> Chunk \cup {Erased}]
    /\ pc \in {"idle", "info", "content", "complete", "write", "valid", "reboot", "asserted"}
    /\ sector \in 1..(N + 1)
    /\ host \in [file : Files \cup {NoFile}, next : 0..N]
    /\ spoiled \subseteq Kinds /\ short \subseteq Kinds

(* The screen saver is shown from the picture sectors only when they hold    *)
(* one whole picture: a power loss while they are rewritten, a refused or an *)
(* abandoned transfer, none of them leaves nftValid over torn sectors.  Only *)
(* a timer that expires inside Complete (service_file_trans.c:555-559), a    *)
(* read error that the copy does not report (lines 529-534) and a short      *)
(* write that FatfsFileAppend does not report (user_fatfs.c:236) may.        *)
PictureShownIsWhole ==
    nftValid /\ "nft" \notin spoiled \cup short => \E f \in NftFiles : nftFlash = WholeFile(f)

(* The device restarts into its loader only with the announced firmware,     *)
(* decrypted and complete, in 1:keystone3.bin, unless the timer hit a handler *)
(* of its transfer or the volume was full: the MD5 does not see the latter.  *)
RebootWithWholeFile ==
    pc = "reboot" /\ "fw" \notin spoiled \cup short => disk["fw"] = WholeFile(info)

(* What was hashed is what was written, so that the MD5 that Complete        *)
(* compares is the MD5 of the file; on a full volume (user_fatfs.c:236,      *)
(* service_file_trans.c:339) less may be written than was hashed, never more. *)
HashedIsWritten ==
    receiving /\ host # NoHost =>
        IF Kind(info) \in short
        THEN Len(Content(Kind(info))) < Len(md5)
        ELSE Content(Kind(info)) = md5

(* ASSERT(false) in the Complete handlers (service_file_trans.c:402, 583) is *)
(* reached by an honest host in one way only: the firmware's chunks were     *)
(* kept encrypted, because g_isNftFile is left over from a picture that was  *)
(* announced before, or the timer hit a handler.                             *)
AssertOnlyAfterPicture ==
    pc = "asserted" => (Kind(info) = "fw" /\ isNft) \/ Kind(info) \in spoiled

(* While a file is received no request reaches the EAPDU services            *)
(* (protocol_parse.c:26), so a host that has left must not keep the device   *)
(* in that mode: the timer ends it.                                          *)
FileModeEnds == <>[](host = NoHost) => <>[]~receiving

(* ASSERT(false) of the Complete handlers is never reached by an honest host. *)
NeverAsserts == pc # "asserted"
=============================================================================
