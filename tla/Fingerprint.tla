----------------------------- MODULE Fingerprint -----------------------------
(***************************************************************************)
(* The fingerprint manager (fingerprint_process.c) between the settings     *)
(* pages, the secure element that keeps the list of fingers, and the        *)
(* fingerprint module on the other end of a serial line.                    *)
(*                                                                         *)
(* Every command first asks the module for a random number; one variable    *)
(* holds the command that waits for it and another its finger.  The module  *)
(* acknowledges a command and gives its result later; a command without an  *)
(* acknowledgement for a second is given again, a result is never repeated. *)
(* Frames are lost: a bad CRC, or a second frame in the one buffer.         *)
(***************************************************************************)
EXTENDS Integers, Sequences, FiniteSets

CONSTANTS
    MaxOps,     \* bound: what the user asks for
    MaxLosses,  \* bound: frames lost
    MaxBoots    \* bound: times the power fails

ASSUME BoundAssumption == {MaxOps, MaxLosses, MaxBoots} \subseteq Nat

VARIABLES
    slot,     \* g_delayCmd
    index,    \* g_fpIndex
    awaiting, \* the commands whose counters run, the oldest first
    delSave,  \* g_delFpSave
    manager,  \* g_fpManager: fingerId and fingerNum
    saved,    \* its copy in the secure element
    chip,     \* g_chipIdState
    ui,       \* the page of the settings
    returning,\* the left button of the page only returns
    up, down, \* the serial line
    module,   \* the fingers the module knows
    doing,    \* the finger it is registering
    checked,  \* history: the fingers were counted since the boot
    crossed,  \* history: the user did not wait for the module
    missing,  \* history: a frame was lost that nothing repeats
    ops, losses, boots

ram == <<slot, index, awaiting, delSave, manager, chip>>
line == <<up, down>>
bounds == <<ops, losses, boots>>
vars == <<ram, saved, ui, line, module, doing, checked, crossed, missing, returning, bounds>>

Fingers == 0..2
None == 3
Timed == {"REG", "DELETE_SINGLE", "DELETE_ALL", "GET_REG_NUM"}
Commands == Timed \cup {"GET_CHIP_ID", "CANCEL"}
NoCmd == "none"

Empty == [id |-> {}, num |-> 0]
Holding(fingers) == [id |-> fingers, num |-> Cardinality(fingers)]
Command(c, i) == [cmd |-> c, arg |-> i]
Random == Command("RANDOM", 0)
Ack(c) == [cmd |-> c, ack |-> TRUE, ok |-> TRUE, arg |-> 0]
Result(c, ok, arg) == [cmd |-> c, ack |-> FALSE, ok |-> ok, arg |-> arg]

(* A counter is in the queue once. *)
Remove(queue, c) ==
    IF \E k \in DOMAIN queue : queue[k] = c
    THEN LET k == CHOOSE k \in DOMAIN queue : queue[k] = c
         IN  SubSeq(queue, 1, k - 1) \o SubSeq(queue, k + 1, Len(queue))
    ELSE queue

(* The counter of c stops, or starts at zero. *)
Without(c) == Remove(awaiting, c)
Started(c) == Append(Without(c), c)

Init ==
    /\ \E fingers \in SUBSET Fingers :
        /\ manager = Holding(fingers) /\ saved = manager /\ module = fingers
    /\ slot = "GET_REG_NUM" /\ index = 0 /\ awaiting = <<"GET_REG_NUM">>
    /\ delSave = FALSE /\ chip = FALSE /\ ui = "manager" /\ returning = FALSE
    /\ up = <<Random>> /\ down = <<>> /\ doing = None
    /\ checked = FALSE /\ crossed = FALSE /\ missing = FALSE
    /\ ops = 0 /\ losses = 0 /\ boots = 0

(* No counter runs and nothing is on the line. *)
Quiet == awaiting = <<>> /\ up = <<>> /\ down = <<>>

-----------------------------------------------------------------------------
(* Commands.                                                                *)

(* FpRegSend, FpDeleteSend, FpGetNumberSend *)
Ask(c, i, queue) ==
    /\ slot' = c /\ index' = i /\ awaiting' = queue
    /\ up' = Append(up, Random)

(* The user asks for something: what he does while the module is busy, or   *)
(* before the fingers are counted, is noted.                                *)
User(page) ==
    /\ ui \in page /\ ops < MaxOps /\ ops' = ops + 1
    /\ crossed' = (crossed \/ ~Quiet)
    /\ UNCHANGED <<losses, boots, saved, manager, chip, down, module, doing, checked, missing>>

(* RegisterFp of the first free place, from the list or once more after too *)
(* many failures: ClearFingerErrorStateView goes back a page, whose left    *)
(* button GuiDevSettingPrevTile makes a mere return.                        *)
Add ==
    /\ User({"manager", "limit"})
    /\ \E i \in Fingers \ manager.id :
        /\ \A j \in Fingers \ manager.id : i <= j
        /\ Ask("REG", i, Started("REG"))
    /\ ui' = "adding" /\ returning' = (ui = "limit")
    /\ UNCHANGED delSave

(* CancelCurFingerHandler: FpCancelCurOperate starts no counter. *)
Cancel ==
    /\ User({"adding"}) /\ ~returning
    /\ Ask("CANCEL", index, awaiting)
    /\ ui' = "manager"
    /\ UNCHANGED <<delSave, returning>>

(* ReturnHandler: the module is not told, and goes on registering; a user    *)
(* who leaves it so has not waited.                                         *)
Leave ==
    /\ ui = "adding" /\ returning
    /\ ui' = "manager" /\ returning' = FALSE
    /\ crossed' = TRUE
    /\ UNCHANGED <<ram, saved, line, module, doing, checked, missing, bounds>>

(* FingerDeleteHandler *)
Delete(i) ==
    /\ User({"manager"}) /\ i \in manager.id
    /\ Ask("DELETE_SINGLE", i, Started("DELETE_SINGLE"))
    /\ UNCHANGED <<delSave, ui, returning>>

(* FingerCancelRegisterHandler and GuiFingerCancelRegister, from the        *)
(* keyboard: the finger that was registered last is to go.                  *)
CancelRegister ==
    /\ User({"keyboard"})
    /\ delSave' = TRUE
    /\ Ask("DELETE_SINGLE", index, Started("DELETE_SINGLE"))
    /\ ui' = "manager" /\ UNCHANGED returning

(* Mutant: the finger is not written to the secure element. *)
NotWritten == saved

(* SetFingerManagerInfoToSE *)
Written == manager'

(* AddFingerManager *)
WithFinger == [id |-> manager.id \cup {index}, num |-> manager.num + 1]

(* The password is right: FpSaveKeyInfo. *)
PasswordRight ==
    /\ ui = "keyboard" /\ ui' = "manager"
    /\ crossed' = (crossed \/ ~Quiet)
    /\ manager' = WithFinger /\ saved' = Written
    /\ UNCHANGED <<slot, index, awaiting, delSave, chip, line, module, doing, checked,
                   missing, returning, bounds>>

-----------------------------------------------------------------------------
(* The answers of the module.                                               *)

Arrives(c, ack) ==
    /\ down # <<>> /\ Head(down).cmd = c /\ Head(down).ack = ack
    /\ down' = Tail(down)
    /\ UNCHANGED <<module, doing, returning, bounds>>

(* FpUpdateUpdateRandom and FpDelayMsgSend: the command that waits is sent  *)
(* with the finger of now, and its counter starts.                          *)
RandomRecv ==
    /\ Arrives("RANDOM", FALSE)
    /\ IF slot = NoCmd
       THEN UNCHANGED <<up, awaiting>>
       ELSE up' = Append(up, Command(slot, index)) /\ awaiting' = Started(slot)
    /\ slot' = NoCmd
    /\ UNCHANGED <<index, delSave, manager, chip, saved, ui, checked, crossed, missing>>

(* FpResponseHandle *)
Acknowledged ==
    /\ \E c \in Commands : Arrives(c, TRUE) /\ awaiting' = Without(c)
    /\ UNCHANGED <<slot, index, delSave, manager, chip, saved, ui, up, checked, crossed, missing>>

(* FpRegRecv: the eighth good touch, or the eighteenth without. *)
RegRecv ==
    /\ Arrives("REG", FALSE)
    /\ \/ /\ Head(down).ok
          /\ index' = Head(down).arg
          /\ ui' = IF ui = "adding" THEN "keyboard" ELSE ui
          /\ UNCHANGED <<slot, awaiting, up>>
       \/ /\ ~Head(down).ok
          /\ Ask("CANCEL", index, awaiting)
          /\ ui' = IF ui = "adding" THEN "limit" ELSE ui
    /\ UNCHANGED <<delSave, manager, chip, saved, checked, crossed, missing>>

(* DeleteFingerManager, and FpDeleteRecv when no finger is left *)
WithoutFinger ==
    IF manager.num <= 1 THEN Empty
    ELSE [id |-> manager.id \ {index}, num |-> manager.num - 1]

Swallowed == delSave

DeleteRecv ==
    /\ Arrives("DELETE_SINGLE", FALSE)
    /\ IF Head(down).ok
       THEN IF Swallowed
            THEN delSave' = FALSE /\ UNCHANGED <<manager, saved>>
            ELSE manager' = WithoutFinger /\ saved' = manager' /\ UNCHANGED delSave
       ELSE UNCHANGED <<delSave, manager, saved>>
    /\ UNCHANGED <<slot, index, awaiting, chip, ui, up, checked, crossed, missing>>

DeleteAllRecv ==
    /\ Arrives("DELETE_ALL", FALSE)
    /\ manager' = Empty
    /\ UNCHANGED <<slot, index, awaiting, delSave, chip, saved, ui, up, checked, crossed, missing>>

(* Mutant: the module is told to delete without a counter. *)
NotCounted(queue) == queue

(* FpDeleteSend(FINGERPRINT_CMD_DELETE_ALL, 1) *)
DeleteAllCounted(queue) == Append(Remove(queue, "DELETE_ALL"), "DELETE_ALL")

(* FpGetNumberRecv: only the numbers are compared.  SearchFpChipId takes    *)
(* the place of the DELETE_ALL that waits.                                  *)
GetNumberRecv ==
    /\ Arrives("GET_REG_NUM", FALSE)
    /\ LET differs == Head(down).arg # manager.num
           asked == IF differs THEN <<Random>> ELSE <<>>
       IN  /\ IF differs
              THEN /\ manager' = Empty /\ saved' = Empty /\ index' = 1
                   /\ awaiting' = DeleteAllCounted(Without("GET_REG_NUM"))
              ELSE /\ awaiting' = Without("GET_REG_NUM")
                   /\ UNCHANGED <<manager, saved, index>>
           /\ slot' = IF ~chip THEN "GET_CHIP_ID" ELSE IF differs THEN "DELETE_ALL" ELSE slot
           /\ up' = up \o asked \o (IF ~chip THEN <<Random>> ELSE <<>>)
    /\ checked' = TRUE
    /\ UNCHANGED <<delSave, chip, ui, crossed, missing>>

GetChipId ==
    /\ Arrives("GET_CHIP_ID", FALSE)
    /\ chip' = TRUE
    /\ UNCHANGED <<slot, index, awaiting, delSave, manager, saved, ui, up, checked, crossed, missing>>

(* Mutant: a command that was given again is not counted again. *)
CountedOnce(c) == <<>>

(* FpTimeoutHandle stops every counter.  The commands of the switch start    *)
(* theirs; of the others the counter wraps from 0xFF to 0 and runs.         *)
CountersAfter(c) == <<c>>

(* The oldest counter has run for a second; nothing is on the line so long. *)
FpTimeoutHandle ==
    /\ awaiting # <<>> /\ up = <<>> /\ down = <<>>
    /\ LET c == Head(awaiting)
       IN  Ask(c, IF c = "DELETE_ALL" THEN 1 ELSE index, CountersAfter(c))
    /\ UNCHANGED <<delSave, manager, chip, saved, ui, down, module, doing, checked, crossed,
                   missing, returning, bounds>>

-----------------------------------------------------------------------------
(* The module, the line, and the power.                                     *)

Answers(c, i) ==
    CASE c = "RANDOM" -> <<Result(c, TRUE, 0)>>
      [] c \in {"REG", "CANCEL"} -> <<Ack(c)>>
      [] c = "DELETE_SINGLE" -> <<Ack(c), Result(c, i \in module, 0)>>
      [] c = "GET_REG_NUM" -> <<Ack(c), Result(c, TRUE, Cardinality(module))>>
      [] OTHER -> <<Ack(c), Result(c, TRUE, 0)>>

Answer ==
    /\ up # <<>> /\ up' = Tail(up)
    /\ LET c == Head(up).cmd
           i == Head(up).arg
       IN  /\ down' = down \o Answers(c, i)
           /\ module' = CASE c = "DELETE_SINGLE" -> module \ {i}
                          [] c = "DELETE_ALL" -> {}
                          [] OTHER -> module
           /\ doing' = CASE c = "REG" -> i [] c = "CANCEL" -> None [] OTHER -> doing
    /\ UNCHANGED <<ram, saved, ui, checked, crossed, missing, returning, bounds>>

(* The finger is known after eight good touches; that takes longer than     *)
(* giving REG again.  A touch after the user has cancelled is noted.        *)
Touch(good) ==
    /\ doing # None /\ \A k \in DOMAIN awaiting : awaiting[k] # "REG"
    /\ down' = Append(down, Result("REG", good, doing))
    /\ IF good THEN module' = module \cup {doing} /\ doing' = None
       ELSE doing # None /\ ~(\E k \in DOMAIN down : down[k].cmd = "REG") /\ ui = "adding"
            /\ UNCHANGED <<module, doing>>
    /\ crossed' = (crossed \/ ui # "adding" \/ ~Quiet)
    /\ UNCHANGED <<ram, saved, ui, up, checked, missing, returning, bounds>>

(* A CANCEL or GET_CHIP_ID whose random number is lost is not given again,  *)
(* and a result is not.                                                     *)
Unrepeated(m) ==
    \/ m.cmd = "RANDOM" /\ slot \in {"CANCEL", "GET_CHIP_ID"}
    \/ m.cmd # "RANDOM" /\ "ack" \in DOMAIN m /\ ~m.ack

Lose ==
    /\ losses < MaxLosses /\ losses' = losses + 1
    /\ \/ /\ up # <<>> /\ up' = Tail(up) /\ UNCHANGED down
          /\ missing' = (missing \/ Unrepeated(Head(up)))
       \/ /\ down # <<>> /\ down' = Tail(down) /\ UNCHANGED up
          /\ missing' = (missing \/ Unrepeated(Head(down)))
    /\ UNCHANGED <<ram, saved, ui, returning, module, doing, checked, crossed, ops, boots>>

(* The power fails; FpGetAesKeyState reads the list and has the fingers     *)
(* counted.  FingerprintRestart ends what the module was doing.             *)
Reboot ==
    /\ boots < MaxBoots /\ boots' = boots + 1
    /\ manager' = saved
    /\ slot' = "GET_REG_NUM" /\ index' = 0 /\ awaiting' = <<"GET_REG_NUM">>
    /\ delSave' = FALSE /\ chip' = FALSE /\ ui' = "manager" /\ returning' = FALSE
    /\ up' = <<Random>> /\ down' = <<>> /\ doing' = None /\ checked' = FALSE
    /\ UNCHANGED <<saved, module, crossed, missing, ops, losses>>

(* Nothing happens until the user touches the screen. *)
Rest == Quiet /\ UNCHANGED vars

Receive ==
    \/ RandomRecv \/ Acknowledged \/ RegRecv \/ DeleteRecv \/ DeleteAllRecv
    \/ GetNumberRecv \/ GetChipId

Next ==
    \/ Add \/ Cancel \/ Leave \/ CancelRegister \/ PasswordRight \/ (\E i \in Fingers : Delete(i))
    \/ Receive \/ FpTimeoutHandle
    \/ Answer \/ (\E good \in BOOLEAN : Touch(good)) \/ Lose \/ Reboot \/ Rest

(* The task receives, the timer runs and the module answers what it gets.   *)
Fairness == WF_vars(Receive) /\ WF_vars(FpTimeoutHandle) /\ WF_vars(Answer)

Spec == Init /\ [][Next]_vars /\ Fairness

-----------------------------------------------------------------------------
(* Properties.                                                              *)

TypeOK ==
    /\ slot \in Commands \cup {NoCmd} /\ index \in Fingers
    /\ awaiting \in Seq(Commands) /\ Len(awaiting) <= Cardinality(Commands)
    /\ {delSave, chip, returning, checked, crossed, missing} \subseteq BOOLEAN
    /\ {manager.id, saved.id, module} \subseteq SUBSET Fingers
    /\ {manager.num, saved.num} \subseteq 0..3
    /\ ui \in {"manager", "adding", "keyboard", "limit"} /\ doing \in Fingers \cup {None}

(* When nothing is under way and the fingers were counted, the list, its    *)
(* copy and the module agree, whatever frames were given again and wherever *)
(* the power failed: provided the user waited for the module, and no frame  *)
(* was lost that nothing repeats.                                           *)
ListMatches ==
    Quiet /\ checked /\ ui = "manager" /\ doing = None /\ ~crossed /\ ~missing =>
        manager = Holding(module) /\ saved = manager

(* A command that waits for its random number is not forgotten when that    *)
(* number is lost: its counter runs.                                        *)
NothingForgotten ==
    slot \in Timed /\ ~crossed =>
        \/ \E k \in DOMAIN awaiting : awaiting[k] = slot
        \/ \E k \in DOMAIN up : up[k] = Random
        \/ \E k \in DOMAIN down : down[k].cmd = "RANDOM"

(* Again and again the list and the module have the same number of fingers: *)
(* after a boot they are counted, and a module that holds fingers the list   *)
(* does not know loses them, also when frames are lost; unless the user did *)
(* not wait, or a frame was lost that nothing repeats.                      *)
BootConverges ==
    []<>(\/ checked /\ Cardinality(module) = manager.num
         \/ ui # "manager" \/ doing # None \/ crossed \/ missing)
=============================================================================
