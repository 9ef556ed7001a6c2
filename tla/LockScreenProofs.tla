------------------------- MODULE LockScreenProofs -------------------------
(***************************************************************************)
(* The lock flags and the lock page, for queues of any length and any      *)
(* time-out.                                                               *)
(***************************************************************************)
EXTENDS LockScreen, SequenceTheorems, TLAPS

Once(q) == \A i, j \in 1..Len(q) : q[i] = "export" /\ q[j] = "export" => i = j

(* At most one export view is on its way, and none while one is shown. *)
OneExport ==
    /\ exportView => ~Contains(messages, "export")
    /\ Once(messages)

(* Who holds the flags, and what the saved values are. *)
Flags ==
    /\ enable <=> ~HoldsLock /\ ~exportView
    /\ JobActive /\ job.pc # "asserted" => (job.saved <=> ~exportView)
    /\ exportView => exportSaved
    /\ view = "receive" => fullSaved
    /\ ~PageHeld => pageEnable
    /\ PageHeld /\ pageEnable => overwritten
    /\ fullscreen => view = "receive"

FlagInv == Nested => Flags

(* The UI hears of a right password only when the account is logged in, and *)
(* the passphrase view is closed under the lock page.                       *)
PageInv ==
    /\ UnlockedLoggedIn
    /\ PassUnderWay => loggedIn \/ "outran" \in races
    /\ view = "passphrase" => ~lockPage
    /\ job.pc = "pageOff" => job.kind \in {"parse", "setting"}

IInv == TypeOK /\ OneExport /\ FlagInv /\ PageInv

USE DEF flags, saved, shown, ui, page

-----------------------------------------------------------------------------
(* Queues *)

LEMMA JobsPut ==
    \A q \in Seq(Kinds), k \in Kinds : Len(q) <= JobQueue =>
        /\ Put(q, JobQueue, k) \in Seq(Kinds)
        /\ Len(Put(q, JobQueue, k)) <= JobQueue
  BY QueueAssumption DEF Put

LEMMA MessagesPut ==
    \A q \in Seq(Messages), m \in Messages : Len(q) <= UiQueue =>
        /\ Put(q, UiQueue, m) \in Seq(Messages)
        /\ Len(Put(q, UiQueue, m)) <= UiQueue
  BY QueueAssumption DEF Put

LEMMA JobsTail ==
    \A q \in Seq(Kinds) : Len(q) <= JobQueue /\ q # <<>> =>
        Head(q) \in Kinds /\ Tail(q) \in Seq(Kinds) /\ Len(Tail(q)) <= JobQueue
  BY QueueAssumption

LEMMA MessagesTail ==
    \A q \in Seq(Messages) : Len(q) <= UiQueue /\ q # <<>> =>
        Head(q) \in Messages /\ Tail(q) \in Seq(Messages) /\ Len(Tail(q)) <= UiQueue
  BY QueueAssumption

LEMMA Literals ==
    /\ "unlock" \in Kinds /\ "desc" \in Kinds /\ "passphrase" \in Kinds
    /\ "setting" \in Kinds /\ "parse" \in Kinds
    /\ "pass" \in Messages /\ "done" \in Messages /\ "export" \in Messages
    /\ "start" \in Messages /\ "end" \in Messages
    /\ {"none", "clear", "work", "use", "gen", "told", "restore", "pageOff", "pageOn",
        "emit", "asserted"} \subseteq Steps
    /\ NoJob \in [kind : Kinds, pc : Steps, saved : BOOLEAN, ok : BOOLEAN]
  BY DEF Kinds, Messages, Steps, NoJob

LEMMA ContainsPut ==
    \A q \in Seq(Messages), m \in Messages, e \in Messages :
        Contains(Put(q, UiQueue, m), e) => Contains(q, e) \/ e = m
  BY DEF Put, Contains

LEMMA ContainsTail ==
    \A q \in Seq(Messages), e \in Messages : q # <<>> =>
        /\ Contains(q, Head(q))
        /\ Contains(Tail(q), e) => Contains(q, e)
  BY DEF Contains

LEMMA OncePut ==
    \A q \in Seq(Messages), m \in Messages :
        Once(q) /\ (m = "export" => ~Contains(q, "export")) => Once(Put(q, UiQueue, m))
  BY DEF Put, Contains, Once

LEMMA OnceTail ==
    \A q \in Seq(Messages) : q # <<>> /\ Once(q) =>
        /\ Once(Tail(q))
        /\ Head(q) = "export" => ~Contains(Tail(q), "export")
  BY DEF Contains, Once, Messages

-----------------------------------------------------------------------------
(* Types *)

(* The flags are kept apart from the rest: the provers like it so. *)
Booleans ==
    /\ pageEnable \in BOOLEAN /\ enable \in BOOLEAN
    /\ loggedIn \in BOOLEAN /\ lockPage \in BOOLEAN /\ locking \in BOOLEAN
    /\ exportSaved \in BOOLEAN /\ fullSaved \in BOOLEAN
    /\ exportView \in BOOLEAN /\ fullscreen \in BOOLEAN
    /\ loading \in BOOLEAN /\ overwritten \in BOOLEAN

JobType == [kind : Kinds, pc : Steps, saved : BOOLEAN, ok : BOOLEAN]

Data ==
    /\ tick \in 0..TimeOut - 1
    /\ jobs \in Seq(Kinds) /\ Len(jobs) <= JobQueue
    /\ job \in JobType
    /\ messages \in Seq(Messages) /\ Len(messages) <= UiQueue
    /\ view \in Views
    /\ races \subseteq Races

LEMMA TypeSplit == TypeOK <=> Booleans /\ Data
  BY Zenon DEF TypeOK, Booleans, Data, JobType

(* What Worked makes of the job *)
LEMMA WorkedJob ==
    ASSUME job \in JobType, NEW ok \in BOOLEAN, Worked(ok)
    PROVE  /\ job' \in JobType
           /\ job'.kind = job.kind /\ job'.saved = job.saved /\ job'.ok = ok
           /\ job.kind = "unlock" => job'.pc = "restore"
           /\ job.kind = "setting" => job'.pc = "pageOn"
           /\ job.kind \notin {"unlock", "setting"}
                => job'.pc = IF ok THEN "told" ELSE "restore"
<1>1. CASE job.kind = "unlock"
  BY <1>1, Literals DEF Worked, JobType
<1>2. CASE job.kind = "setting"
  BY <1>2, Literals DEF Worked, JobType
<1>3. CASE job.kind \notin {"unlock", "setting"}
<2>1. job' = [job EXCEPT !.ok = ok, !.pc = IF ok THEN "told" ELSE "restore"]
  BY <1>3, Zenon DEF Worked
<2> QED
  BY <1>3, <2>1, Literals DEF JobType
<1> QED
  BY <1>1, <1>2, <1>3

LEMMA InitType == Init => TypeOK
<1> SUFFICES ASSUME Init PROVE Booleans /\ Data
  BY TypeSplit
<1>1. Booleans
  BY Zenon DEF Init, Booleans
<1>2. Data
  BY TimeOutAssumption, QueueAssumption, Literals DEF Init, Data, JobType, Views
<1> QED
  BY <1>1, <1>2

LEMMA BooleansStep == Booleans /\ Data /\ [Next]_vars => Booleans'
<1> SUFFICES ASSUME Booleans, Data, [Next]_vars PROVE Booleans'
  OBVIOUS
<1> USE DEF Booleans
<1>1. ASSUME LockScreenTimerFunc PROVE Booleans'
  BY <1>1, Zenon DEF LockScreenTimerFunc, StartLock, MayLock
<1>2. ASSUME Lock PROVE Booleans'
  BY <1>2, Zenon DEF Lock
<1>3. ASSUME Take PROVE Booleans'
  BY <1>3, Zenon DEF Take, NoJob, Idle
<1>4. ASSUME Clear PROVE Booleans'
  BY <1>4, Zenon DEF Clear, Goto
<1>5. ASSUME PageOff PROVE Booleans'
  BY <1>5, Zenon DEF PageOff, Goto, Noted
<1>6. ASSUME PageOn PROVE Booleans'
  BY <1>6, Zenon DEF PageOn, Goto, Noted, NoJob
<1>7. ASSUME NEW r \in Results, Verify(r) PROVE Booleans'
  BY <1>7, Zenon DEF Verify, Goto, Emit, Worked, NoJob
<1>8. ASSUME NEW ok \in BOOLEAN, VerifyCurrent(ok) PROVE Booleans'
  BY <1>8, Zenon DEF VerifyCurrent
<1>9. ASSUME Generate PROVE Booleans'
  BY <1>9, Zenon DEF Generate, Emit, Worked
<1>10. ASSUME Describe PROVE Booleans'
  BY <1>10, Zenon DEF Describe, Restored, NoJob, Data, JobType
<1>11. ASSUME CheckPassphraseSame PROVE Booleans'
  BY <1>11, Zenon DEF CheckPassphraseSame, Goto, Halt, NoJob
<1>12. ASSUME SetPassphrase PROVE Booleans'
  BY <1>12, Zenon DEF SetPassphrase, Goto, Halt, Emit, Worked, NoJob
<1>13. ASSUME Told PROVE Booleans'
  BY <1>13, Zenon DEF Told, Emit
<1>14. ASSUME Restore PROVE Booleans'
  BY <1>14, Zenon DEF Restore, Restored, Goto, NoJob, Data, JobType
<1>15. ASSUME VerifyResult PROVE Booleans'
  BY <1>15, Zenon DEF VerifyResult, EmitResult, Emit, Answer, NoJob
<1>16. ASSUME HandlePass PROVE Booleans'
  BY <1>16, Zenon DEF HandlePass, CloseView, CloseExport, CleanedUp, Crossed, AsyncExecute, RefreshView, Noted
<1>17. ASSUME HandleDone PROVE Booleans'
  BY <1>17, Zenon DEF HandleDone, CloseView, CloseExport, CleanedUp, Crossed, AsyncExecute, Noted
<1>18. ASSUME HandleExport PROVE Booleans'
  BY <1>18, Zenon DEF HandleExport, Crossed
<1>19. ASSUME GuiShowGenerateXPubLoading PROVE Booleans'
  BY <1>19, Zenon DEF GuiShowGenerateXPubLoading, Noted
<1>20. ASSUME GuiHideGenerateXPubLoading PROVE Booleans'
  BY <1>20, Zenon DEF GuiHideGenerateXPubLoading, Noted
<1>21. ASSUME OpenReceive PROVE Booleans'
  BY <1>21, Zenon DEF OpenReceive, Touched, Crossed
<1>22. ASSUME GuiFullscreenModeToggle PROVE Booleans'
  BY <1>22, Zenon DEF GuiFullscreenModeToggle, Touched, Noted
<1>23. ASSUME OpenPassphrase PROVE Booleans'
  BY <1>23, Zenon DEF OpenPassphrase, Touched
<1>24. ASSUME ConfirmPassphrase PROVE Booleans'
  BY <1>24, Zenon DEF ConfirmPassphrase, Touched, AsyncExecute
<1>25. ASSUME OpenScan PROVE Booleans'
  BY <1>25, Zenon DEF OpenScan, Touched, Noted
<1>26. ASSUME GuiTransactionCheckPass PROVE Booleans'
  BY <1>26, Zenon DEF GuiTransactionCheckPass, AsyncExecute, Noted
<1>27. ASSUME LeaveView PROVE Booleans'
  BY <1>27, Zenon DEF LeaveView, Touched, CloseView, CleanedUp, AsyncExecute, Noted
<1>28. ASSUME AnswerExport PROVE Booleans'
  BY <1>28, Zenon DEF AnswerExport, Touched, CloseExport, Crossed, RefreshView, Noted
<1>29. ASSUME EnterPassword PROVE Booleans'
  BY <1>29, Zenon DEF EnterPassword, AsyncExecute
<1>30. ASSUME ReleaseHandler PROVE Booleans'
  BY <1>30, Zenon DEF ReleaseHandler, StartLock, MayLock
<1>31. ASSUME HostTraffic PROVE Booleans'
  BY <1>31, Zenon DEF HostTraffic, Emit, AtHome
<1>32. CASE UNCHANGED vars
  BY <1>32, Zenon DEF vars
<1> QED
  BY <1>1, <1>2, <1>3, <1>4, <1>5, <1>6, <1>7, <1>8, <1>9, <1>10, <1>11, <1>12,
     <1>13, <1>14, <1>15, <1>16, <1>17, <1>18, <1>19, <1>20, <1>21, <1>22, <1>23,
     <1>24, <1>25, <1>26, <1>27, <1>28, <1>29, <1>30, <1>31, <1>32
     DEF Next, Timer, Background, UiMessage, User

LEMMA DataStep == Booleans /\ Data /\ [Next]_vars => Data'
<1> SUFFICES ASSUME Booleans, Data, [Next]_vars PROVE Data'
  OBVIOUS
<1> USE DEF Data, JobType
<1>1. ASSUME LockScreenTimerFunc PROVE Data'
  BY <1>1, Literals, TimeOutAssumption DEF LockScreenTimerFunc, StartLock, MayLock
<1>2. ASSUME Lock PROVE Data'
  BY <1>2, Literals DEF Lock, Races, Views
<1>3. ASSUME Take PROVE Data'
  BY <1>3, JobsTail, Literals DEF Take, NoJob, Booleans
<1>4. ASSUME Clear PROVE Data'
  BY <1>4, Literals DEF Clear, Goto
<1>5. ASSUME PageOff PROVE Data'
  BY <1>5, Literals DEF PageOff, Goto
<1>6. ASSUME PageOn PROVE Data'
  BY <1>6, Literals DEF PageOn, Goto, NoJob
<1>7. ASSUME NEW r \in Results, Verify(r) PROVE Data'
<2>1. job' \in JobType
<3>1. CASE r = "notMatch"
  BY <1>7, <3>1, Literals DEF Verify
<3>2. CASE r = "generate"
  BY <1>7, <3>2, Literals DEF Verify, Goto
<3>3. CASE r \notin {"notMatch", "generate"}
<4>1. Worked(r = "ok")
  BY <1>7, <3>3 DEF Verify
<4> QED
  BY <4>1, WorkedJob, Zenon
<3> QED
  BY <3>1, <3>2, <3>3
<2>2. messages' \in Seq(Messages) /\ Len(messages') <= UiQueue
  BY <1>7, MessagesPut, Literals DEF Verify, Emit
<2>3. races' \subseteq Races
  BY <1>7 DEF Verify, Races
<2> QED
  BY <1>7, <2>1, <2>2, <2>3 DEF Verify
<1>8. ASSUME NEW ok \in BOOLEAN, VerifyCurrent(ok) PROVE Data'
  BY <1>8, Literals DEF VerifyCurrent
<1>9. ASSUME Generate PROVE Data'
<2>1. job' \in JobType
  BY <1>9, WorkedJob, Zenon DEF Generate
<2>2. messages' \in Seq(Messages) /\ Len(messages') <= UiQueue
  BY <1>9, MessagesPut, Literals DEF Generate, Emit
<2> QED
  BY <1>9, <2>1, <2>2 DEF Generate
<1>10. ASSUME Describe PROVE Data'
  BY <1>10, Literals DEF Describe, Restored, NoJob
<1>11. ASSUME CheckPassphraseSame PROVE Data'
  BY <1>11, Literals DEF CheckPassphraseSame, Goto, Halt, NoJob
<1>12. ASSUME SetPassphrase PROVE Data'
<2>1. job' \in JobType
<3>1. CASE Halt
  BY <3>1, Literals DEF Halt
<3>2. CASE Worked(FALSE) \/ Worked(TRUE)
  BY <3>2, WorkedJob, Zenon
<3>3. CASE Goto("gen")
  BY <3>3, Literals DEF Goto
<3> QED
  BY <1>12, <3>1, <3>2, <3>3 DEF SetPassphrase
<2>2. messages' \in Seq(Messages) /\ Len(messages') <= UiQueue
  BY <1>12, MessagesPut, Literals DEF SetPassphrase, Emit
<2> QED
  BY <1>12, <2>1, <2>2 DEF SetPassphrase
<1>13. ASSUME Told PROVE Data'
  BY <1>13, MessagesPut, Literals DEF Told, Emit
<1>14. ASSUME Restore PROVE Data'
  BY <1>14, Literals DEF Restore, Restored, Goto, NoJob
<1>15. ASSUME VerifyResult PROVE Data'
  BY <1>15, MessagesPut, Literals DEF VerifyResult, EmitResult, Emit, Answer, NoJob
<1>16. ASSUME HandlePass PROVE Data'
  BY <1>16, JobsPut, MessagesTail, Literals DEF HandlePass, CloseView, CloseExport, Crossed, AsyncExecute, Races, Views
<1>17. ASSUME HandleDone PROVE Data'
  BY <1>17, JobsPut, MessagesTail, Literals DEF HandleDone, CloseView, CloseExport, Crossed, AsyncExecute, Races, Views
<1>18. ASSUME HandleExport PROVE Data'
  BY <1>18, MessagesTail, Literals DEF HandleExport, Crossed, Races
<1>19. ASSUME GuiShowGenerateXPubLoading PROVE Data'
  BY <1>19, MessagesTail, Literals DEF GuiShowGenerateXPubLoading
<1>20. ASSUME GuiHideGenerateXPubLoading PROVE Data'
  BY <1>20, MessagesTail, Literals DEF GuiHideGenerateXPubLoading
<1>21. ASSUME OpenReceive PROVE Data'
  BY <1>21, Literals, TimeOutAssumption DEF OpenReceive, Touched, Crossed, Races, Views
<1>22. ASSUME GuiFullscreenModeToggle PROVE Data'
  BY <1>22, Literals, TimeOutAssumption DEF GuiFullscreenModeToggle, Touched
<1>23. ASSUME OpenPassphrase PROVE Data'
  BY <1>23, Literals, TimeOutAssumption DEF OpenPassphrase, Touched, Views
<1>24. ASSUME ConfirmPassphrase PROVE Data'
<2>1. jobs' \in Seq(Kinds) /\ Len(jobs') <= JobQueue
  BY <1>24, JobsPut, Literals DEF ConfirmPassphrase, AsyncExecute
<2> QED
  BY <1>24, <2>1, TimeOutAssumption DEF ConfirmPassphrase, Touched
<1>25. ASSUME OpenScan PROVE Data'
  BY <1>25, Literals, TimeOutAssumption DEF OpenScan, Touched, Views
<1>26. ASSUME GuiTransactionCheckPass PROVE Data'
  BY <1>26, JobsPut, Literals DEF GuiTransactionCheckPass, AsyncExecute, Views
<1>27. ASSUME LeaveView PROVE Data'
<2>1. jobs' \in Seq(Kinds) /\ Len(jobs') <= JobQueue
  BY <1>27, JobsPut, Literals DEF LeaveView, AsyncExecute
<2> QED
  BY <1>27, <2>1, TimeOutAssumption DEF LeaveView, Touched, CloseView, Views
<1>28. ASSUME AnswerExport PROVE Data'
  BY <1>28, Literals, TimeOutAssumption DEF AnswerExport, Touched, CloseExport, Crossed, Races
<1>29. ASSUME EnterPassword PROVE Data'
  BY <1>29, JobsPut, Literals, TimeOutAssumption DEF EnterPassword, AsyncExecute
<1>30. ASSUME ReleaseHandler PROVE Data'
  BY <1>30, Literals, TimeOutAssumption DEF ReleaseHandler, StartLock, MayLock
<1>31. ASSUME HostTraffic PROVE Data'
<2>1. messages' \in Seq(Messages) /\ Len(messages') <= UiQueue
  BY <1>31, MessagesPut, Literals DEF HostTraffic, Emit
<2> QED
  BY <1>31, <2>1, TimeOutAssumption DEF HostTraffic
<1>32. CASE UNCHANGED vars
  BY <1>32 DEF vars
<1> QED
  BY <1>1, <1>2, <1>3, <1>4, <1>5, <1>6, <1>7, <1>8, <1>9, <1>10, <1>11, <1>12,
     <1>13, <1>14, <1>15, <1>16, <1>17, <1>18, <1>19, <1>20, <1>21, <1>22, <1>23,
     <1>24, <1>25, <1>26, <1>27, <1>28, <1>29, <1>30, <1>31, <1>32
     DEF Next, Timer, Background, UiMessage, User

LEMMA TypeStep == TypeOK /\ [Next]_vars => TypeOK'
<1> SUFFICES ASSUME TypeOK, [Next]_vars PROVE TypeOK'
  OBVIOUS
<1>1. Booleans' /\ Data'
  BY TypeSplit, BooleansStep, DataStep
<1> QED
  BY <1>1, Zenon DEF TypeOK, Booleans, Data, JobType

-----------------------------------------------------------------------------
(* One export request at a time *)

LEMMA ExportStep == TypeOK /\ OneExport /\ [Next]_vars => OneExport'
<1> SUFFICES ASSUME TypeOK, OneExport, [Next]_vars PROVE OneExport'
  OBVIOUS
<1> USE DEF OneExport
<1>0. messages \in Seq(Messages) /\ (messages # <<>> => Head(messages) \in Messages)
  BY MessagesTail, Zenon DEF TypeOK
<1>1. ASSUME LockScreenTimerFunc PROVE OneExport'
  BY <1>1 DEF LockScreenTimerFunc
<1>2. ASSUME Lock PROVE OneExport'
  BY <1>2 DEF Lock
<1>3. ASSUME Take PROVE OneExport'
  BY <1>3 DEF Take
<1>4. ASSUME Clear PROVE OneExport'
  BY <1>4 DEF Clear
<1>5. ASSUME PageOff PROVE OneExport'
  BY <1>5 DEF PageOff
<1>6. ASSUME PageOn PROVE OneExport'
  BY <1>6 DEF PageOn
<1>7. ASSUME NEW r \in Results, Verify(r) PROVE OneExport'
  BY <1>7, <1>0, ContainsPut, OncePut, Literals DEF Verify, Emit
<1>8. ASSUME NEW ok \in BOOLEAN, VerifyCurrent(ok) PROVE OneExport'
  BY <1>8 DEF VerifyCurrent
<1>9. ASSUME Generate PROVE OneExport'
<2>1. CASE UNCHANGED messages
  BY <1>9, <2>1 DEF Generate
<2>2. CASE \E m \in {"start", "end"} : Emit(m)
<3>1. PICK m \in {"start", "end"} : messages' = Put(messages, UiQueue, m)
  BY <2>2 DEF Emit
<3>2. m \in Messages /\ m # "export"
  BY <3>1, Literals
<3>3. UNCHANGED exportView
  BY <1>9 DEF Generate
<3> QED
  BY <1>0, <3>1, <3>2, <3>3, ContainsPut, OncePut, Literals
<2> QED
  BY <1>9, <2>1, <2>2 DEF Generate
<1>10. ASSUME Describe PROVE OneExport'
  BY <1>10 DEF Describe
<1>11. ASSUME CheckPassphraseSame PROVE OneExport'
  BY <1>11 DEF CheckPassphraseSame
<1>12. ASSUME SetPassphrase PROVE OneExport'
<2>1. CASE UNCHANGED messages
  BY <1>12, <2>1 DEF SetPassphrase
<2>2. CASE \E m \in {"start", "end"} : Emit(m)
<3>1. PICK m \in {"start", "end"} : messages' = Put(messages, UiQueue, m)
  BY <2>2 DEF Emit
<3>2. m \in Messages /\ m # "export"
  BY <3>1, Literals
<3>3. UNCHANGED exportView
  BY <1>12 DEF SetPassphrase
<3> QED
  BY <1>0, <3>1, <3>2, <3>3, ContainsPut, OncePut, Literals
<2> QED
  BY <1>12, <2>1, <2>2 DEF SetPassphrase
<1>13. ASSUME Told PROVE OneExport'
  BY <1>13, <1>0, ContainsPut, OncePut, Literals DEF Told, Emit
<1>14. ASSUME Restore PROVE OneExport'
  BY <1>14 DEF Restore
<1>15. ASSUME VerifyResult PROVE OneExport'
  BY <1>15, <1>0, ContainsPut, OncePut, Literals DEF VerifyResult, EmitResult, Emit, Answer
<1>16. ASSUME HandlePass PROVE OneExport'
  BY <1>16, <1>0, ContainsTail, OnceTail, Literals DEF HandlePass, CloseExport
<1>17. ASSUME HandleDone PROVE OneExport'
  BY <1>17, <1>0, ContainsTail, OnceTail, Literals DEF HandleDone, CloseExport
<1>18. ASSUME HandleExport PROVE OneExport'
  BY <1>18, <1>0, ContainsTail, OnceTail, Literals DEF HandleExport
<1>19. ASSUME GuiShowGenerateXPubLoading PROVE OneExport'
  BY <1>19, <1>0, ContainsTail, OnceTail, Literals DEF GuiShowGenerateXPubLoading
<1>20. ASSUME GuiHideGenerateXPubLoading PROVE OneExport'
  BY <1>20, <1>0, ContainsTail, OnceTail, Literals DEF GuiHideGenerateXPubLoading
<1>21. ASSUME OpenReceive PROVE OneExport'
  BY <1>21 DEF OpenReceive
<1>22. ASSUME GuiFullscreenModeToggle PROVE OneExport'
  BY <1>22 DEF GuiFullscreenModeToggle
<1>23. ASSUME OpenPassphrase PROVE OneExport'
  BY <1>23 DEF OpenPassphrase
<1>24. ASSUME ConfirmPassphrase PROVE OneExport'
  BY <1>24 DEF ConfirmPassphrase
<1>25. ASSUME OpenScan PROVE OneExport'
  BY <1>25 DEF OpenScan
<1>26. ASSUME GuiTransactionCheckPass PROVE OneExport'
  BY <1>26 DEF GuiTransactionCheckPass
<1>27. ASSUME LeaveView PROVE OneExport'
  BY <1>27 DEF LeaveView
<1>28. ASSUME AnswerExport PROVE OneExport'
  BY <1>28 DEF AnswerExport, CloseExport
<1>29. ASSUME EnterPassword PROVE OneExport'
  BY <1>29 DEF EnterPassword
<1>30. ASSUME ReleaseHandler PROVE OneExport'
  BY <1>30 DEF ReleaseHandler
<1>31. ASSUME HostTraffic PROVE OneExport'
  BY <1>31, <1>0, ContainsPut, OncePut, Literals DEF HostTraffic, Emit, AtHome
<1>32. CASE UNCHANGED vars
  BY <1>32 DEF vars
<1> QED
  BY <1>1, <1>2, <1>3, <1>4, <1>5, <1>6, <1>7, <1>8, <1>9, <1>10, <1>11, <1>12,
     <1>13, <1>14, <1>15, <1>16, <1>17, <1>18, <1>19, <1>20, <1>21, <1>22, <1>23,
     <1>24, <1>25, <1>26, <1>27, <1>28, <1>29, <1>30, <1>31, <1>32
     DEF Next, Timer, Background, UiMessage, User

-----------------------------------------------------------------------------
(* The flags *)

LEMMA FlagInit == Init => FlagInv
<1> SUFFICES ASSUME Init PROVE Flags
  BY DEF FlagInv
<1>1. job.pc = "none"
  BY DEF Init, NoJob
<1> QED
  BY <1>1 DEF Init, Flags, HoldsLock, HoldsPage, PageHeld, JobActive

(* What the closing of a view makes of the flags *)
LEMMA CloseViewFlag ==
    ASSUME CloseView
    PROVE  /\ view' = "home" /\ ~fullscreen'
           /\ view = "receive" => pageEnable' = fullSaved
           /\ view = "scan" => pageEnable' = TRUE
           /\ view \notin {"receive", "scan"} => pageEnable' = pageEnable
  BY DEF CloseView, CleanedUp

LEMMA CloseExportFlag ==
    ASSUME CloseExport, "unnested" \notin races'
    PROVE  /\ ~exportView' /\ (exportView => ~JobActive)
           /\ enable' = IF exportView THEN exportSaved ELSE enable
  BY Zenon DEF CloseExport, Crossed

LEMMA FlagStep == TypeOK /\ OneExport /\ PageInv /\ FlagInv /\ [Next]_vars => FlagInv'
<1> SUFFICES ASSUME TypeOK, OneExport, PageInv, FlagInv, [Next]_vars, Nested' PROVE Flags'
  BY DEF FlagInv
<1>a. "unnested" \notin races'
  BY DEF Nested
<1> USE DEF Flags, JobActive, HoldsLock, HoldsPage, PageHeld
<1>1. ASSUME LockScreenTimerFunc PROVE Flags'
<2>1. Flags
  BY <1>a, <1>1 DEF FlagInv, Nested, LockScreenTimerFunc
<2> QED
  BY <1>a, <1>1, <2>1 DEF LockScreenTimerFunc, TypeOK
<1>2. ASSUME Lock PROVE Flags'
<2>1. Flags
  BY <1>a, <1>2 DEF FlagInv, Nested, Lock
<2> QED
  BY <1>a, <1>2, <2>1 DEF Lock, TypeOK
<1>3. ASSUME Take PROVE Flags'
<2>1. Flags
  BY <1>a, <1>3 DEF FlagInv, Nested, Take
<2> QED
  BY <1>a, <1>3, <2>1 DEF Take, NoJob, Idle, TypeOK
<1>4. ASSUME Clear PROVE Flags'
<2>1. Flags
  BY <1>a, <1>4 DEF FlagInv, Nested, Clear
<2> QED
  BY <1>a, <1>4, <2>1 DEF Clear, Goto, TypeOK
<1>5. ASSUME PageOff PROVE Flags'
<2>1. Flags
  BY <1>a, <1>5 DEF FlagInv, Nested, PageOff
<2>2. job'.kind = job.kind /\ job'.saved = job.saved
  BY <1>5 DEF PageOff, Goto, TypeOK
<2>3. job.pc = "pageOff" /\ job'.pc = IF job.kind = "parse" THEN "pageOn" ELSE "use"
  BY <1>5 DEF PageOff, Goto, TypeOK
<2>4. UNCHANGED <<enable, shown, saved, fullscreen, loading>> /\ ~pageEnable'
  BY <1>5 DEF PageOff
<2>5. job.kind \in {"parse", "setting"}
  BY <2>3 DEF PageInv
<2>6. Noted
  BY <1>5 DEF PageOff
<2>7. PageHeld'
  BY <2>2, <2>3, <2>5
<2> QED
  BY <2>1, <2>2, <2>3, <2>4, <2>5, <2>7
<1>6. ASSUME PageOn PROVE Flags'
<2>1. Flags
  BY <1>a, <1>6 DEF FlagInv, Nested, PageOn
<2> QED
  BY <1>a, <1>6, <2>1 DEF PageOn, Goto, Noted, NoJob, TypeOK, Nested
<1>7. ASSUME NEW r \in Results, Verify(r) PROVE Flags'
<2>1. Flags
  BY <1>a, <1>7 DEF FlagInv, Nested, Verify
<2>2. /\ job.kind = "unlock" /\ job.pc = "work"
      /\ UNCHANGED <<flags, shown, saved, fullscreen, page>>
  BY <1>7 DEF Verify
<2>3. Goto("gen") \/ Worked(r = "ok")
  BY <1>a, <1>7 DEF Verify
<2>4. /\ job'.kind = job.kind /\ job'.saved = job.saved
      /\ job'.pc \in {"gen", "restore"}
  BY <2>2, <2>3, WorkedJob DEF Goto, TypeOK, JobType
<2> QED
  BY <2>1, <2>2, <2>4
<1>8. ASSUME NEW ok \in BOOLEAN, VerifyCurrent(ok) PROVE Flags'
<2>1. Flags
  BY <1>a, <1>8 DEF FlagInv, Nested, VerifyCurrent
<2> QED
  BY <1>a, <1>8, <2>1 DEF VerifyCurrent, TypeOK
<1>9. ASSUME Generate PROVE Flags'
<2>1. Flags
  BY <1>a, <1>9 DEF FlagInv, Nested, Generate
<2>2. /\ job.pc = "gen" /\ UNCHANGED <<flags, shown, saved, fullscreen, page>>
      /\ \E ok \in BOOLEAN : Worked(ok)
  BY <1>9, Zenon DEF Generate
<2>3. /\ job'.kind = job.kind /\ job'.saved = job.saved
      /\ job'.pc \in {"restore", "told", "pageOn"}
      /\ job'.pc = "pageOn" <=> job.kind = "setting"
  BY <2>2, WorkedJob DEF TypeOK, JobType
<2> QED
  BY <2>1, <2>2, <2>3
<1>10. ASSUME Describe PROVE Flags'
<2>1. Flags
  BY <1>a, <1>10 DEF FlagInv, Nested, Describe
<2> QED
  BY <1>a, <1>10, <2>1 DEF Describe, Restored, NoJob, TypeOK
<1>11. ASSUME CheckPassphraseSame PROVE Flags'
<2>1. Flags
  BY <1>a, <1>11 DEF FlagInv, Nested, CheckPassphraseSame
<2>2. /\ job.pc = "work" /\ job.kind = "passphrase"
      /\ UNCHANGED <<flags, shown, saved, fullscreen, page>>
      /\ Halt \/ Goto("use") \/ Goto("told")
  BY <1>11, Zenon DEF CheckPassphraseSame
<2>3. /\ job'.kind = job.kind
      /\ \/ job'.pc = "asserted"
         \/ job'.pc \in {"use", "told"} /\ job'.saved = job.saved
  BY <2>2 DEF Halt, Goto, NoJob, TypeOK
<2> QED
  BY <2>1, <2>2, <2>3
<1>12. ASSUME SetPassphrase PROVE Flags'
<2>1. Flags
  BY <1>a, <1>12 DEF FlagInv, Nested, SetPassphrase
<2>2. /\ job.pc = "use" /\ UNCHANGED <<flags, shown, saved, fullscreen, page>>
      /\ Halt \/ Goto("gen") \/ \E ok \in BOOLEAN : Worked(ok)
  BY <1>12, Zenon DEF SetPassphrase
<2>3. CASE Halt
<3>1. job'.kind = job.kind /\ job'.pc = "asserted"
  BY <2>3 DEF Halt, NoJob
<3> QED
  BY <2>1, <2>2, <3>1
<2>4. CASE Goto("gen")
  BY <2>1, <2>2, <2>4 DEF Goto, TypeOK
<2>5. CASE \E ok \in BOOLEAN : Worked(ok)
<3>1. /\ job'.kind = job.kind /\ job'.saved = job.saved
      /\ job'.pc \in {"restore", "told", "pageOn"}
      /\ job'.pc = "pageOn" <=> job.kind = "setting"
  BY <2>5, WorkedJob DEF TypeOK, JobType
<3> QED
  BY <2>1, <2>2, <3>1
<2> QED
  BY <2>2, <2>3, <2>4, <2>5
<1>13. ASSUME Told PROVE Flags'
<2>1. Flags
  BY <1>a, <1>13 DEF FlagInv, Nested, Told
<2> QED
  BY <1>a, <1>13, <2>1 DEF Told, TypeOK
<1>14. ASSUME Restore PROVE Flags'
<2>1. Flags
  BY <1>a, <1>14 DEF FlagInv, Nested, Restore
<2>2. /\ job.pc = "restore" /\ enable' = job.saved
      /\ UNCHANGED <<pageEnable, shown, saved, fullscreen, page>>
  BY <1>14 DEF Restore, Restored
<2>3. job'.pc \in {"emit", "pageOff", "none"}
<3>1. CASE job.kind = "unlock"
  BY <1>14, <3>1 DEF Restore, Goto, TypeOK
<3>2. CASE job.kind = "setting" /\ job.ok
  BY <1>14, <3>2 DEF Restore, NoJob
<3>3. CASE ~(job.kind = "unlock") /\ ~(job.kind = "setting" /\ job.ok)
  BY <1>14, <3>3 DEF Restore, NoJob
<3> QED
  BY <3>1, <3>2, <3>3
<2> QED
  BY <2>1, <2>2, <2>3
<1>15. ASSUME VerifyResult PROVE Flags'
<2>1. Flags
  BY <1>a, <1>15 DEF FlagInv, Nested, VerifyResult
<2> QED
  BY <1>a, <1>15, <2>1 DEF VerifyResult, NoJob, TypeOK
<1>16. ASSUME HandlePass PROVE Flags'
<2>1. Flags
  BY <1>a, <1>16 DEF FlagInv, Nested, HandlePass, CloseExport, Crossed
<2>2. UNCHANGED <<job, loading>> /\ Noted
  BY <1>16 DEF HandlePass
<2>3. CASE CloseView /\ CloseExport
  BY <1>a, <2>1, <2>2, <2>3, CloseViewFlag, CloseExportFlag DEF Noted, TypeOK, Nested
<2>4. CASE /\ IF exportView THEN UNCHANGED pageEnable ELSE RefreshView
           /\ UNCHANGED <<enable, shown, saved, fullscreen, races>>
  BY <1>a, <2>1, <2>2, <2>4 DEF RefreshView, Noted, TypeOK, Nested
<2> QED
  BY <1>16, <2>3, <2>4 DEF HandlePass
<1>17. ASSUME HandleDone PROVE Flags'
<2>1. Flags
  BY <1>a, <1>17 DEF FlagInv, Nested, HandleDone, CloseExport, Crossed
<2>2. UNCHANGED <<job, loading>> /\ Noted
  BY <1>17 DEF HandleDone
<2>3. CASE CloseView /\ CloseExport
  BY <1>a, <2>1, <2>2, <2>3, CloseViewFlag, CloseExportFlag DEF Noted, TypeOK, Nested
<2>4. CASE CloseExport /\ UNCHANGED <<pageEnable, view, fullscreen, fullSaved>>
  BY <1>a, <2>1, <2>2, <2>4, CloseExportFlag DEF Noted, TypeOK, Nested
<2>5. CASE ~exportView /\ CloseView /\ UNCHANGED <<enable, exportView, exportSaved, races>>
  BY <1>a, <2>1, <2>2, <2>5, CloseViewFlag DEF Noted, TypeOK, Nested
<2>6. CASE UNCHANGED <<flags, shown, saved, fullscreen, races>>
  BY <1>a, <2>1, <2>2, <2>6 DEF Noted, TypeOK, Nested
<2> QED
  BY <1>17, <2>3, <2>4, <2>5, <2>6 DEF HandleDone
<1>18. ASSUME HandleExport PROVE Flags'
<2>1. Flags
  BY <1>a, <1>18 DEF FlagInv, Nested, HandleExport, Crossed
<2>2. ~exportView
  BY <1>18, ContainsTail, Literals DEF HandleExport, OneExport, TypeOK
<2> QED
  BY <1>a, <1>18, <2>1, <2>2 DEF HandleExport, Crossed, TypeOK
<1>19. ASSUME GuiShowGenerateXPubLoading PROVE Flags'
<2>1. Flags
  BY <1>a, <1>19 DEF FlagInv, Nested, GuiShowGenerateXPubLoading
<2> QED
  BY <1>a, <1>19, <2>1 DEF GuiShowGenerateXPubLoading, Noted, TypeOK, Nested
<1>20. ASSUME GuiHideGenerateXPubLoading PROVE Flags'
<2>1. Flags
  BY <1>a, <1>20 DEF FlagInv, Nested, GuiHideGenerateXPubLoading
<2> QED
  BY <1>a, <1>20, <2>1 DEF GuiHideGenerateXPubLoading, Noted, TypeOK, Nested
<1>21. ASSUME OpenReceive PROVE Flags'
<2>1. Flags
  BY <1>a, <1>21 DEF FlagInv, Nested, OpenReceive, Crossed
<2> QED
  BY <1>a, <1>21, <2>1 DEF OpenReceive, Touched, Crossed, TypeOK
<1>22. ASSUME GuiFullscreenModeToggle PROVE Flags'
<2>1. Flags
  BY <1>a, <1>22 DEF FlagInv, Nested, GuiFullscreenModeToggle
<2> QED
  BY <1>a, <1>22, <2>1 DEF GuiFullscreenModeToggle, Touched, Noted, TypeOK, Nested
<1>23. ASSUME OpenPassphrase PROVE Flags'
<2>1. Flags
  BY <1>a, <1>23 DEF FlagInv, Nested, OpenPassphrase
<2> QED
  BY <1>a, <1>23, <2>1 DEF OpenPassphrase, Touched, TypeOK
<1>24. ASSUME ConfirmPassphrase PROVE Flags'
<2>1. Flags
  BY <1>a, <1>24 DEF FlagInv, Nested, ConfirmPassphrase
<2> QED
  BY <1>a, <1>24, <2>1 DEF ConfirmPassphrase, Touched, TypeOK
<1>25. ASSUME OpenScan PROVE Flags'
<2>1. Flags
  BY <1>a, <1>25 DEF FlagInv, Nested, OpenScan
<2> QED
  BY <1>a, <1>25, <2>1 DEF OpenScan, Touched, Noted, TypeOK, Nested
<1>26. ASSUME GuiTransactionCheckPass PROVE Flags'
<2>1. Flags
  BY <1>a, <1>26 DEF FlagInv, Nested, GuiTransactionCheckPass
<2> QED
  BY <1>a, <1>26, <2>1 DEF GuiTransactionCheckPass, Noted, TypeOK, Nested
<1>27. ASSUME LeaveView PROVE Flags'
<2>1. Flags
  BY <1>a, <1>27 DEF FlagInv, Nested, LeaveView
<2> QED
  BY <1>a, <1>27, <2>1 DEF LeaveView, Touched, CloseView, CleanedUp, Noted, TypeOK, Nested
<1>28. ASSUME AnswerExport PROVE Flags'
<2>1. Flags
  BY <1>a, <1>28 DEF FlagInv, Nested, AnswerExport, CloseExport, Crossed
<2> QED
  BY <1>a, <1>28, <2>1 DEF AnswerExport, Touched, CloseExport, Crossed, RefreshView, Noted, TypeOK, Nested
<1>29. ASSUME EnterPassword PROVE Flags'
<2>1. Flags
  BY <1>a, <1>29 DEF FlagInv, Nested, EnterPassword
<2> QED
  BY <1>a, <1>29, <2>1 DEF EnterPassword, TypeOK
<1>30. ASSUME ReleaseHandler PROVE Flags'
<2>1. Flags
  BY <1>a, <1>30 DEF FlagInv, Nested, ReleaseHandler
<2> QED
  BY <1>a, <1>30, <2>1 DEF ReleaseHandler, TypeOK
<1>31. ASSUME HostTraffic PROVE Flags'
<2>1. Flags
  BY <1>a, <1>31 DEF FlagInv, Nested, HostTraffic
<2> QED
  BY <1>a, <1>31, <2>1 DEF HostTraffic, AtHome, TypeOK
<1>32. CASE UNCHANGED vars
  BY <1>32 DEF vars, FlagInv, Nested
<1> QED
  BY <1>1, <1>2, <1>3, <1>4, <1>5, <1>6, <1>7, <1>8, <1>9, <1>10, <1>11, <1>12,
     <1>13, <1>14, <1>15, <1>16, <1>17, <1>18, <1>19, <1>20, <1>21, <1>22, <1>23,
     <1>24, <1>25, <1>26, <1>27, <1>28, <1>29, <1>30, <1>31, <1>32
     DEF Next, Timer, Background, UiMessage, User

-----------------------------------------------------------------------------
(* The lock page *)

LEMMA PageInit == Init => PageInv
<1> SUFFICES ASSUME Init PROVE PageInv
  OBVIOUS
<1>1. job.pc = "none"
  BY DEF Init, NoJob
<1> QED
  BY <1>1 DEF Init, PageInv, UnlockedLoggedIn, PassUnderWay, Contains

LEMMA PageStep == TypeOK /\ PageInv /\ [Next]_vars => PageInv'
<1> SUFFICES ASSUME TypeOK, PageInv, [Next]_vars PROVE PageInv'
  OBVIOUS
<1>0. messages \in Seq(Messages) /\ (messages # <<>> => Head(messages) \in Messages)
  BY MessagesTail, Zenon DEF TypeOK
<1> USE DEF PageInv, UnlockedLoggedIn, PassUnderWay
<1>1. ASSUME LockScreenTimerFunc PROVE PageInv'
  BY <1>1 DEF LockScreenTimerFunc
<1>2. ASSUME Lock PROVE PageInv'
  BY <1>2 DEF Lock
<1>3. ASSUME Take PROVE PageInv'
  BY <1>3 DEF Take, NoJob, TypeOK
<1>4. ASSUME Clear PROVE PageInv'
  BY <1>4 DEF Clear, Goto, TypeOK
<1>5. ASSUME PageOff PROVE PageInv'
  BY <1>5 DEF PageOff, Goto, TypeOK
<1>6. ASSUME PageOn PROVE PageInv'
  BY <1>6 DEF PageOn, Goto, NoJob, TypeOK
<1>7. ASSUME NEW r \in Results, Verify(r) PROVE PageInv'
<2>1. /\ loggedIn => loggedIn'
      /\ "outran" \in races => "outran" \in races'
      /\ r # "wrong" => loggedIn'
  BY <1>7 DEF Verify, TypeOK
<2>2. /\ messages' = messages \/ messages' = Put(messages, UiQueue, "start")
      /\ UNCHANGED <<lockPage, view>>
  BY <1>7 DEF Verify, Emit
<2>3. job'.pc \notin {"emit", "pageOff"} /\ (r = "wrong" => ~job'.ok /\ job'.pc # "gen")
<3>1. CASE r = "notMatch"
  BY <1>7, <3>1 DEF Verify, NoJob
<3>2. CASE r = "generate"
  BY <1>7, <3>2 DEF Verify, Goto, TypeOK
<3>3. CASE r \notin {"notMatch", "generate"}
<4>1. Worked(r = "ok") /\ job.kind = "unlock"
  BY <1>7, <3>3 DEF Verify
<4>2. job'.ok = (r = "ok") /\ job'.pc = "restore"
  BY <4>1, WorkedJob DEF TypeOK, JobType
<4> QED
  BY <4>2
<3> QED
  BY <3>1, <3>2, <3>3
<2> QED
  BY <1>0, <2>1, <2>2, <2>3, ContainsPut, Literals
<1>8. ASSUME NEW ok \in BOOLEAN, VerifyCurrent(ok) PROVE PageInv'
  BY <1>8 DEF VerifyCurrent, TypeOK
<1>9. ASSUME Generate PROVE PageInv'
<2>1. \E ok \in BOOLEAN : Worked(ok)
  BY <1>9, Zenon DEF Generate
<2>2. job'.kind = job.kind /\ job'.pc \in {"restore", "told", "pageOn"}
  BY <2>1, WorkedJob DEF TypeOK, JobType
<2>3. /\ job.pc = "gen"
      /\ messages' = messages \/ messages' = Put(messages, UiQueue, "end")
      /\ UNCHANGED <<loggedIn, lockPage, races, view>>
  BY <1>9 DEF Generate, Emit
<2> QED
  BY <1>0, <2>2, <2>3, ContainsPut, Literals
<1>10. ASSUME Describe PROVE PageInv'
  BY <1>10 DEF Describe, NoJob, TypeOK
<1>11. ASSUME CheckPassphraseSame PROVE PageInv'
  BY <1>11 DEF CheckPassphraseSame, Goto, Halt, NoJob, TypeOK
<1>12. ASSUME SetPassphrase PROVE PageInv'
  BY <1>12, <1>0, ContainsPut, Literals DEF SetPassphrase, Goto, Halt, Emit, Worked, NoJob, TypeOK
<1>13. ASSUME Told PROVE PageInv'
  BY <1>13, <1>0, ContainsPut, Literals DEF Told, Emit, TypeOK
<1>14. ASSUME Restore PROVE PageInv'
<2>1. UNCHANGED <<loggedIn, lockPage, races, view, messages>> /\ job.pc = "restore"
  BY <1>14 DEF Restore
<2>2. CASE job.kind = "unlock"
  BY <1>14, <2>1, <2>2 DEF Restore, Goto, TypeOK
<2>3. CASE job.kind = "setting" /\ job.ok
<3>1. job'.kind = "setting"
  BY <1>14, <2>3 DEF Restore, NoJob
<3> QED
  BY <2>1, <3>1
<2>4. CASE ~(job.kind = "unlock") /\ ~(job.kind = "setting" /\ job.ok)
<3>1. job' = NoJob
  BY <1>14, <2>4 DEF Restore
<3> QED
  BY <2>1, <3>1 DEF NoJob
<2> QED
  BY <2>2, <2>3, <2>4
<1>15. ASSUME VerifyResult PROVE PageInv'
  BY <1>15, <1>0, ContainsPut, Literals DEF VerifyResult, EmitResult, Emit, Answer, NoJob, TypeOK
<1>16. ASSUME HandlePass PROVE PageInv'
  BY <1>16, <1>0, ContainsTail, Literals DEF HandlePass, CloseView, CloseExport, Crossed
<1>17. ASSUME HandleDone PROVE PageInv'
<2>1. /\ UNCHANGED <<loggedIn, job>>
      /\ messages # <<>> /\ messages' = Tail(messages)
      /\ (view = "passphrase" /\ ~lockPage') \/ UNCHANGED <<lockPage, view, races>>
  BY <1>17 DEF HandleDone, CloseView
<2>2. "outran" \in races => "outran" \in races'
  BY <1>17 DEF HandleDone, CloseExport, Crossed
<2>3. view' \in {view, "home"}
  BY <1>17 DEF HandleDone, CloseView
<2> QED
  BY <1>0, <2>1, <2>2, <2>3, ContainsTail, Literals
<1>18. ASSUME HandleExport PROVE PageInv'
  BY <1>18, <1>0, ContainsTail, Literals DEF HandleExport, Crossed
<1>19. ASSUME GuiShowGenerateXPubLoading PROVE PageInv'
  BY <1>19, <1>0, ContainsTail, Literals DEF GuiShowGenerateXPubLoading
<1>20. ASSUME GuiHideGenerateXPubLoading PROVE PageInv'
  BY <1>20, <1>0, ContainsTail, Literals DEF GuiHideGenerateXPubLoading
<1>21. ASSUME OpenReceive PROVE PageInv'
  BY <1>21 DEF OpenReceive, Touched, Crossed
<1>22. ASSUME GuiFullscreenModeToggle PROVE PageInv'
  BY <1>22 DEF GuiFullscreenModeToggle, Touched
<1>23. ASSUME OpenPassphrase PROVE PageInv'
  BY <1>23 DEF OpenPassphrase, Touched
<1>24. ASSUME ConfirmPassphrase PROVE PageInv'
  BY <1>24 DEF ConfirmPassphrase, Touched
<1>25. ASSUME OpenScan PROVE PageInv'
  BY <1>25 DEF OpenScan, Touched
<1>26. ASSUME GuiTransactionCheckPass PROVE PageInv'
  BY <1>26 DEF GuiTransactionCheckPass
<1>27. ASSUME LeaveView PROVE PageInv'
  BY <1>27 DEF LeaveView, Touched, CloseView
<1>28. ASSUME AnswerExport PROVE PageInv'
  BY <1>28 DEF AnswerExport, Touched, CloseExport, Crossed
<1>29. ASSUME EnterPassword PROVE PageInv'
  BY <1>29 DEF EnterPassword
<1>30. ASSUME ReleaseHandler PROVE PageInv'
  BY <1>30 DEF ReleaseHandler
<1>31. ASSUME HostTraffic PROVE PageInv'
  BY <1>31, <1>0, ContainsPut, Literals DEF HostTraffic, Emit
<1>32. CASE UNCHANGED vars
  BY <1>32 DEF vars
<1> QED
  BY <1>1, <1>2, <1>3, <1>4, <1>5, <1>6, <1>7, <1>8, <1>9, <1>10, <1>11, <1>12,
     <1>13, <1>14, <1>15, <1>16, <1>17, <1>18, <1>19, <1>20, <1>21, <1>22, <1>23,
     <1>24, <1>25, <1>26, <1>27, <1>28, <1>29, <1>30, <1>31, <1>32
     DEF Next, Timer, Background, UiMessage, User

-----------------------------------------------------------------------------
(* The theorems *)

LEMMA Inductive == Spec => []IInv
<1>1. Init => IInv
<2>1. Init => OneExport
  BY DEF Init, OneExport, Once, Contains
<2> QED
  BY <2>1, InitType, FlagInit, PageInit DEF IInv
<1>2. IInv /\ [Next]_vars => IInv'
  BY TypeStep, ExportStep, FlagStep, PageStep DEF IInv
<1> QED
  BY <1>1, <1>2, PTL DEF Spec

(* The types of the flags, the jobs and the views, and the lengths of the  *)
(* message queues, for queues of any size.                                 *)
THEOREM TypesOfLockScreen == Spec => []TypeOK
  BY Inductive, PTL DEF IInv

(* Both lock flags are given back (SetLockScreen, SetPageLockScreen): jobs, *)
(* export requests, full-screen QR codes, scans, passphrases and unlocks    *)
(* that make public keys leave, in any order and with queues of any length, *)
(* a device that may lock itself, as long as saving and putting back nest   *)
(* and no "Generating" page was left held up.                               *)
THEOREM FlagsGivenBack == Spec => []FlagsRestored
<1>1. IInv => FlagsRestored
  BY DEF IInv, FlagInv, Flags, FlagsRestored
<1> QED
  BY <1>1, Inductive, PTL

(* GuiLockScreenPassCode: what is shown without the lock page belongs to a  *)
(* logged-in account, unless a lock outran the answer to a right password.  *)
THEOREM UnlockedShown == Spec => []UnlockedLoggedIn
  BY Inductive, PTL DEF IInv, PageInv

(* LockScreen begins outside the jobs that use the account and outside      *)
(* export requests, and outside whatever holds the page's flag unless       *)
(* another has set it meanwhile, as long as the values nest.                *)
THEOREM LocksOutsideJobs == Spec => LockOutsideJobs
<1> DEFINE Step == locking' /\ ~locking
                     => \/ ~Nested
                        \/ ~HoldsLock /\ ~exportView /\ (PageHeld => overwritten)
<1>1. IInv /\ [Next]_vars => [Step]_vars
<2> SUFFICES ASSUME IInv, Next, locking', ~locking PROVE Step
  BY DEF vars
<2>1. MayLock
<3>1. CASE LockScreenTimerFunc \/ ReleaseHandler
  BY <3>1 DEF LockScreenTimerFunc, ReleaseHandler, StartLock
<3>2. CASE ~(LockScreenTimerFunc \/ ReleaseHandler)
  BY <3>2 DEF Next, Timer, Background, UiMessage, User, Lock, Take, Clear, PageOff,
              PageOn, Verify, VerifyCurrent, Generate, Describe, CheckPassphraseSame,
              SetPassphrase, Told, Restore, VerifyResult, HandlePass, HandleDone,
              HandleExport, GuiShowGenerateXPubLoading, GuiHideGenerateXPubLoading,
              OpenReceive, GuiFullscreenModeToggle, OpenPassphrase, ConfirmPassphrase,
              OpenScan, GuiTransactionCheckPass, LeaveView, AnswerExport,
              EnterPassword, HostTraffic
<3> QED
  BY <3>1, <3>2
<2> QED
  BY <2>1 DEF IInv, FlagInv, Flags, MayLock
<1> QED
  BY <1>1, Inductive, PTL DEF Spec, LockOutsideJobs

=============================================================================
