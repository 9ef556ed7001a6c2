----------------------------- MODULE LockScreen -----------------------------
(***************************************************************************)
(* The lock screen (screen_manager.c) and those who switch it off for a    *)
(* while.  The RTOS timer task, of the highest priority, locks the device  *)
(* after TimeOut idle ticks or when the power button is released, unless   *)
(* one of two global flags forbids it.  The flag g_lockScreenEnable is     *)
(* saved, cleared and put back by the jobs of the background task          *)
(* (gui_model.c) and by the view of a USB export request.  The flag        *)
(* g_pageLockScreenEnable is cleared and set, mostly without a look at its *)
(* value, by the full-screen QR code, the scan view, the parsing of a      *)
(* transaction, the change of a passphrase in the settings, and the page   *)
(* "Generating" that covers the lock page while an unlock makes the public *)
(* keys anew.  README.md lists the writers left out.                       *)
(*                                                                         *)
(* A job is cut at every statement that reads or writes shared state: the  *)
(* task has the lowest priority here and any other may come in between.    *)
(* A handler of the UI task is one step, since only the timer task can     *)
(* preempt it and that reads nothing the UI writes but the two flags.      *)
(* LockScreen is cut at GetExistAccountNum, which waits for the secure     *)
(* element with osDelay and so lets everybody else run.                    *)
(*                                                                         *)
(* A wallet exists and its home view is at the bottom of the views.        *)
(***************************************************************************)
EXTENDS Naturals, Sequences, SequencesExt

CONSTANTS
    TimeOut,    \* ticks of LOCK_SCREEN_TICK until the device locks itself
    JobQueue,   \* messages g_sensitiveQueue holds (5 in the code)
    UiQueue,    \* messages g_uiQueue holds (5 in the code)
    Results     \* what VerifyPasswordAndLogin may return

ASSUME TimeOutAssumption == TimeOut \in Nat \ {0}
ASSUME QueueAssumption == JobQueue \in Nat \ {0} /\ UiQueue \in Nat \ {0}
ASSUME ResultsAssumption == Results \subseteq {"ok", "generate", "wrong", "failed", "notMatch"}

VARIABLES
    pageEnable,  \* g_pageLockScreenEnable
    loading,     \* is the "Generating" page shown and not to be dismissed?
    enable,      \* g_lockScreenEnable
    tick,        \* g_lockScreenTick in ticks; the last before TimeOut or any later
    loggedIn,    \* g_currentAccountIndex is not ACCOUNT_INDEX_LOGOUT
    lockPage,    \* is the lock page shown, on top of the views?
    jobs,        \* g_sensitiveQueue
    job,         \* the job the background task runs: its local variables
    messages,    \* g_uiQueue: the messages that change something here
    locking,     \* is the timer task inside GetExistAccountNum of LockScreen?
    view,        \* the view above the home view, or "home"
    exportView,  \* is the view of an export request shown above it?
    exportSaved, \* g_original_lock_screen of the USB export view, while it is shown
    fullSaved,   \* g_original_lock_screen of the receive view, while it is shown
    fullscreen,  \* is the QR code shown on the full screen?
    races,       \* history: what has gone wrong, see Races
    overwritten  \* history: the page's flag was set while another held it clear

flags == <<pageEnable, enable>>
saved == <<exportSaved, fullSaved>>
shown == <<view, exportView>>
ui == <<messages, shown, saved, fullscreen>>
page == <<loading, overwritten>>
vars == <<flags, tick, loggedIn, lockPage, jobs, job, ui, locking, races, page>>

Kinds == {"unlock", "desc", "passphrase", "setting", "parse"}
Messages == {"start", "end", "pass", "done", "export"}
Views == {"home", "receive", "passphrase", "scan", "detail", "settings"}

(* Where a job is: g_lockScreenEnable is saved, cleared (clear), held while *)
(* the account is used (work, then use, or gen while public keys are made), *)
(* and put back (restore).  The page's flag is cleared by a statement of    *)
(* its own (pageOff) and set by another (pageOn).  The result is posted to  *)
(* the UI before the flag is put back (told) or last (emit).                *)
Steps == {"none", "clear", "work", "use", "gen", "told", "restore",
          "pageOff", "pageOn", "emit", "asserted"}

NoJob == [kind |-> "desc", pc |-> "none", saved |-> FALSE, ok |-> FALSE]

(* unnested: a view saved or put back a flag while a job held another       *)
(* value, or the early return of ModelVerifyAccountPass was taken;          *)
(* outran: a lock while the answer to a right password was under way.       *)
Races == {"unnested", "outran"}

Init ==
    /\ pageEnable = TRUE /\ enable = TRUE
    /\ tick = 0
    /\ loggedIn = FALSE /\ lockPage = TRUE
    /\ jobs = <<>> /\ job = NoJob
    /\ messages = <<>>
    /\ locking = FALSE
    /\ view = "home" /\ exportView = FALSE /\ fullscreen = FALSE
    /\ exportSaved = FALSE /\ fullSaved = FALSE
    /\ races = {}
    /\ loading = FALSE
    /\ overwritten = FALSE

(* Does the job keep g_lockScreenEnable cleared?  Or the page's flag?      *)
HoldsLock ==
    \/ job.pc \in {"work", "told", "restore"}
    \/ job.pc \in {"use", "gen", "asserted"} /\ job.kind # "setting"

HoldsPage ==
    \/ job.pc = "pageOn"
    \/ job.pc \in {"use", "gen", "asserted"} /\ job.kind = "setting"

(* Somebody has cleared the page's flag and is still to set it. *)
PageHeld == HoldsPage \/ fullscreen \/ view = "scan" \/ loading

(* Do the values that are saved and put back still belong to each other? *)
Nested == "unnested" \notin races

(* The page's flag is set while somebody else is still to set it. *)
Noted ==
    overwritten' = /\ Nested' /\ PageHeld'
                   /\ overwritten \/ (pageEnable' /\ ~pageEnable)

-----------------------------------------------------------------------------
(* Message queues: what finds no space is lost, and the sender told nothing. *)

Put(queue, size, m) == IF Len(queue) < size THEN Append(queue, m) ELSE queue

AsyncExecute(kind) == jobs' = Put(jobs, JobQueue, kind)

Emit(m) == messages' = Put(messages, UiQueue, m)

-----------------------------------------------------------------------------
(* The timer task *)

(* Mutant: only the page's flag is asked. *)
PageMayLock == pageEnable

MayLock == pageEnable /\ enable

(* LockScreen up to GetExistAccountNum. *)
StartLock == locking' = MayLock /\ tick' = IF MayLock THEN 0 ELSE tick

LockScreenTimerFunc ==
    /\ ~locking
    /\ IF tick + 1 < TimeOut
       THEN tick' = tick + 1 /\ UNCHANGED locking
       ELSE StartLock
    /\ UNCHANGED <<flags, loggedIn, lockPage, jobs, job, ui, races, page>>

(* Is the UI going to be told of a right password? *)
PassUnderWay ==
    \/ Contains(messages, "pass")
    \/ job.kind = "unlock" /\ job.pc = "gen"
    \/ job.kind = "unlock" /\ job.ok /\ job.pc \in {"restore", "emit"}

(* The rest of LockScreen; the lock view closes the passphrase view. *)
Lock ==
    /\ locking
    /\ locking' = FALSE
    /\ loggedIn' = FALSE /\ lockPage' = TRUE
    /\ view' = IF view = "passphrase" THEN "home" ELSE view
    /\ races' = IF PassUnderWay THEN races \cup {"outran"} ELSE races \ {"outran"}
    /\ UNCHANGED <<flags, tick, jobs, job, messages, exportView, saved, fullscreen,
                   page>>

-----------------------------------------------------------------------------
(* The background task *)

Idle == job.pc = "none"

Goto(pc) == job' = [job EXCEPT !.pc = pc]

(* bool enable = IsPreviousLockScreenEnable(); *)
Take ==
    /\ Idle /\ jobs # <<>>
    /\ jobs' = Tail(jobs)
    /\ job' = IF Head(jobs) = "parse"
              THEN [NoJob EXCEPT !.kind = "parse", !.pc = "pageOff"]
              ELSE [NoJob EXCEPT !.kind = Head(jobs), !.pc = "clear", !.saved = enable]
    /\ UNCHANGED <<flags, tick, loggedIn, lockPage, ui, locking, races, page>>

(* SetLockScreen(false); *)
Clear ==
    /\ job.pc = "clear"
    /\ enable' = FALSE
    /\ Goto("work")
    /\ UNCHANGED <<pageEnable, tick, loggedIn, lockPage, jobs, ui, locking, races,
                   page>>

(* SetPageLockScreen(false); and SetPageLockScreen(true); of a job, around *)
(* the parsing of a transaction or SetPassphrase.                          *)
PageOff ==
    /\ job.pc = "pageOff"
    /\ pageEnable' = FALSE
    /\ Goto(IF job.kind = "parse" THEN "pageOn" ELSE "use")
    /\ UNCHANGED <<enable, tick, loggedIn, lockPage, jobs, ui, locking, races,
                   loading>>
    /\ Noted

PageOn ==
    /\ job.pc = "pageOn"
    /\ pageEnable' = TRUE
    /\ IF job.kind = "setting" /\ job.ok THEN Goto("emit") ELSE job' = NoJob
    /\ UNCHANGED <<enable, tick, loggedIn, lockPage, jobs, ui, locking, races,
                   loading>>
    /\ Noted

(* Where the job goes on when the keys are there, or are not. *)
Worked(ok) ==
    job' = [job EXCEPT
              !.ok = ok,
              !.pc = CASE job.kind = "unlock" -> "restore"
                       [] job.kind = "setting" -> "pageOn"
                       [] OTHER -> IF ok THEN "told" ELSE "restore"]

(* VerifyPasswordAndLogin.  It sets the index before it looks at the public *)
(* keys.  It may have to generate them; the job returns at once when those  *)
(* stored do not match.  The job calls ModeGetWalletDesc itself, which      *)
(* saves the cleared flag, clears it and puts it back cleared.              *)
Verify(result) ==
    /\ job.kind = "unlock" /\ job.pc = "work"
    /\ loggedIn' = (loggedIn \/ result # "wrong")
    /\ \/ /\ result = "notMatch"
          /\ job' = NoJob /\ races' = races \cup {"unnested"}
          /\ UNCHANGED messages
       \/ /\ result = "generate"
          /\ Goto("gen") /\ Emit("start")
          /\ UNCHANGED races
       \/ /\ result \in {"ok", "wrong", "failed"}
          /\ Worked(result = "ok")
          /\ UNCHANGED <<messages, races>>
    /\ UNCHANGED <<flags, tick, lockPage, jobs, shown, saved, fullscreen, locking,
                   page>>

(* VerifyCurrentAccountPassword, which no password passes when the account *)
(* is logged out.                                                          *)
VerifyCurrent(ok) ==
    /\ job.kind = "setting" /\ job.pc = "work"
    /\ ok => loggedIn
    /\ job' = [job EXCEPT !.pc = "restore", !.ok = ok]
    /\ UNCHANGED <<flags, tick, loggedIn, lockPage, jobs, ui, locking, races, page>>

(* AccountPublicSavePublicInfo and TempAccountPublicInfo after their first *)
(* signal: every error skips the second one, and VerifyPasswordAndLogin    *)
(* drops the error of TempAccountPublicInfo.                               *)
Generate ==
    /\ job.pc = "gen"
    /\ \/ Emit("end") /\ Worked(TRUE)
       \/ UNCHANGED messages /\ Worked(FALSE)
       \/ UNCHANGED messages /\ job.kind = "unlock" /\ Worked(TRUE)
    /\ UNCHANGED <<flags, tick, loggedIn, lockPage, jobs, shown, saved, fullscreen,
                   locking, races, page>>

(* A failed assertion is an endless loop of this task. *)
Halt == job' = [NoJob EXCEPT !.kind = job.kind, !.pc = "asserted"]

(* CheckPassphraseSame asserts that an account is in use. *)
CheckPassphraseSame ==
    /\ job.kind = "passphrase" /\ job.pc = "work"
    /\ IF loggedIn THEN Goto("use") \/ Goto("told") ELSE Halt
    /\ UNCHANGED <<flags, tick, loggedIn, lockPage, jobs, ui, locking, races, page>>

(* SetPassphrase asserts the same, may fail, and generates the public keys *)
(* of a passphrase that is not empty.                                      *)
SetPassphrase ==
    /\ job.pc = "use"
    /\ \/ ~loggedIn /\ Halt /\ UNCHANGED messages
       \/ loggedIn /\ Worked(FALSE) /\ UNCHANGED messages
       \/ loggedIn /\ Worked(TRUE) /\ UNCHANGED messages
       \/ loggedIn /\ Goto("gen") /\ Emit("start")
    /\ UNCHANGED <<flags, tick, loggedIn, lockPage, jobs, shown, saved, fullscreen,
                   locking, races, page>>

(* SIG_SETTING_WRITE_PASSPHRASE_PASS of ModelWritePassphrase *)
Told ==
    /\ job.pc = "told"
    /\ Emit("done")
    /\ job' = [job EXCEPT !.pc = "restore", !.ok = FALSE]
    /\ UNCHANGED <<flags, tick, loggedIn, lockPage, jobs, shown, saved, fullscreen,
                   locking, races, page>>

(* Mutant: a wallet description that ends early leaves the flag cleared. *)
RestoredLoggedIn == job.saved /\ (job.kind = "desc" => loggedIn)

Restored == job.saved

(* ModeGetWalletDesc reads the name of the wallet, or ends when there is    *)
(* none; both ways put the flag back.                                       *)
Describe ==
    /\ job.kind = "desc" /\ job.pc = "work"
    /\ enable' = Restored
    /\ job' = NoJob
    /\ UNCHANGED <<pageEnable, tick, loggedIn, lockPage, jobs, ui, locking, races,
                   page>>

(* SetLockScreen(enable); then ModelVerifyPassSuccess in the settings       *)
Restore ==
    /\ job.pc = "restore"
    /\ enable' = Restored
    /\ CASE job.kind = "unlock" -> Goto("emit")
         [] job.kind = "setting" /\ job.ok ->
                job' = [NoJob EXCEPT !.kind = "setting", !.pc = "pageOff"]
         [] OTHER -> job' = NoJob
    /\ UNCHANGED <<pageEnable, tick, loggedIn, lockPage, jobs, ui, locking, races,
                   page>>

Answer == IF job.kind = "unlock" THEN "pass" ELSE "done"

(* Mutant: the UI hears of success whatever the result. *)
EmitSuccess == Emit(Answer)

(* ModelVerifyPassSuccess; ModelVerifyPassFailed changes nothing here. *)
EmitResult == IF job.ok THEN Emit(Answer) ELSE UNCHANGED messages

VerifyResult ==
    /\ job.pc = "emit"
    /\ EmitResult
    /\ job' = NoJob
    /\ UNCHANGED <<flags, tick, loggedIn, lockPage, jobs, shown, saved, fullscreen,
                   locking, races, page>>

Background ==
    \/ Take \/ Clear \/ PageOff \/ PageOn
    \/ \E result \in Results : Verify(result)
    \/ \E ok \in BOOLEAN : VerifyCurrent(ok)
    \/ Generate \/ Describe
    \/ CheckPassphraseSame \/ SetPassphrase \/ Told
    \/ Restore \/ VerifyResult

-----------------------------------------------------------------------------
(* The UI task *)

JobActive == job.pc = "clear" \/ HoldsLock

AtHome == view = "home" /\ ~exportView

Crossed(bad) == races' = IF bad THEN races \cup {"unnested"} ELSE races

(* Mutant: the page's flag stays as it is when the view is closed. *)
LeavePageFlag == pageEnable

(* GuiFullscreenModeCleanUp of the receive view *)
CleanedUp == fullSaved

(* OBJ_DEINIT of the view; GuiScanDeInit of the scan view *)
CloseView ==
    /\ view' = "home"
    /\ fullscreen' = FALSE /\ fullSaved' = FALSE
    /\ pageEnable' = CASE view = "receive" -> CleanedUp
                       [] view = "scan"    -> TRUE
                       [] OTHER            -> pageEnable

(* GUI_EVENT_REFRESH of the view below an export request, which starts the *)
(* scan again (GuiScanRefresh).                                            *)
RefreshView == pageEnable' = (pageEnable /\ view # "scan")

(* GuiUSBTransportWidgetsDeInit, if the view is there *)
CloseExport ==
    /\ exportView' = FALSE /\ exportSaved' = FALSE
    /\ enable' = IF exportView THEN exportSaved ELSE enable
    /\ Crossed(exportView /\ JobActive)

(* SIG_VERIFY_PASSWORD_PASS: the lock page is hidden whoever is logged in.  *)
(* GuiLockScreenTurnOff closes all views when the wallet is another one,    *)
(* and refreshes the top view otherwise: the home view asks for the name of *)
(* the wallet.                                                              *)
HandlePass ==
    /\ messages # <<>> /\ Head(messages) = "pass"
    /\ messages' = Tail(messages)
    /\ lockPage' = FALSE
    /\ \/ /\ CloseView /\ CloseExport
          /\ UNCHANGED jobs
       \/ /\ IF AtHome THEN AsyncExecute("desc") ELSE UNCHANGED jobs
          /\ IF exportView THEN UNCHANGED pageEnable ELSE RefreshView
          /\ UNCHANGED <<enable, shown, saved, fullscreen, races>>
    /\ UNCHANGED <<tick, loggedIn, job, locking, loading>>
    /\ Noted

(* SIG_SETTING_WRITE_PASSPHRASE_PASS goes down the views to the passphrase  *)
(* view, whose GuiPassphraseDone closes the top view and hides the lock     *)
(* page as above.                                                           *)
HandleDone ==
    /\ messages # <<>> /\ Head(messages) = "done"
    /\ messages' = Tail(messages)
    /\ \/ /\ view = "passphrase" /\ lockPage' = FALSE
          /\ \/ CloseView /\ CloseExport /\ UNCHANGED jobs
             \/ /\ exportView /\ CloseExport
                /\ UNCHANGED <<pageEnable, view, fullscreen, fullSaved, jobs>>
             \/ /\ ~exportView /\ CloseView /\ AsyncExecute("desc")
                /\ UNCHANGED <<enable, exportView, exportSaved, races>>
       \/ /\ view # "passphrase"
          /\ UNCHANGED <<flags, lockPage, jobs, shown, saved, fullscreen, races>>
    /\ UNCHANGED <<tick, loggedIn, job, locking, loading>>
    /\ Noted

(* SIG_START_GENERATE_XPUB: the "Generating" page covers the lock page, if  *)
(* that is shown and no waiting hint of a passphrase is left over it.       *)
GuiShowGenerateXPubLoading ==
    /\ messages # <<>> /\ Head(messages) = "start"
    /\ messages' = Tail(messages)
    /\ \/ lockPage /\ pageEnable' = FALSE /\ loading' = TRUE
       \/ UNCHANGED <<pageEnable, loading>>
    /\ UNCHANGED <<enable, tick, loggedIn, lockPage, jobs, job, shown, saved,
                   fullscreen, locking, races>>
    /\ Noted

(* SIG_END_GENERATE_XPUB: the page goes when the lock page is next hidden. *)
(* g_isShowLoading is set when the page is shown and never cleared, so it  *)
(* may be set when no page is shown.                                       *)
GuiHideGenerateXPubLoading ==
    /\ messages # <<>> /\ Head(messages) = "end"
    /\ messages' = Tail(messages)
    /\ \/ lockPage /\ pageEnable' = TRUE /\ loading' = FALSE
       \/ ~(lockPage /\ loading) /\ UNCHANGED <<pageEnable, loading>>
    /\ UNCHANGED <<enable, tick, loggedIn, lockPage, jobs, job, shown, saved,
                   fullscreen, locking, races>>
    /\ Noted

(* UI_MSG_USB_TRANSPORT_VIEW: the view of the export request is opened. *)
HandleExport ==
    /\ messages # <<>> /\ Head(messages) = "export"
    /\ messages' = Tail(messages)
    /\ exportView' = TRUE
    /\ exportSaved' = enable /\ enable' = FALSE
    /\ Crossed(JobActive)
    /\ UNCHANGED <<pageEnable, tick, loggedIn, lockPage, jobs, job, view, fullSaved,
                   fullscreen, locking, page>>

(* A touch of the unlocked display, on the home view or on a view above it. *)
Touched(top) ==
    /\ ~lockPage
    /\ tick' = 0
    /\ top = IF exportView THEN "export" ELSE view

(* A receive view with its full-screen QR code: GuiFullscreenModeInit. *)
OpenReceive ==
    /\ Touched("home")
    /\ view' = "receive"
    /\ fullSaved' = enable
    /\ Crossed(~enable)
    /\ UNCHANGED <<flags, loggedIn, lockPage, jobs, job, messages, exportView,
                   exportSaved, fullscreen, locking, page>>

GuiFullscreenModeToggle ==
    /\ Touched("receive")
    /\ fullscreen' = ~fullscreen
    /\ pageEnable' = (fullscreen /\ fullSaved)
    /\ UNCHANGED <<enable, loggedIn, lockPage, jobs, job, messages, shown, saved,
                   locking, races, loading>>
    /\ Noted

(* The passphrase view, or the passphrase page of the settings *)
OpenPassphrase ==
    /\ Touched("home")
    /\ view' \in {"passphrase", "settings"}
    /\ UNCHANGED <<flags, loggedIn, lockPage, jobs, job, messages, exportView,
                   saved, fullscreen, locking, races, page>>

ConfirmPassphrase ==
    /\ \/ Touched("passphrase") /\ AsyncExecute("passphrase")
       \/ Touched("settings") /\ AsyncExecute("setting")
    /\ UNCHANGED <<flags, loggedIn, lockPage, job, ui, locking, races, page>>

(* GuiFrameOpenView of the scan view ends in GuiScanRefresh. *)
OpenScan ==
    /\ Touched("home")
    /\ view' = "scan" /\ pageEnable' = FALSE
    /\ UNCHANGED <<enable, loggedIn, lockPage, jobs, job, messages, exportView,
                   saved, fullscreen, locking, races, loading>>
    /\ Noted

(* A transaction was scanned and checked: the scan view makes room for the *)
(* detail view, which has the transaction parsed.                          *)
GuiTransactionCheckPass ==
    /\ view = "scan" /\ ~exportView
    /\ view' = "detail" /\ pageEnable' = TRUE
    /\ AsyncExecute("parse")
    /\ UNCHANGED <<enable, tick, loggedIn, lockPage, job, messages, exportView,
                   saved, fullscreen, locking, races, loading>>
    /\ Noted

(* The view is left.  SkipHandler of the passphrase view refreshes the home *)
(* view.                                                                    *)
LeaveView ==
    /\ view # "home" /\ Touched(view)
    /\ CloseView
    /\ \/ view = "passphrase" /\ AsyncExecute("desc")
       \/ UNCHANGED jobs
    /\ UNCHANGED <<enable, loggedIn, lockPage, job, messages, exportView,
                   exportSaved, locking, races, loading>>
    /\ Noted

(* ApproveButtonHandler and RejectButtonHandler *)
AnswerExport ==
    /\ Touched("export")
    /\ CloseExport /\ RefreshView
    /\ UNCHANGED <<loggedIn, lockPage, jobs, job, messages, view, fullSaved,
                   fullscreen, locking, loading>>
    /\ Noted

(* A password is entered on the lock page. *)
EnterPassword ==
    /\ lockPage
    /\ tick' = 0
    /\ AsyncExecute("unlock")
    /\ UNCHANGED <<flags, loggedIn, lockPage, job, ui, locking, races, page>>

-----------------------------------------------------------------------------
(* The button and the USB host *)

(* ReleaseHandler of the power button, in the timer task too. *)
ReleaseHandler ==
    /\ ~locking
    /\ StartLock
    /\ UNCHANGED <<flags, loggedIn, lockPage, jobs, job, ui, races, page>>

(* A USB interrupt clears the tick.  An export request is taken when the    *)
(* home view is the top view of an unlocked device; when the parameters of  *)
(* an older one are still there, both are dropped.  The parser task leaves  *)
(* the view to the UI task.  The host does not ask again before the view is *)
(* there.                                                                   *)
HostTraffic ==
    /\ tick' = 0
    /\ \/ UNCHANGED messages
       \/ /\ ~lockPage /\ AtHome /\ ~Contains(messages, "export")
          /\ Emit("export")
    /\ UNCHANGED <<flags, loggedIn, lockPage, jobs, job, shown, saved, fullscreen,
                   locking, races, page>>

Timer == LockScreenTimerFunc \/ Lock

UiMessage ==
    \/ HandlePass \/ HandleDone \/ HandleExport
    \/ GuiShowGenerateXPubLoading \/ GuiHideGenerateXPubLoading

User ==
    \/ OpenReceive \/ GuiFullscreenModeToggle
    \/ OpenPassphrase \/ ConfirmPassphrase
    \/ OpenScan \/ GuiTransactionCheckPass
    \/ LeaveView \/ AnswerExport
    \/ EnterPassword \/ ReleaseHandler

Next == Timer \/ Background \/ UiMessage \/ User \/ HostTraffic

(* The tick is a periodic timer; the tasks are scheduled by the kernel and  *)
(* the two of higher priority wait on their queues.  Users and hosts owe    *)
(* nothing.                                                                 *)
Fairness ==
    /\ WF_vars(LockScreenTimerFunc) /\ WF_vars(Lock)
    /\ WF_vars(Background) /\ WF_vars(UiMessage)

Spec == Init /\ [][Next]_vars /\ Fairness

-----------------------------------------------------------------------------
(* Properties *)

(* The types of the flags, queues, jobs and views; the queues hold no more *)
(* than osMessageQueueNew was asked for.                                    *)
TypeOK ==
    /\ pageEnable \in BOOLEAN /\ enable \in BOOLEAN /\ loading \in BOOLEAN
    /\ overwritten \in BOOLEAN
    /\ tick \in 0..TimeOut - 1
    /\ loggedIn \in BOOLEAN /\ lockPage \in BOOLEAN /\ locking \in BOOLEAN
    /\ exportSaved \in BOOLEAN /\ fullSaved \in BOOLEAN
    /\ exportView \in BOOLEAN /\ fullscreen \in BOOLEAN
    /\ jobs \in Seq(Kinds) /\ Len(jobs) <= JobQueue
    /\ job \in [kind : Kinds, pc : Steps, saved : BOOLEAN, ok : BOOLEAN]
    /\ messages \in Seq(Messages) /\ Len(messages) <= UiQueue
    /\ view \in Views
    /\ races \subseteq Races

(* g_lockScreenEnable and g_pageLockScreenEnable: when no job holds the    *)
(* first flag and no export request is shown, that flag is set again; when *)
(* nobody holds the page's flag (a job, the full-screen QR code, the scan  *)
(* view, a "Generating" page whose end was never signalled), that one is.  *)
(* Only an early return and a view opened or closed under a running job    *)
(* (Nested) can break this.                                                *)
FlagsRestored ==
    Nested =>
        /\ ~HoldsLock /\ ~exportView => enable
        /\ ~PageHeld => pageEnable

(* LockScreen does not begin to log out while a job of the background task *)
(* works with the account, nor while an export request is shown: that is   *)
(* what SetLockScreen(false) is called for.  Nor does it while anybody     *)
(* holds the page's flag, unless another of them has set it meanwhile.     *)
LockOutsideJobs ==
    [][locking' /\ ~locking
        => \/ ~Nested
           \/ ~HoldsLock /\ ~exportView /\ (PageHeld => overwritten)]_vars

(* GuiLockScreenPassCode hides the lock page: a display that is not covered *)
(* by it belongs to a logged-in account, except when the device was locked  *)
(* while the signal of a right password was on its way.                     *)
UnlockedLoggedIn == ~lockPage => loggedIn \/ "outran" \in races

(* From some time on neither the user nor the host does anything, nothing *)
(* is shown that is to keep the display on, and no "Generating" page is    *)
(* left held up.                                                           *)
LeftAlone ==
    /\ <>[][Timer \/ Background \/ UiMessage]_vars
    /\ <>[](~fullscreen /\ ~exportView /\ ~Contains(messages, "export"))
    /\ <>[](view # "scan" /\ ~loading)

(* LockScreenTimerFunc: a device that is left alone logs out, shows the    *)
(* lock page and stays so, unless the nesting is lost.                      *)
AutoLock ==
    LeftAlone => \/ <>[](~loggedIn /\ lockPage)
                 \/ <>[](~Nested \/ job.pc = "asserted")

=============================================================================
