----------------------------- MODULE LockDevice -----------------------------
(***************************************************************************)
(* What follows a wrong password on the lock page.  VerifyPasswordAndLogin *)
(* counts it in RAM and then in a page of the secure element; the last     *)
(* four attempts are followed by a page that has to be waited for          *)
(* (gui_lock_device_widgets.c), the last one by a page that wipes the      *)
(* device.  A wipe (device_settings.c) that power loss interrupts is taken *)
(* up by the next boot (power_on_self_check.c).                            *)
(*                                                                         *)
(* The background task verifies, counts and wipes; the UI task opens and   *)
(* closes the pages and posts jobs to it.  A handler of the UI task is one *)
(* step.  Power may be lost between any two steps; the clock runs on.      *)
(***************************************************************************)
EXTENDS Integers, Sequences

CONSTANTS
    MaxErrors,   \* MAX_LOGIN_PASSWORD_ERROR_COUNT (10)
    LockTime,    \* LOCK_TIME_MAPS: the time to wait, by the attempts left
    JobQueue,    \* messages g_sensitiveQueue holds
    MaxCrashes   \* bound: how often power is lost

Longest == LockTime[1]

ASSUME ErrorsAssumption == MaxErrors \in Nat \ {0} /\ Len(LockTime) < MaxErrors
ASSUME LockTimeAssumption ==
    /\ LockTime \in Seq(Nat \ {0}) /\ LockTime # <<>>
    /\ \A i, j \in DOMAIN LockTime : i < j => LockTime[i] > LockTime[j]
ASSUME BoundAssumption == JobQueue \in Nat \ {0} /\ MaxCrashes \in Nat

VARIABLES
    info,     \* g_publicInfo: errors and since, the age of lastLockDeviceTime
    se,       \* the same in the page of the secure element
    password, \* the password of secret_cache.c: none, right or wrong
    jobs,     \* g_sensitiveQueue
    job,      \* what the background task is doing
    answers,  \* g_uiQueue: the results of the verifications
    page,     \* what the display shows
    active,   \* g_lockDeviceView.isActive
    timer,    \* g_countDownTimer # NULL
    remaining,\* needLockTime - (now - startTime)
    unlocked, \* has the home view been opened since the boot?
    wiping,   \* the next statement of a running wipe, 0 when there is none
    flag,     \* DEVICE_WIPE_FLAG_MAGIC_NUM is in the flash
    data,     \* what is on the device
    crashes,
    waited,   \* history: the time since a wrong password was last counted
    begun,    \* history: what a wipe that has begun was begun by
    races     \* history: what has gone wrong, see Races

memory == <<info, se, password>>
queues == <<jobs, job, answers>>
display == <<page, active, timer, remaining, unlocked>>
storage == <<wiping, flag, data, begun>>
history == <<crashes, waited, races>>
vars == <<memory, queues, display, storage, history>>

(* An age is counted up to the longest lock time: an older time stamp, and  *)
(* the stamp 0, are as good as none.                                        *)
Ages == 0..Longest
Never == Longest
Older(age) == IF age < Longest THEN age + 1 ELSE age

Fresh == [errors |-> 0, since |-> Never]

(* A job that writes the lock time carries its age. *)
Verification == [kind |-> "verify", since |-> Never]
Wipe == [kind |-> "wipe", since |-> Never]
WriteTime(age) == [kind |-> "time", since |-> age]

Pages == {"lock", "home", "forget", "timed", "final", "wiping",
          "setup", "off", "astray"}

Everything == {"fingers", "account0", "account1", "account2", "flash"}

(* overlap: a password was entered, or a finger recognised, while a         *)
(* password was being verified;                                             *)
(* lost: the time of a lock did not reach the secure element;               *)
(* stale: a lock began when the time of an earlier one was still there;     *)
(* forgot: the password was reset with the seed phrase.                     *)
Races == {"overlap", "lost", "stale", "forgot"}

Init ==
    /\ info = Fresh /\ se = Fresh /\ password = "none"
    /\ jobs = <<>> /\ job = "none" /\ answers = <<>>
    /\ page = "lock" /\ active = FALSE /\ timer = FALSE /\ remaining = 0
    /\ unlocked = FALSE
    /\ wiping = 0 /\ flag = FALSE /\ data = Everything /\ begun = "no"
    /\ crashes = 0 /\ waited = Longest /\ races = {}

Left(errors) == MaxErrors - errors

Quiet == jobs = <<>> /\ job = "none" /\ answers = <<>>

Mark(race, condition) == IF condition THEN races \cup {race} ELSE races

-----------------------------------------------------------------------------
(* Jobs.  A message that finds the queue full is lost.                      *)

Post(m) == jobs' = IF Len(jobs) < JobQueue THEN Append(jobs, m) ELSE jobs

(* The UI task has the higher priority: it hears of an answer before the    *)
(* background task takes the next message.                                  *)
IsNext(kind) == job = "none" /\ answers = <<>> /\ jobs # <<>> /\ Head(jobs).kind = kind

(* Mutant: the count is kept in RAM until the answer is given. *)
WrittenLate == [se EXCEPT !.since = info.since]

(* SE_HmacEncryptWrite of g_publicInfo to PAGE_PUBLIC_INFO *)
Written == info

(* VerifyPassword against the accounts.  A verification finds what was last *)
(* put into the cache; the one before has cleared it.                       *)
Verify ==
    /\ IsNext("verify")
    /\ jobs' = Tail(jobs)
    /\ job' = IF password = "right" THEN "accepted" ELSE "rejected"
    /\ info' = [info EXCEPT !.errors = IF password = "right" THEN 0 ELSE @ + 1]
    /\ UNCHANGED <<se, password, answers, display, storage, history>>

Persist ==
    /\ job \in {"accepted", "rejected"}
    /\ se' = Written
    /\ IF job = "accepted"
       THEN job' = "success" /\ UNCHANGED waited
       ELSE job' = "failure" /\ waited' = 0
    /\ UNCHANGED <<info, password, jobs, answers, display, storage, crashes, races>>

(* ClearSecretCache, then ModelVerifyPassSuccess or ModelVerifyPassFailed.  *)
(* The failed assertion is an endless loop of this task.                    *)
Answer ==
    /\ job \in {"success", "failure"}
    /\ password' = "none"
    /\ \/ job = "success" /\ job' = "none" /\ answers' = Append(answers, -1)
       \/ /\ job = "failure" /\ info.errors <= MaxErrors
          /\ job' = "none" /\ answers' = Append(answers, info.errors)
       \/ /\ job = "failure" /\ info.errors > MaxErrors
          /\ job' = "asserted" /\ UNCHANGED answers
    /\ UNCHANGED <<info, se, jobs, display, storage, history>>

(* ModelWriteLastLockDeviceTime *)
SetLastLockDeviceTime ==
    /\ IsNext("time")
    /\ jobs' = Tail(jobs)
    /\ info' = [info EXCEPT !.since = Head(jobs).since]
    /\ se' = info'
    /\ UNCHANGED <<password, job, answers, display, storage, history>>

(* ModelDelAllWallet *)
StartWipe ==
    /\ IsNext("wipe")
    /\ jobs' = Tail(jobs) /\ job' = "wipe"
    /\ wiping' = 1
    /\ UNCHANGED <<memory, answers, display, flag, data, begun, history>>

-----------------------------------------------------------------------------
(* Wiping.  The job sets the flag first; the boot goes on at the second     *)
(* statement.  The flag is in the last block of the flash that is erased.   *)

(* Mutant: the flash is erased from the top. *)
FlashFirst == <<"setFlag", "clearFlag", "flash", "fingers", "info",
                "account0", "account1", "account2">>

Statements == <<"setFlag", "fingers", "info", "account0", "account1", "account2",
                "flash", "clearFlag">>

(* SystemReboot, NVIC_SystemReset: what was in RAM is gone. *)
Restarted ==
    /\ page' = "off" /\ active' = FALSE /\ timer' = FALSE /\ remaining' = 0
    /\ unlocked' = FALSE
    /\ jobs' = <<>> /\ job' = "none" /\ answers' = <<>>
    /\ password' = "none"
    /\ wiping' = 0

WipeStep ==
    /\ wiping # 0
    /\ LET statement == Statements[wiping]
       IN  /\ flag' = (statement = "setFlag" \/ (flag /\ statement # "clearFlag"))
           /\ data' = data \ {statement}
           /\ begun' = IF statement = "setFlag" THEN "flag"
                       ELSE IF begun = "no" THEN "count" ELSE begun
           /\ IF statement = "info"
              THEN info' = Fresh /\ se' = Fresh
              ELSE UNCHANGED <<info, se>>
    /\ IF wiping < Len(Statements)
       THEN wiping' = wiping + 1 /\ UNCHANGED <<password, queues, display>>
       ELSE Restarted
    /\ UNCHANGED history

-----------------------------------------------------------------------------
(* Boot *)

(* Mutant: only the flag is asked. *)
FlagNeedsReset == flag

(* Mutant: the last attempt is not enough. *)
LateNeedsReset == flag \/ se.errors > MaxErrors

NeedsReset == flag \/ se.errors >= MaxErrors

(* Mutant: a lock goes on for the shortest time only. *)
StillLockedShort(record) ==
    Left(record.errors) \in DOMAIN LockTime /\ record.since < LockTime[Len(LockTime)]

(* GuiJumpToLockDevicePage *)
StillLocked(record) ==
    /\ Left(record.errors) \in DOMAIN LockTime
    /\ record.since < LockTime[Left(record.errors)]

(* CalculateLockDeiceTime: what is left of the lock whose beginning the     *)
(* secure element knows.  An age of 0, and one past the lock, give it all.  *)
StillNeeds(record) ==
    LET origin == LockTime[Left(record.errors)]
    IN  IF record.since \in 1..(origin - 1) THEN origin - record.since ELSE origin

(* GuiFrameOpenViewWithParam opens a view that is open already once more:   *)
(* it becomes its own predecessor, and what the UI does until the power   *)
(* is switched off is not modelled: the page is astray.                     *)
OpenTimed(record) ==
    /\ page' = IF active THEN "astray" ELSE "timed"
    /\ active' = TRUE /\ timer' = TRUE
    /\ remaining' = StillNeeds(record)

(* AccountManagerInit, PowerOnSelfCheck, and the lock view if there is a    *)
(* wallet.                                                                  *)
Boot ==
    /\ page = "off" /\ wiping = 0
    /\ info' = se
    /\ IF NeedsReset
       THEN wiping' = 2 /\ UNCHANGED display
       ELSE /\ UNCHANGED <<wiping, unlocked>>
            /\ IF {"account0", "account1", "account2"} \cap data = {}
               THEN page' = "setup" /\ UNCHANGED <<active, timer, remaining>>
               ELSE IF StillLocked(se)
               THEN OpenTimed(se)
               ELSE page' = "lock" /\ UNCHANGED <<active, timer, remaining>>
    /\ UNCHANGED <<se, password, queues, flag, data, begun, history>>

-----------------------------------------------------------------------------
(* The UI task *)

(* The keyboard takes a password also while another is being verified. *)
EnterPassword(p) ==
    /\ page = "lock" /\ ~timer
    /\ password' = p
    /\ Post(Verification)
    /\ races' = Mark("overlap", ~Quiet)
    /\ UNCHANGED <<info, se, job, answers, display, storage, crashes, waited>>

(* SIG_VERIFY_PASSWORD_PASS: the home view is opened, or uncovered.  What   *)
(* becomes of a timed or final page that is open is not modelled.           *)
HandlePass ==
    /\ answers # <<>> /\ Head(answers) = -1 /\ page # "astray"
    /\ answers' = Tail(answers)
    /\ page' = IF active \/ page \in {"forget", "wiping"} THEN "astray" ELSE "home"
    /\ unlocked' = TRUE
    /\ UNCHANGED <<memory, jobs, job, active, timer, remaining, storage, history>>

(* GuiLockScreenErrorCount *)
HandleFail ==
    /\ answers # <<>> /\ Head(answers) # -1 /\ page # "astray"
    /\ answers' = Tail(answers)
    /\ LET errors == Head(answers)
       IN  \/ /\ Left(errors) \in DOMAIN LockTime
              /\ OpenTimed([info EXCEPT !.errors = errors])
              /\ Post(WriteTime(0))
              /\ races' = Mark("stale", StillNeeds([info EXCEPT !.errors = errors])
                                            < LockTime[Left(errors)])
           \/ /\ Left(errors) = 0 /\ ~active
              /\ page' = "final" /\ active' = TRUE /\ timer' = TRUE
              /\ UNCHANGED <<remaining, jobs, races>>
           \/ /\ Left(errors) \notin DOMAIN LockTime
              /\ Left(errors) = 0 => active
              /\ UNCHANGED <<page, active, timer, remaining, jobs, races>>
    /\ UNCHANGED <<memory, job, unlocked, storage, crashes, waited>>

(* SIG_VERIFY_FINGER_PASS: ClearCurrentPasswordErrorCount. *)
HandleFinger ==
    /\ page = "lock" /\ unlocked /\ ~active
    /\ info' = [info EXCEPT !.errors = 0]
    /\ se' = info'
    /\ page' = "home"
    /\ races' = Mark("overlap", ~Quiet)
    /\ UNCHANGED <<password, queues, active, timer, remaining, unlocked, storage,
                   crashes, waited>>

(* The view is closed and the time of the lock forgotten. *)
EndTimed ==
    /\ page' = "lock" /\ active' = FALSE /\ timer' = FALSE
    /\ Post(WriteTime(Never))

(* CountDownTimerLockTimeHandler: the page is closed if it is on top. *)
LockTimeOver ==
    /\ timer /\ remaining = 0 /\ page \in {"timed", "lock", "forget"}
    /\ \/ page # "forget" /\ EndTimed
       \/ /\ page = "forget"
          /\ timer' = FALSE /\ Post(WriteTime(Never))
          /\ UNCHANGED <<page, active>>
    /\ UNCHANGED <<memory, job, answers, remaining, unlocked, storage, history>>

(* OpenForgetPasswordHandler, not while a password is being verified. *)
OpenForget ==
    /\ page \in {"timed", "lock"} /\ Quiet /\ (timer => page = "timed")
    /\ page' = "forget"
    /\ UNCHANGED <<memory, queues, active, timer, remaining, unlocked, storage,
                   history>>

(* Mutant: the page is shown again as it is. *)
NotRefreshed == FALSE

(* GuiLockDeviceRefresh *)
Refreshed == remaining = 0

(* GuiQuitHandler of the forget view: the timed page below it is refreshed, *)
(* which closes it when its time is over.                                   *)
LeaveForget ==
    /\ page = "forget"
    /\ \/ active /\ Refreshed /\ EndTimed
       \/ active /\ ~Refreshed /\ page' = "timed" /\ UNCHANGED <<active, timer, jobs>>
       \/ ~active /\ page' = "lock" /\ UNCHANGED <<active, timer, jobs>>
    /\ UNCHANGED <<memory, job, answers, remaining, unlocked, storage, history>>

(* CloseCurrentParentAndCloseViewHandler, after the seed phrase gave a new  *)
(* password.  The lock page covers the timed page until the timer's next    *)
(* tick.                                                                    *)
ResetSuccess ==
    /\ page = "forget"
    /\ IF active /\ Refreshed
       THEN active' = FALSE /\ timer' = FALSE
       ELSE UNCHANGED <<active, timer>>
    /\ page' = "lock" /\ remaining' = 0
    /\ Post(WriteTime(Never))
    /\ races' = races \cup {"forgot"}
    /\ UNCHANGED <<memory, job, answers, unlocked, storage, crashes, waited>>

(* CountDownTimerWipeDeviceHandler at the end of its countdown, and the     *)
(* button: a battery too low leaves the button only.                        *)
FinalOver ==
    /\ page = "final"
    /\ \/ page' = "wiping" /\ Post(Wipe)
       \/ timer /\ UNCHANGED <<page, jobs>>
    /\ timer' = FALSE
    /\ UNCHANGED <<memory, job, answers, active, remaining, unlocked, storage, history>>

(* The wipe of the system settings *)
ConfirmWipe ==
    /\ page = "home"
    /\ page' = "wiping" /\ Post(Wipe)
    /\ UNCHANGED <<memory, job, answers, active, timer, remaining, unlocked, storage,
                   history>>

(* LockScreen: the lock page is shown over the home view. *)
LockScreen ==
    /\ page = "home"
    /\ page' = "lock"
    /\ UNCHANGED <<memory, queues, active, timer, remaining, unlocked, storage, history>>

-----------------------------------------------------------------------------
(* The clock, also of a device that is off *)

Tick ==
    /\ info' = [info EXCEPT !.since = Older(@)]
    /\ se' = [se EXCEPT !.since = Older(@)]
    /\ jobs' = [i \in DOMAIN jobs |-> [jobs[i] EXCEPT !.since = Older(@)]]
    /\ waited' = Older(waited)
    /\ remaining' = IF remaining > 0 THEN remaining - 1 ELSE 0
    /\ UNCHANGED <<password, job, answers, page, active, timer, unlocked, storage,
                   crashes, races>>

(* Has a lock begun, or is it about to, of which the secure element does    *)
(* not know?                                                                *)
TimeUnknown ==
    \/ \E i \in DOMAIN jobs : jobs[i].kind = "time" /\ jobs[i].since < Longest
    \/ job = "failure" \/ answers # <<>>

(* Power is lost, or the button held down. *)
Crash ==
    /\ page # "off" \/ wiping # 0
    /\ crashes < MaxCrashes
    /\ crashes' = crashes + 1
    /\ Restarted
    /\ info' = Fresh
    /\ races' = Mark("lost", TimeUnknown)
    /\ UNCHANGED <<se, flag, data, begun, waited>>

Background == Verify \/ Persist \/ Answer \/ SetLastLockDeviceTime \/ StartWipe

Handle == HandlePass \/ HandleFail

Countdown == LockTimeOver \/ (timer /\ FinalOver)

User ==
    \/ \E p \in {"right", "wrong"} : EnterPassword(p)
    \/ HandleFinger \/ OpenForget \/ LeaveForget \/ ResetSuccess
    \/ ConfirmWipe \/ LockScreen
    \/ ~timer /\ FinalOver

Next == Background \/ WipeStep \/ Boot \/ Handle \/ Countdown \/ User \/ Tick \/ Crash

(* The tasks, the clock and the LVGL timers run; the device is switched on  *)
(* again.  Users owe nothing.                                               *)
Fairness ==
    /\ WF_vars(Background) /\ WF_vars(WipeStep) /\ WF_vars(Boot)
    /\ WF_vars(Handle) /\ WF_vars(Countdown) /\ WF_vars(Tick)

Spec == Init /\ [][Next]_vars /\ Fairness

-----------------------------------------------------------------------------
(* Properties *)

(* The types of the records, queues and pages. *)
TypeOK ==
    /\ info \in [errors : 0..(MaxErrors + 1), since : Ages]
    /\ se \in [errors : 0..(MaxErrors + 1), since : Ages]
    /\ password \in {"none", "right", "wrong"}
    /\ jobs \in Seq([kind : {"verify", "time", "wipe"}, since : Ages])
    /\ Len(jobs) <= JobQueue
    /\ job \in {"none", "accepted", "rejected", "success", "failure", "asserted", "wipe"}
    /\ answers \in Seq(-1..MaxErrors) /\ Len(answers) <= 1
    /\ page \in Pages
    /\ active \in BOOLEAN /\ timer \in BOOLEAN /\ unlocked \in BOOLEAN
    /\ remaining \in Ages /\ waited \in Ages
    /\ wiping \in 0..Len(Statements) /\ flag \in BOOLEAN
    /\ data \subseteq Everything
    /\ begun \in {"no", "flag", "count"}
    /\ crashes \in 0..MaxCrashes
    /\ races \subseteq Races

(* VerifyPasswordAndLogin: the user hears of a wrong password only when the *)
(* secure element has counted it, so that switching the device off at the   *)
(* answer gives no attempt back.                                            *)
CountDurable ==
    [][\A n \in 0..MaxErrors : answers' = Append(answers, n) => se.errors = n]_vars

(* AccountManagerIsNeedReset and the final page: after the last attempt the *)
(* device takes no password any more, also when it is switched off and on,  *)
(* and the assertion on errorCount holds, unless verifications overlapped.  *)
LastAttempt ==
    "overlap" \notin races =>
        /\ job # "asserted"
        /\ page \in {"lock", "home"} /\ Quiet => se.errors < MaxErrors

(* Is the lock page ready for a password before the time is over that the   *)
(* attempts left call for?                                                  *)
Early ==
    /\ page = "lock" /\ Quiet
    /\ Left(info.errors) \in DOMAIN LockTime
    /\ waited < LockTime[Left(info.errors)]

(* GuiJumpToLockDevicePage and CalculateLockDeiceTime: switching the device *)
(* off and on, once or more, does not make a lock any shorter, unless its   *)
(* time was not written yet.                                                *)
WaitServed == Early => races # {}

(* PowerOnSelfCheck: a wipe that WipeDevice has begun is finished before    *)
(* the device can be used again, wherever power was lost.                   *)
WipeResumes ==
    begun = "flag" /\ wiping = 0 /\ page # "off" => data = {}

(* GuiLockDeviceRefresh and the timer: a timed page does not stay, though   *)
(* the user may look at the forget-password view when its time is over.     *)
LockEnds == page = "timed" ~> page # "timed"

(* CountDownTimerWipeDeviceHandler: the countdown of the final page leads   *)
(* to an empty device, unless the battery was too low at its end, a wipe    *)
(* without the flag was interrupted, or verifications overlapped.           *)
FinalWipes ==
    (page = "final" /\ timer /\ "overlap" \notin races) ~>
        \/ data = {}
        \/ page = "final" /\ ~timer
        \/ begun = "count" /\ wiping = 0 /\ page # "off"

(* "All the data on this device will be erased after wiped": a wipe that    *)
(* has begun is finished before the device can be used again.               *)
WipeFinishes ==
    begun # "no" /\ wiping = 0 /\ page # "off" => data = {}

=============================================================================
