-------------------------- MODULE LockDeviceProofs --------------------------
(***************************************************************************)
(* The count of wrong passwords, the wipe and the time of a lock, for any  *)
(* number of attempts, any lock times, any queue and any number of power   *)
(* losses.                                                                 *)
(***************************************************************************)
EXTENDS LockDevice, SequenceTheorems, TLAPS

USE DEF memory, queues, display, storage, history

(* A verification that was begun and is not answered. *)
Verified == {"accepted", "rejected", "success", "failure"}

(* How the tasks hand over to each other, and where the two counts are. *)
Order ==
    /\ page = "off" => job = "none" /\ jobs = <<>> /\ answers = <<>>
    /\ job \in Verified => answers = <<>>
    /\ wiping # 0 => job = "wipe" \/ page = "off"
    /\ job = "none" /\ page # "off" => info.errors <= MaxErrors
    /\ job \in {"accepted", "success"} => info.errors = 0
    /\ job = "failure" => info.errors = se.errors

(* Where a wipe with the flag stands: what the next boot needs is there. *)
WipeInv ==
    begun = "flag" =>
        \/ data = {}
        \/ wiping = 0 /\ page = "off" /\ flag
        \/ wiping >= 2 /\ flag /\ \A i \in 2..wiping - 1 : Statements[i] \notin data

-----------------------------------------------------------------------------
(* Types *)

(* The flags are kept apart from the rest: the provers like it so. *)
Booleans ==
    active \in BOOLEAN /\ timer \in BOOLEAN /\ unlocked \in BOOLEAN /\ flag \in BOOLEAN

Record == [errors : 0..(MaxErrors + 1), since : Ages]
Message == [kind : {"verify", "time", "wipe"}, since : Ages]

Data ==
    /\ info \in Record /\ se \in Record
    /\ password \in {"none", "right", "wrong"}
    /\ jobs \in Seq(Message) /\ Len(jobs) <= JobQueue
    /\ job \in {"none", "accepted", "rejected", "success", "failure", "asserted", "wipe"}
    /\ answers \in Seq(-1..MaxErrors) /\ Len(answers) <= 1
    /\ page \in Pages
    /\ remaining \in Ages /\ waited \in Ages
    /\ wiping \in 0..Len(Statements)
    /\ data \subseteq Everything
    /\ begun \in {"no", "flag", "count"}
    /\ crashes \in 0..MaxCrashes
    /\ races \subseteq Races

LEMMA TypeSplit == TypeOK <=> Booleans /\ Data
  BY Zenon DEF TypeOK, Booleans, Data, Record, Message

LEMMA Times ==
    /\ Longest \in Nat \ {0}
    /\ DOMAIN LockTime = 1..Len(LockTime) /\ Len(LockTime) \in Nat \ {0} /\ Len(LockTime) < MaxErrors
    /\ \A i \in DOMAIN LockTime : LockTime[i] \in 1..Longest
    /\ MaxErrors \in Nat \ {0}
<1>1. LockTime \in Seq(Nat \ {0}) /\ LockTime # <<>>
  BY LockTimeAssumption
<1>2. Len(LockTime) \in Nat \ {0} /\ DOMAIN LockTime = 1..Len(LockTime)
  BY <1>1
<1>3. \A i \in DOMAIN LockTime : LockTime[i] \in Nat \ {0}
  BY <1>1, <1>2
<1>4. \A i \in DOMAIN LockTime : LockTime[i] <= LockTime[1]
<2> SUFFICES ASSUME NEW i \in DOMAIN LockTime, i # 1 PROVE LockTime[i] <= LockTime[1]
  BY <1>2, <1>3
<2>1. 1 \in DOMAIN LockTime /\ 1 < i
  BY <1>2
<2>2. LockTime[1] > LockTime[i]
  BY <2>1, LockTimeAssumption
<2> QED
  BY <2>1, <2>2, <1>3
<1> QED
  BY <1>2, <1>3, <1>4, ErrorsAssumption DEF Longest

LEMMA AgeTypes ==
    /\ 0 \in Ages /\ Never \in Ages /\ 0 \in 0..MaxErrors
    /\ \A a \in Ages : Older(a) \in Ages
    /\ Fresh \in Record
    /\ Verification \in Message /\ Wipe \in Message
    /\ \A a \in Ages : WriteTime(a) \in Message
  BY Times DEF Ages, Never, Older, Fresh, Record, Message, Verification, Wipe, WriteTime

LEMMA JobsPosted ==
    ASSUME NEW m \in Message, jobs \in Seq(Message), Len(jobs) <= JobQueue, Post(m)
    PROVE jobs' \in Seq(Message) /\ Len(jobs') <= JobQueue
  BY BoundAssumption DEF Post

LEMMA JobsTail ==
    ASSUME jobs \in Seq(Message), Len(jobs) <= JobQueue, jobs # <<>>
    PROVE /\ Head(jobs) \in Message
          /\ Tail(jobs) \in Seq(Message) /\ Len(Tail(jobs)) <= JobQueue
          /\ Len(Tail(jobs)) = Len(jobs) - 1
  BY BoundAssumption

LEMMA OneOfSeq ==
    ASSUME NEW T, NEW q \in Seq(T), Len(q) <= 1, q # <<>>
    PROVE Head(q) \in T /\ Tail(q) = <<>> /\ q = <<Head(q)>>
<1>1. Len(q) \in Nat /\ Len(q) # 0
  BY EmptySeq
<1>2. Len(q) = 1
  BY <1>1
<1>3. Head(q) = q[1] /\ q[1] \in T
  BY <1>2, ElementOfSeq
<1>4. Len(Tail(q)) = 0 /\ Tail(q) \in Seq(T)
  BY <1>2
<1>5. Tail(q) = <<>>
  BY <1>4, EmptySeq
<1>6. q = <<q[1]>>
  BY <1>2
<1> QED
  BY <1>3, <1>5, <1>6

LEMMA AnswersTail ==
    ASSUME answers \in Seq(-1..MaxErrors), Len(answers) <= 1, answers # <<>>
    PROVE Head(answers) \in -1..MaxErrors /\ Tail(answers) = <<>> /\ answers = <<Head(answers)>>
  BY OneOfSeq

LEMMA SinceType ==
    \A r \in Record, a \in Ages : [r EXCEPT !.since = a] \in Record
                             /\ [r EXCEPT !.since = a].errors = r.errors
                             /\ [r EXCEPT !.since = a].since = a
  BY DEF Record

LEMMA ErrorsType ==
    \A r \in Record, n \in 0..(MaxErrors + 1) : [r EXCEPT !.errors = n] \in Record
                             /\ [r EXCEPT !.errors = n].errors = n
                             /\ [r EXCEPT !.errors = n].since = r.since
  BY DEF Record

LEMMA StillNeedsType ==
    \A r \in Record : Left(r.errors) \in DOMAIN LockTime => StillNeeds(r) \in Ages
  BY Times DEF StillNeeds, Record, Ages

LEMMA InitType == Init => TypeOK
<1> SUFFICES ASSUME Init PROVE Booleans /\ Data
  BY TypeSplit
<1>1. Booleans
  BY Zenon DEF Init, Booleans
<1>2. Data
  BY AgeTypes, Times, BoundAssumption DEF Init, Data, Pages, Ages, Longest, Statements, Races
<1> QED
  BY <1>1, <1>2


LEMMA BooleansStep == Booleans /\ [Next]_vars => Booleans'
<1> SUFFICES ASSUME Booleans, [Next]_vars PROVE Booleans'
  OBVIOUS
<1> USE DEF Booleans
<1>1. ASSUME Verify PROVE Booleans'
  BY <1>1, Zenon DEF Verify
<1>2. ASSUME Persist PROVE Booleans'
  BY <1>2, Zenon DEF Persist
<1>3. ASSUME Answer PROVE Booleans'
  BY <1>3, Zenon DEF Answer
<1>4. ASSUME SetLastLockDeviceTime PROVE Booleans'
  BY <1>4, Zenon DEF SetLastLockDeviceTime
<1>5. ASSUME StartWipe PROVE Booleans'
  BY <1>5, Zenon DEF StartWipe
<1>6. ASSUME WipeStep PROVE Booleans'
  BY <1>6, Zenon DEF WipeStep, Restarted
<1>7. ASSUME Boot PROVE Booleans'
  BY <1>7, Zenon DEF Boot, OpenTimed
<1>8. ASSUME HandlePass PROVE Booleans'
  BY <1>8, Zenon DEF HandlePass
<1>9. ASSUME HandleFail PROVE Booleans'
  BY <1>9, Zenon DEF HandleFail, OpenTimed
<1>10. ASSUME NEW p \in {"right", "wrong"}, EnterPassword(p) PROVE Booleans'
  BY <1>10, Zenon DEF EnterPassword
<1>11. ASSUME HandleFinger PROVE Booleans'
  BY <1>11, Zenon DEF HandleFinger
<1>12. ASSUME OpenForget PROVE Booleans'
  BY <1>12, Zenon DEF OpenForget
<1>13. ASSUME LeaveForget PROVE Booleans'
  BY <1>13, Zenon DEF LeaveForget, EndTimed
<1>14. ASSUME ResetSuccess PROVE Booleans'
  BY <1>14, Zenon DEF ResetSuccess
<1>15. ASSUME ConfirmWipe PROVE Booleans'
  BY <1>15, Zenon DEF ConfirmWipe
<1>16. ASSUME LockScreen PROVE Booleans'
  BY <1>16, Zenon DEF LockScreen
<1>17. ASSUME LockTimeOver PROVE Booleans'
  BY <1>17, Zenon DEF LockTimeOver, EndTimed
<1>18. ASSUME FinalOver PROVE Booleans'
  BY <1>18, Zenon DEF FinalOver
<1>19. ASSUME Tick PROVE Booleans'
  BY <1>19, Zenon DEF Tick
<1>20. ASSUME Crash PROVE Booleans'
  BY <1>20, Zenon DEF Crash, Restarted
<1>21. CASE UNCHANGED vars
  BY <1>21, Zenon DEF vars
<1> QED
  BY <1>1, <1>2, <1>3, <1>4, <1>5, <1>6, <1>7, <1>8, <1>9, <1>10, <1>11, <1>12, <1>13, <1>14, <1>15, <1>16, <1>17, <1>18, <1>19, <1>20, <1>21
     DEF Next, Background, Handle, Countdown, User

LEMMA DataStep == Data /\ Order /\ [Next]_vars => Data'
<1> SUFFICES ASSUME Data, Order, [Next]_vars PROVE Data'
  OBVIOUS
<1> USE DEF Data
<1>1. ASSUME Verify PROVE Data'
<2>1. jobs # <<>> /\ job = "none"
  BY <1>1 DEF Verify, IsNext
<2>2. info.errors \in 0..MaxErrors
  BY <2>1 DEF Order, Record
<2>3. info' \in Record
<3>1. MaxErrors \in Nat /\ info.errors + 1 \in 0..(MaxErrors + 1) /\ 0 \in 0..(MaxErrors + 1)
  BY <2>2, Times
<3>2. [info EXCEPT !.errors = 0] \in Record /\ [info EXCEPT !.errors = info.errors + 1] \in Record
  BY <3>1, ErrorsType
<3> QED
  BY <1>1, <3>2 DEF Verify
<2> QED
  BY <1>1, <2>1, <2>3, JobsTail DEF Verify
<1>2. ASSUME Persist PROVE Data'
  BY <1>2, AgeTypes DEF Persist, Written
<1>3. ASSUME Answer PROVE Data'
  BY <1>3, AgeTypes, Times DEF Answer, Record, Order, Verified
<1>4. ASSUME SetLastLockDeviceTime PROVE Data'
  BY <1>4, JobsTail DEF SetLastLockDeviceTime, IsNext, Record, Message
<1>5. ASSUME StartWipe PROVE Data'
  BY <1>5, JobsTail DEF StartWipe, IsNext, Statements
<1>6. ASSUME WipeStep PROVE Data'
<2>1. info' \in Record /\ se' \in Record
  BY <1>6, AgeTypes DEF WipeStep
<2>2. data' \subseteq Everything /\ begun' \in {"no", "flag", "count"}
  BY <1>6 DEF WipeStep
<2>3. CASE wiping < Len(Statements)
  BY <1>6, <2>1, <2>2, <2>3 DEF WipeStep, Statements
<2>4. CASE ~(wiping < Len(Statements))
  BY <1>6, <2>1, <2>2, <2>4, AgeTypes, BoundAssumption DEF WipeStep, Restarted, Statements, Pages
<2> QED
  BY <2>3, <2>4
<1>7. ASSUME Boot PROVE Data'
  BY <1>7, StillNeedsType DEF Boot, OpenTimed, StillLocked, Statements, Pages
<1>8. ASSUME HandlePass PROVE Data'
  BY <1>8, AnswersTail DEF HandlePass, Pages
<1>9. ASSUME HandleFail PROVE Data'
<2>1. Head(answers) \in 0..MaxErrors /\ answers' = <<>>
  BY <1>9, AnswersTail DEF HandleFail
<2>2. [info EXCEPT !.errors = Head(answers)] \in Record
      /\ [info EXCEPT !.errors = Head(answers)].errors = Head(answers)
  BY <2>1, ErrorsType, Times
<2>3. remaining' \in Ages /\ page' \in Pages
  BY <1>9, <2>2, StillNeedsType DEF HandleFail, OpenTimed, Pages
<2>4. jobs' \in Seq(Message) /\ Len(jobs') <= JobQueue
  BY <1>9, JobsPosted, AgeTypes DEF HandleFail
<2>5. races' \subseteq Races
  BY <1>9 DEF HandleFail, Mark, Races
<2> QED
  BY <1>9, <2>1, <2>3, <2>4, <2>5 DEF HandleFail
<1>10. ASSUME NEW p \in {"right", "wrong"}, EnterPassword(p) PROVE Data'
  BY <1>10, JobsPosted, AgeTypes DEF EnterPassword, Mark, Races
<1>11. ASSUME HandleFinger PROVE Data'
<2>1. info' \in Record
<3>1. 0 \in 0..(MaxErrors + 1)
  BY Times
<3> QED
  BY <1>11, <3>1, ErrorsType DEF HandleFinger
<2> QED
  BY <1>11, <2>1 DEF HandleFinger, Mark, Races, Pages
<1>12. ASSUME OpenForget PROVE Data'
  BY <1>12 DEF OpenForget, Pages
<1>13. ASSUME LeaveForget PROVE Data'
  BY <1>13, JobsPosted, AgeTypes DEF LeaveForget, EndTimed, Pages
<1>14. ASSUME ResetSuccess PROVE Data'
  BY <1>14, JobsPosted, AgeTypes DEF ResetSuccess, Races, Pages
<1>15. ASSUME ConfirmWipe PROVE Data'
  BY <1>15, JobsPosted, AgeTypes DEF ConfirmWipe, Pages
<1>16. ASSUME LockScreen PROVE Data'
  BY <1>16 DEF LockScreen, Pages
<1>17. ASSUME LockTimeOver PROVE Data'
  BY <1>17, JobsPosted, AgeTypes DEF LockTimeOver, EndTimed, Pages
<1>18. ASSUME FinalOver PROVE Data'
  BY <1>18, JobsPosted, AgeTypes DEF FinalOver, Pages
<1>19. ASSUME Tick PROVE Data'
<2>1. info' \in Record /\ se' \in Record
<3>1. Older(info.since) \in Ages /\ Older(se.since) \in Ages
  BY AgeTypes DEF Record
<3> QED
  BY <1>19, <3>1, SinceType DEF Tick
<2>2. jobs' \in Seq(Message) /\ Len(jobs') <= JobQueue
<3>1. \A i \in 1..Len(jobs) : jobs'[i] \in Message
<4> SUFFICES ASSUME NEW i \in 1..Len(jobs) PROVE jobs'[i] \in Message
  OBVIOUS
<4>1. jobs[i] \in Message
  BY ElementOfSeq
<4>2. Older(jobs[i].since) \in Ages
  BY <4>1, AgeTypes DEF Message
<4>3. jobs'[i] = [jobs[i] EXCEPT !.since = Older(jobs[i].since)]
<5>1. i \in DOMAIN jobs
  BY LenProperties
<5> QED
  BY <1>19, <5>1 DEF Tick
<4> QED
  BY <4>1, <4>2, <4>3 DEF Message
<3>2. Len(jobs) \in Nat /\ jobs' = [i \in 1..Len(jobs) |-> jobs'[i]]
  BY <1>19 DEF Tick
<3>3. jobs' \in [1..Len(jobs) -> Message]
  BY <3>1, <3>2
<3> QED
  BY <3>2, <3>3
<2>3. remaining' \in Ages /\ waited' \in Ages
  BY <1>19, AgeTypes, Times DEF Tick, Ages
<2> QED
  BY <1>19, <2>1, <2>2, <2>3 DEF Tick
<1>20. ASSUME Crash PROVE Data'
  BY <1>20, AgeTypes, BoundAssumption DEF Crash, Restarted, Statements, Pages, Mark, Races
<1>21. CASE UNCHANGED vars
  BY <1>21 DEF vars
<1> QED
  BY <1>1, <1>2, <1>3, <1>4, <1>5, <1>6, <1>7, <1>8, <1>9, <1>10, <1>11, <1>12, <1>13, <1>14, <1>15, <1>16, <1>17, <1>18, <1>19, <1>20, <1>21
     DEF Next, Background, Handle, Countdown, User

LEMMA TypeStep == TypeOK /\ Order /\ [Next]_vars => TypeOK'
<1> SUFFICES ASSUME TypeOK, Order, [Next]_vars PROVE TypeOK'
  OBVIOUS
<1>1. Booleans' /\ Data'
  BY TypeSplit, BooleansStep, DataStep
<1> QED
  BY <1>1, Zenon DEF TypeOK, Booleans, Data, Record, Message

-----------------------------------------------------------------------------
(* The order of the tasks *)

LEMMA OrderInit == Init => Order
  BY Times DEF Init, Order, Verified, Fresh

(* The clock and the stamps leave the counts alone. *)
LEMMA ErrorsKept ==
    ASSUME NEW r \in Record, NEW a PROVE [r EXCEPT !.since = a].errors = r.errors
  BY DEF Record


LEMMA OrderStep == Data /\ Order /\ [Next]_vars => Order'
<1> SUFFICES ASSUME Data, Order, [Next]_vars PROVE Order'
  OBVIOUS
<1> USE DEF Data, Order, Verified
<1>1. ASSUME Verify PROVE Order'
<2>1. jobs # <<>> /\ page # "off" /\ answers = <<>>
  BY <1>1 DEF Verify, IsNext
<2>2. password = "right" => info'.errors = 0
  BY <1>1 DEF Verify, Record
<2> QED
  BY <1>1, <2>1, <2>2 DEF Verify, IsNext
<1>2. ASSUME Persist PROVE Order'
  BY <1>2 DEF Persist, Written
<1>3. ASSUME Answer PROVE Order'
  BY <1>3, Times DEF Answer
<1>4. ASSUME SetLastLockDeviceTime PROVE Order'
<2>1. info'.errors = info.errors
  BY <1>4, ErrorsKept DEF SetLastLockDeviceTime
<2> QED
  BY <1>4, <2>1 DEF SetLastLockDeviceTime, IsNext
<1>5. ASSUME StartWipe PROVE Order'
  BY <1>5 DEF StartWipe, IsNext
<1>6. ASSUME WipeStep PROVE Order'
<2>1. job # "none" \/ page = "off"
  BY <1>6 DEF WipeStep
<2>2. \/ job' = job /\ page' = page /\ jobs' = jobs /\ answers' = answers
      \/ page' = "off" /\ job' = "none" /\ jobs' = <<>> /\ answers' = <<>> /\ wiping' = 0
  BY <1>6 DEF WipeStep, Restarted
<2> QED
  BY <1>6, <2>1, <2>2 DEF WipeStep
<1>7. ASSUME Boot PROVE Order'
  BY <1>7, Times DEF Boot, NeedsReset, OpenTimed, Record
<1>8. ASSUME HandlePass PROVE Order'
  BY <1>8, AnswersTail DEF HandlePass
<1>9. ASSUME HandleFail PROVE Order'
  BY <1>9, AnswersTail DEF HandleFail, OpenTimed
<1>10. ASSUME NEW p \in {"right", "wrong"}, EnterPassword(p) PROVE Order'
  BY <1>10 DEF EnterPassword
<1>11. ASSUME HandleFinger PROVE Order'
<2>1. info'.errors = 0 /\ se'.errors = 0
  BY <1>11 DEF HandleFinger, Record
<2> QED
  BY <1>11, <2>1, Times DEF HandleFinger
<1>12. ASSUME OpenForget PROVE Order'
  BY <1>12 DEF OpenForget
<1>13. ASSUME LeaveForget PROVE Order'
  BY <1>13 DEF LeaveForget, EndTimed
<1>14. ASSUME ResetSuccess PROVE Order'
  BY <1>14 DEF ResetSuccess
<1>15. ASSUME ConfirmWipe PROVE Order'
  BY <1>15 DEF ConfirmWipe
<1>16. ASSUME LockScreen PROVE Order'
  BY <1>16 DEF LockScreen
<1>17. ASSUME LockTimeOver PROVE Order'
  BY <1>17 DEF LockTimeOver, EndTimed
<1>18. ASSUME FinalOver PROVE Order'
  BY <1>18 DEF FinalOver
<1>19. ASSUME Tick PROVE Order'
<2>1. info'.errors = info.errors /\ se'.errors = se.errors
  BY <1>19, ErrorsKept DEF Tick
<2>2. jobs = <<>> => jobs' = <<>>
  BY <1>19 DEF Tick
<2> QED
  BY <1>19, <2>1, <2>2 DEF Tick
<1>20. ASSUME Crash PROVE Order'
  BY <1>20 DEF Crash, Restarted
<1>21. CASE UNCHANGED vars
  BY <1>21 DEF vars
<1> QED
  BY <1>1, <1>2, <1>3, <1>4, <1>5, <1>6, <1>7, <1>8, <1>9, <1>10, <1>11, <1>12, <1>13, <1>14, <1>15, <1>16, <1>17, <1>18, <1>19, <1>20, <1>21
     DEF Next, Background, Handle, Countdown, User

LEMMA TypeInductive == Spec => [](TypeOK /\ Order)
<1>1. Init => TypeOK /\ Order
  BY InitType, OrderInit
<1>2. TypeOK /\ Order /\ [Next]_vars => (TypeOK /\ Order)'
  BY TypeStep, OrderStep, TypeSplit
<1> QED
  BY <1>1, <1>2, PTL DEF Spec

(* The records, queues and pages keep their types: the count of wrong       *)
(* passwords never passes one more than the limit, and no queue overflows.  *)
THEOREM TypesOfLockDevice == Spec => []TypeOK
<1>1. TypeOK /\ Order => TypeOK
  OBVIOUS
<1> QED
  BY <1>1, TypeInductive, PTL

-----------------------------------------------------------------------------
(* The count is in the secure element before the answer is given.           *)

LEMMA AppendIsNew ==
    ASSUME NEW T, NEW q \in Seq(T), NEW n \in T, NEW m \in T
    PROVE /\ Append(q, n) # q /\ Append(q, n) # <<>>
          /\ q # <<>> => Append(q, n) # Tail(q)
          /\ Append(q, n) = Append(q, m) => n = m
<1>1. Len(Append(q, n)) = Len(q) + 1 /\ Len(q) \in Nat /\ Len(<<>>) = 0
  OBVIOUS
<1>2. q # <<>> => Len(Tail(q)) = Len(q) - 1
  BY HeadTailProperties
<1>3. Append(q, n)[Len(q) + 1] = n /\ Append(q, m)[Len(q) + 1] = m
  OBVIOUS
<1> QED
  BY <1>1, <1>2, <1>3

(* Only Answer adds an answer. *)
Kept ==
    \/ answers' = answers \/ answers' = <<>>
    \/ answers # <<>> /\ answers' = Tail(answers)

LEMMA OthersKeep == ~Answer /\ [Next]_vars => Kept
<1> SUFFICES ASSUME ~Answer, [Next]_vars PROVE Kept
  OBVIOUS
<1> USE DEF Kept
<1>1. ASSUME Verify PROVE Kept
  BY <1>1 DEF Verify
<1>2. ASSUME Persist PROVE Kept
  BY <1>2 DEF Persist
<1>3. ASSUME Answer PROVE Kept
  BY <1>3
<1>4. ASSUME SetLastLockDeviceTime PROVE Kept
  BY <1>4 DEF SetLastLockDeviceTime
<1>5. ASSUME StartWipe PROVE Kept
  BY <1>5 DEF StartWipe
<1>6. ASSUME WipeStep PROVE Kept
  BY <1>6 DEF WipeStep, Restarted
<1>7. ASSUME Boot PROVE Kept
  BY <1>7 DEF Boot
<1>8. ASSUME HandlePass PROVE Kept
  BY <1>8 DEF HandlePass
<1>9. ASSUME HandleFail PROVE Kept
  BY <1>9 DEF HandleFail
<1>10. ASSUME NEW p \in {"right", "wrong"}, EnterPassword(p) PROVE Kept
  BY <1>10 DEF EnterPassword
<1>11. ASSUME HandleFinger PROVE Kept
  BY <1>11 DEF HandleFinger
<1>12. ASSUME OpenForget PROVE Kept
  BY <1>12 DEF OpenForget
<1>13. ASSUME LeaveForget PROVE Kept
  BY <1>13 DEF LeaveForget
<1>14. ASSUME ResetSuccess PROVE Kept
  BY <1>14 DEF ResetSuccess
<1>15. ASSUME ConfirmWipe PROVE Kept
  BY <1>15 DEF ConfirmWipe
<1>16. ASSUME LockScreen PROVE Kept
  BY <1>16 DEF LockScreen
<1>17. ASSUME LockTimeOver PROVE Kept
  BY <1>17 DEF LockTimeOver
<1>18. ASSUME FinalOver PROVE Kept
  BY <1>18 DEF FinalOver
<1>19. ASSUME Tick PROVE Kept
  BY <1>19 DEF Tick
<1>20. ASSUME Crash PROVE Kept
  BY <1>20 DEF Crash, Restarted
<1>21. CASE UNCHANGED vars
  BY <1>21 DEF vars
<1> QED
  BY <1>1, <1>2, <1>3, <1>4, <1>5, <1>6, <1>7, <1>8, <1>9, <1>10, <1>11, <1>12, <1>13, <1>14, <1>15, <1>16, <1>17, <1>18, <1>19, <1>20, <1>21
     DEF Next, Background, Handle, Countdown, User

(* CountDurable: VerifyPasswordAndLogin writes the count before its job is  *)
(* answered, and nothing changes either of them in between.                 *)
THEOREM CountWrittenFirst == Spec => CountDurable
<1>1. ASSUME TypeOK, Order, [Next]_vars, NEW n \in 0..MaxErrors, answers' = Append(answers, n)
      PROVE se.errors = n
<2>1. Data /\ answers \in Seq(-1..MaxErrors) /\ n \in -1..MaxErrors
  BY <1>1, TypeSplit, Times DEF Data
<2>2. ~Kept
  BY <1>1, <2>1, AppendIsNew DEF Kept
<2>3. Answer
  BY <1>1, <2>2, OthersKeep
<2>4. -1 \in -1..MaxErrors /\ -1 # n
  BY Times
<2>5. answers' # Append(answers, -1)
  BY <1>1, <2>1, <2>4, AppendIsNew
<2>6. job = "failure" /\ info.errors <= MaxErrors /\ answers' = Append(answers, info.errors)
  BY <2>2, <2>3, <2>5 DEF Answer, Kept
<2>7. info.errors \in -1..MaxErrors
  BY <2>1, <2>6, Times DEF Data, Record
<2>8. info.errors = n
<3>1. Append(answers, n) = Append(answers, info.errors)
  BY <1>1, <2>6
<3> QED
  BY <3>1, <2>1, <2>7, AppendIsNew
<2> QED
  BY <1>1, <2>6, <2>8 DEF Order
<1>2. TypeOK /\ Order /\ [Next]_vars =>
        [\A n \in 0..MaxErrors : answers' = Append(answers, n) => se.errors = n]_vars
  BY <1>1
<1> QED
  BY <1>2, TypeInductive, PTL DEF Spec, CountDurable

-----------------------------------------------------------------------------
(* A wipe with the flag is finished.                                        *)

LEMMA WipeInit == Init => WipeInv
  BY DEF Init, WipeInv

LEMMA WipeStepInv == Booleans /\ Data /\ Order /\ WipeInv /\ [Next]_vars => WipeInv'
<1> SUFFICES ASSUME Booleans, Data, Order, WipeInv, [Next]_vars PROVE WipeInv'
  OBVIOUS
<1> USE DEF WipeInv
<1>1. ASSUME Verify PROVE WipeInv'
  BY <1>1 DEF Verify, IsNext, Order
<1>2. ASSUME Persist PROVE WipeInv'
  BY <1>2 DEF Persist, Order
<1>3. ASSUME Answer PROVE WipeInv'
  BY <1>3 DEF Answer, Order
<1>4. ASSUME SetLastLockDeviceTime PROVE WipeInv'
  BY <1>4 DEF SetLastLockDeviceTime, IsNext, Order
<1>5. ASSUME StartWipe PROVE WipeInv'
  BY <1>5 DEF StartWipe, IsNext, Order
<1>6. ASSUME WipeStep PROVE WipeInv'
<2> SUFFICES ASSUME begun' = "flag", data' # {} PROVE WipeInv'
  OBVIOUS
<2>1. data # {} /\ wiping \in 1..Len(Statements) /\ Len(Statements) = 8
  BY <1>6 DEF WipeStep, Data, Statements
<2>0. flag' = (Statements[wiping] = "setFlag" \/ (flag /\ Statements[wiping] # "clearFlag"))
  BY <1>6, Zenon DEF WipeStep
<2>2. CASE wiping = 1
<3>1. wiping' = 2
  BY <1>6, <2>1, <2>2 DEF WipeStep
<3>2. Statements[wiping] = "setFlag"
  BY <2>2 DEF Statements
<3>3. flag'
  BY <2>0, <3>2, Zenon
<3> QED
  BY <3>1, <3>3
<2>3. CASE wiping # 1
<3>1. begun = "flag"
  BY <1>6, <2>1, <2>3 DEF WipeStep, Statements
<3>2. flag /\ \A i \in 2..wiping - 1 : Statements[i] \notin data
  BY <3>1, <2>1
<3>3. \A i \in 2..wiping : Statements[i] \notin data'
  BY <1>6, <3>2, <2>1 DEF WipeStep
<3>4. wiping # 8
<4> SUFFICES ASSUME wiping = 8 PROVE data' = {}
  OBVIOUS
<4> QED
  BY <1>6, <3>3 DEF WipeStep, Statements, Data, Everything
<3>5. wiping' = wiping + 1
  BY <1>6, <2>1, <3>4 DEF WipeStep
<3>6. flag'
<4>1. Statements[wiping] # "clearFlag"
  BY <2>1, <3>4 DEF Statements
<4> QED
  BY <2>0, <3>2, <4>1, Zenon
<3> QED
  BY <2>1, <2>3, <3>3, <3>5, <3>6
<2> QED
  BY <2>2, <2>3
<1>7. ASSUME Boot PROVE WipeInv'
  BY <1>7 DEF Boot, NeedsReset
<1>8. ASSUME HandlePass PROVE WipeInv'
  BY <1>8 DEF HandlePass, Order
<1>9. ASSUME HandleFail PROVE WipeInv'
  BY <1>9 DEF HandleFail, OpenTimed, Order
<1>10. ASSUME NEW p \in {"right", "wrong"}, EnterPassword(p) PROVE WipeInv'
  BY <1>10 DEF EnterPassword, Order
<1>11. ASSUME HandleFinger PROVE WipeInv'
  BY <1>11 DEF HandleFinger, Order
<1>12. ASSUME OpenForget PROVE WipeInv'
  BY <1>12 DEF OpenForget, Order
<1>13. ASSUME LeaveForget PROVE WipeInv'
  BY <1>13 DEF LeaveForget, EndTimed, Order
<1>14. ASSUME ResetSuccess PROVE WipeInv'
  BY <1>14 DEF ResetSuccess, Order
<1>15. ASSUME ConfirmWipe PROVE WipeInv'
  BY <1>15 DEF ConfirmWipe, Order
<1>16. ASSUME LockScreen PROVE WipeInv'
  BY <1>16 DEF LockScreen, Order
<1>17. ASSUME LockTimeOver PROVE WipeInv'
  BY <1>17 DEF LockTimeOver, EndTimed, Order
<1>18. ASSUME FinalOver PROVE WipeInv'
  BY <1>18 DEF FinalOver, Order
<1>19. ASSUME Tick PROVE WipeInv'
  BY <1>19 DEF Tick, Order
<1>20. ASSUME Crash PROVE WipeInv'
  BY <1>20 DEF Crash, Restarted
<1>21. CASE UNCHANGED vars
  BY <1>21 DEF vars
<1> QED
  BY <1>1, <1>2, <1>3, <1>4, <1>5, <1>6, <1>7, <1>8, <1>9, <1>10, <1>11, <1>12, <1>13, <1>14, <1>15, <1>16, <1>17, <1>18, <1>19, <1>20, <1>21
     DEF Next, Background, Handle, Countdown, User

(* WipeResumes: from the first statement of WipeDevice to the last the flag  *)
(* is in the flash, and what comes before the statement a boot goes on with *)
(* is erased.                                                               *)
THEOREM WipeAlwaysResumes == Spec => []WipeResumes
<1>1. Init => TypeOK /\ Order /\ WipeInv
  BY InitType, OrderInit, WipeInit
<1>2. TypeOK /\ Order /\ WipeInv /\ [Next]_vars => (TypeOK /\ Order /\ WipeInv)'
  BY TypeStep, OrderStep, WipeStepInv, TypeSplit
<1>3. TypeOK /\ Order /\ WipeInv => WipeResumes
  BY DEF WipeInv, WipeResumes
<1> QED
  BY <1>1, <1>2, <1>3, PTL DEF Spec

-----------------------------------------------------------------------------
(* The last attempt                                                         *)

HasVerify == \E i \in DOMAIN jobs : jobs[i].kind = "verify"

Verifying == HasVerify \/ job \in Verified \/ answers # <<>>

(* One verification at a time, and only on a lock page without a countdown. *)
OneAtATime ==
    /\ Verifying => page = "lock" /\ ~timer
    /\ HasVerify => Len(jobs) = 1 /\ job = "none" /\ answers = <<>>
    /\ job \in Verified => jobs = <<>>
    /\ answers # <<>> => jobs = <<>> /\ job = "none"

(* The timer runs as long as the view of the lock is open. *)
TimerRuns ==
    /\ page \in {"lock", "timed", "home"} => (active <=> timer)
    /\ page = "timed" => active
    /\ page = "home" => ~active
    /\ page = "off" => ~active /\ ~timer
    /\ page = "forget" => (timer => active) /\ (active /\ remaining # 0 => timer)

(* A page on which a password may follow is open only below the limit, and  *)
(* a verification goes at most one above what was below it.                 *)
BelowLimit ==
    /\ job # "asserted"
    /\ page \in {"lock", "home", "forget", "timed"} /\ (Verifying => HasVerify) =>
           info.errors = se.errors /\ se.errors < MaxErrors
    /\ job \in {"accepted", "rejected"} => info.errors <= MaxErrors
    /\ job \in {"success", "failure"} => info.errors = se.errors /\ info.errors <= MaxErrors
    /\ answers # <<>> =>
           /\ info.errors = se.errors /\ info.errors <= MaxErrors
           /\ \/ Head(answers) = -1 /\ info.errors = 0
              \/ Head(answers) = info.errors

AttemptInv == "overlap" \notin races => OneAtATime /\ TimerRuns /\ BelowLimit

LEMMA AttemptInit == Init => AttemptInv
  BY Times DEF Init, AttemptInv, OneAtATime, TimerRuns, BelowLimit, HasVerify, Verifying, Verified, Fresh

LEMMA TimerStep == Booleans /\ Data /\ OneAtATime /\ TimerRuns /\ "overlap" \notin races' /\ [Next]_vars => TimerRuns'
<1> SUFFICES ASSUME Booleans, Data, OneAtATime, TimerRuns, "overlap" \notin races', [Next]_vars PROVE TimerRuns'
  OBVIOUS
<1> USE DEF TimerRuns, Booleans, Pages
<1>1. ASSUME Verify PROVE TimerRuns'
  BY <1>1, Zenon DEF Verify
<1>2. ASSUME Persist PROVE TimerRuns'
  BY <1>2, Zenon DEF Persist
<1>3. ASSUME Answer PROVE TimerRuns'
  BY <1>3, Zenon DEF Answer
<1>4. ASSUME SetLastLockDeviceTime PROVE TimerRuns'
  BY <1>4, Zenon DEF SetLastLockDeviceTime
<1>5. ASSUME StartWipe PROVE TimerRuns'
  BY <1>5, Zenon DEF StartWipe
<1>6. ASSUME WipeStep PROVE TimerRuns'
  BY <1>6, Zenon DEF WipeStep, Restarted
<1>7. ASSUME Boot PROVE TimerRuns'
  BY <1>7, Zenon DEF Boot, OpenTimed
<1>8. ASSUME HandlePass PROVE TimerRuns'
  BY <1>8, Zenon DEF HandlePass, OneAtATime, Verifying
<1>9. ASSUME HandleFail PROVE TimerRuns'
<2>1. page = "lock" /\ ~timer /\ ~active
  BY <1>9, Zenon DEF HandleFail, OneAtATime, Verifying
<2>2. CASE page' = IF active THEN "astray" ELSE "timed"
<3>1. page' = "timed" /\ active' /\ timer'
  BY <1>9, <2>1, <2>2 DEF HandleFail, OpenTimed
<3> QED
  BY <3>1, Zenon
<2>3. CASE page' = "final"
  BY <2>3, Zenon
<2>4. CASE UNCHANGED <<page, active, timer>>
  BY <2>1, <2>4, Zenon
<2> QED
  BY <1>9, <2>2, <2>3, <2>4, Zenon DEF HandleFail, OpenTimed
<1>10. ASSUME NEW p \in {"right", "wrong"}, EnterPassword(p) PROVE TimerRuns'
  BY <1>10, Zenon DEF EnterPassword
<1>11. ASSUME HandleFinger PROVE TimerRuns'
  BY <1>11, Zenon DEF HandleFinger
<1>12. ASSUME OpenForget PROVE TimerRuns'
  BY <1>12, Zenon DEF OpenForget
<1>13. ASSUME LeaveForget PROVE TimerRuns'
<2>1. CASE active /\ Refreshed /\ EndTimed
  BY <1>13, <2>1, Zenon DEF LeaveForget, EndTimed
<2>2. CASE active /\ ~Refreshed /\ page' = "timed" /\ UNCHANGED <<active, timer, jobs>>
<3>1. timer
  BY <1>13, <2>2, Zenon DEF LeaveForget, Refreshed
<3> QED
  BY <1>13, <2>2, <3>1, Zenon DEF LeaveForget
<2>3. CASE ~active /\ page' = "lock" /\ UNCHANGED <<active, timer, jobs>>
<3>1. ~timer
  BY <1>13, <2>3, Zenon DEF LeaveForget
<3> QED
  BY <1>13, <2>3, <3>1, Zenon DEF LeaveForget
<2> QED
  BY <1>13, <2>1, <2>2, <2>3, Zenon DEF LeaveForget
<1>14. ASSUME ResetSuccess PROVE TimerRuns'
  BY <1>14, Zenon DEF ResetSuccess, Refreshed
<1>15. ASSUME ConfirmWipe PROVE TimerRuns'
  BY <1>15, Zenon DEF ConfirmWipe
<1>16. ASSUME LockScreen PROVE TimerRuns'
  BY <1>16, Zenon DEF LockScreen
<1>17. ASSUME LockTimeOver PROVE TimerRuns'
  BY <1>17, Zenon DEF LockTimeOver, EndTimed
<1>18. ASSUME FinalOver PROVE TimerRuns'
  BY <1>18, Zenon DEF FinalOver
<1>19. ASSUME Tick PROVE TimerRuns'
  BY <1>19 DEF Tick, Data, Ages
<1>20. ASSUME Crash PROVE TimerRuns'
  BY <1>20, Zenon DEF Crash, Restarted
<1>21. CASE UNCHANGED vars
  BY <1>21 DEF vars
<1> QED
  BY <1>1, <1>2, <1>3, <1>4, <1>5, <1>6, <1>7, <1>8, <1>9, <1>10, <1>11, <1>12, <1>13, <1>14, <1>15, <1>16, <1>17, <1>18, <1>19, <1>20, <1>21
     DEF Next, Background, Handle, Countdown, User

LEMMA PostedOther ==
    ASSUME jobs \in Seq(Message), NEW m, m.kind # "verify", Post(m), ~HasVerify
    PROVE ~HasVerify'
<1>1. CASE jobs' = jobs
  BY <1>1 DEF HasVerify
<1>2. CASE jobs' = Append(jobs, m)
<2>1. DOMAIN jobs' = 1..Len(jobs) + 1 /\ DOMAIN jobs = 1..Len(jobs) /\ Len(jobs) \in Nat
  BY <1>2
<2>2. \A i \in DOMAIN jobs' : jobs'[i].kind # "verify"
  BY <1>2, <2>1 DEF HasVerify
<2> QED
  BY <2>2 DEF HasVerify
<1> QED
  BY <1>1, <1>2 DEF Post

LEMMA OtherKinds ==
    /\ \A a : WriteTime(a).kind # "verify"
    /\ Wipe.kind # "verify"
  BY DEF WriteTime, Wipe

LEMMA TickKeeps ==
    ASSUME Data, Tick
    PROVE /\ Len(jobs') = Len(jobs) /\ (jobs = <<>> => jobs' = <<>>)
          /\ HasVerify' <=> HasVerify
<1>1. Len(jobs') = Len(jobs) /\ DOMAIN jobs' = DOMAIN jobs /\ (jobs = <<>> => jobs' = <<>>)
  BY DEF Tick, Data
<1>2. ASSUME NEW i \in DOMAIN jobs PROVE jobs'[i].kind = jobs[i].kind
<2>1. jobs[i] \in Message
  BY ElementOfSeq, LenProperties DEF Data
<2>2. jobs'[i] = [jobs[i] EXCEPT !.since = Older(jobs[i].since)]
  BY DEF Tick
<2> QED
  BY <2>1, <2>2 DEF Message
<1> QED
  BY <1>1, <1>2 DEF HasVerify

LEMMA OneAtATimeStep == Booleans /\ Data /\ Order /\ OneAtATime /\ TimerRuns /\ "overlap" \notin races' /\ [Next]_vars => OneAtATime'
<1> SUFFICES ASSUME Booleans, Data, Order, OneAtATime, TimerRuns, "overlap" \notin races', [Next]_vars PROVE OneAtATime'
  OBVIOUS
<1> USE DEF OneAtATime, HasVerify, Verifying, Verified, Data
<1>1. ASSUME Verify PROVE OneAtATime'
  BY <1>1, JobsTail DEF Verify, IsNext
<1>2. ASSUME Persist PROVE OneAtATime'
  BY <1>2 DEF Persist
<1>3. ASSUME Answer PROVE OneAtATime'
  BY <1>3 DEF Answer
<1>4. ASSUME SetLastLockDeviceTime PROVE OneAtATime'
  BY <1>4, JobsTail DEF SetLastLockDeviceTime, IsNext
<1>5. ASSUME StartWipe PROVE OneAtATime'
  BY <1>5, JobsTail DEF StartWipe, IsNext
<1>6. ASSUME WipeStep PROVE OneAtATime'
  BY <1>6 DEF WipeStep, Restarted, Order
<1>7. ASSUME Boot PROVE OneAtATime'
  BY <1>7 DEF Boot, Order
<1>8. ASSUME HandlePass PROVE OneAtATime'
  BY <1>8, AnswersTail DEF HandlePass
<1>9. ASSUME HandleFail PROVE OneAtATime'
  BY <1>9, AnswersTail DEF HandleFail, OpenTimed, Post, WriteTime
<1>10. ASSUME NEW p \in {"right", "wrong"}, EnterPassword(p) PROVE OneAtATime'
  BY <1>10, BoundAssumption DEF EnterPassword, Mark, Quiet, Post, Verification
<1>11. ASSUME HandleFinger PROVE OneAtATime'
  BY <1>11 DEF HandleFinger, Mark, Quiet
<1>12. ASSUME OpenForget PROVE OneAtATime'
  BY <1>12 DEF OpenForget, Quiet
<1>13. ASSUME LeaveForget PROVE OneAtATime'
<2>1. ~Verifying
  BY <1>13 DEF LeaveForget
<2>2. ~HasVerify'
  BY <1>13, <2>1, PostedOther, OtherKinds DEF LeaveForget, EndTimed
<2> QED
  BY <1>13, <2>1, <2>2 DEF LeaveForget
<1>14. ASSUME ResetSuccess PROVE OneAtATime'
  BY <1>14 DEF ResetSuccess, Post, WriteTime
<1>15. ASSUME ConfirmWipe PROVE OneAtATime'
  BY <1>15 DEF ConfirmWipe, Post, Wipe
<1>16. ASSUME LockScreen PROVE OneAtATime'
  BY <1>16 DEF LockScreen
<1>17. ASSUME LockTimeOver PROVE OneAtATime'
<2>1. ~Verifying
  BY <1>17 DEF LockTimeOver
<2>2. ~HasVerify'
  BY <1>17, <2>1, PostedOther, OtherKinds DEF LockTimeOver, EndTimed
<2> QED
  BY <1>17, <2>1, <2>2 DEF LockTimeOver, EndTimed
<1>18. ASSUME FinalOver PROVE OneAtATime'
<2>1. ~Verifying
  BY <1>18 DEF FinalOver
<2>2. ~HasVerify'
  BY <1>18, <2>1, PostedOther, OtherKinds DEF FinalOver
<2> QED
  BY <1>18, <2>1, <2>2 DEF FinalOver
<1>19. ASSUME Tick PROVE OneAtATime'
  BY <1>19, TickKeeps DEF Tick
<1>20. ASSUME Crash PROVE OneAtATime'
  BY <1>20 DEF Crash, Restarted
<1>21. CASE UNCHANGED vars
  BY <1>21 DEF vars
<1> QED
  BY <1>1, <1>2, <1>3, <1>4, <1>5, <1>6, <1>7, <1>8, <1>9, <1>10, <1>11, <1>12, <1>13, <1>14, <1>15, <1>16, <1>17, <1>18, <1>19, <1>20, <1>21
     DEF Next, Background, Handle, Countdown, User

LEMMA BelowLimitStep == Booleans /\ Data /\ Order /\ OneAtATime /\ OneAtATime' /\ TimerRuns /\ BelowLimit /\ "overlap" \notin races' /\ [Next]_vars => BelowLimit'
<1> SUFFICES ASSUME Booleans, Data, Order, OneAtATime, OneAtATime', TimerRuns, BelowLimit, "overlap" \notin races', [Next]_vars PROVE BelowLimit'
  OBVIOUS
<1> USE DEF BelowLimit, Verifying, Verified
<1>1. ASSUME Verify PROVE BelowLimit'
<2>1. HasVerify
  BY <1>1 DEF Verify, IsNext, HasVerify, Data
<2>2. info.errors < MaxErrors /\ info.errors \in Nat /\ page = "lock"
  BY <2>1 DEF OneAtATime, Data, Record
<2>3. info'.errors <= MaxErrors
  BY <1>1, <2>2, Times DEF Verify, Data, Record
<2>4. ~HasVerify'
  BY <1>1 DEF Verify, OneAtATime
<2> QED
  BY <1>1, <2>3, <2>4 DEF Verify, IsNext
<1>2. ASSUME Persist PROVE BelowLimit'
  BY <1>2 DEF Persist, Written, OneAtATime, HasVerify
<1>3. ASSUME Answer PROVE BelowLimit'
<2>1. answers = <<>> /\ jobs = <<>> /\ info.errors = se.errors /\ info.errors <= MaxErrors
  BY <1>3 DEF Answer, OneAtATime, Order
<2>2. job = "success" => info.errors = 0
  BY DEF Order
<2>3. ~HasVerify'
  BY <1>3, <2>1 DEF Answer, HasVerify
<2>4. ~(info.errors > MaxErrors)
  BY <2>1, Times DEF Data, Record
<2>5. job' = "none"
  BY <1>3, <2>4 DEF Answer
<2>6. \/ answers' = Append(answers, -1) /\ job = "success"
      \/ answers' = Append(answers, info.errors)
  BY <1>3, <2>4 DEF Answer
<2>7. Head(Append(<<>>, -1)) = -1 /\ Head(Append(<<>>, info.errors)) = info.errors
  BY <2>1 DEF Data, Record
<2>8. /\ info' = info /\ se' = se
      /\ \/ Head(answers') = -1 /\ info.errors = 0
         \/ Head(answers') = info.errors
  BY <1>3, <2>1, <2>2, <2>6, <2>7 DEF Answer
<2>9. answers' # <<>>
  BY <2>1, <2>6
<2> QED
  BY <2>1, <2>3, <2>5, <2>8, <2>9
<1>4. ASSUME SetLastLockDeviceTime PROVE BelowLimit'
<2>1. info'.errors = info.errors /\ se'.errors = info.errors
  BY <1>4, ErrorsKept DEF SetLastLockDeviceTime, Data
<2>2. ~HasVerify /\ ~Verifying
  BY <1>4 DEF SetLastLockDeviceTime, IsNext, OneAtATime, HasVerify, Data
<2> QED
  BY <1>4, <2>1, <2>2 DEF SetLastLockDeviceTime, IsNext
<1>5. ASSUME StartWipe PROVE BelowLimit'
<2>2. ~HasVerify /\ ~Verifying
  BY <1>5 DEF StartWipe, IsNext, OneAtATime, HasVerify, Data
<2> QED
  BY <1>5, <2>2 DEF StartWipe, IsNext
<1>6. ASSUME WipeStep PROVE BelowLimit'
<2>1. \/ info' = info /\ se' = se
      \/ info'.errors = 0 /\ se'.errors = 0
  BY <1>6 DEF WipeStep, Fresh
<2>2. \/ page' = "off" /\ job' = "none" /\ answers' = <<>>
      \/ UNCHANGED <<page, job, jobs, answers>>
  BY <1>6 DEF WipeStep, Restarted
<2>3. HasVerify => HasVerify' \/ page' = "off"
  BY <1>6, <2>2 DEF HasVerify
<2>4. \/ job \notin Verified /\ answers = <<>> /\ jobs = <<>>
      \/ page # "off"
  BY <1>6 DEF Order
<2> QED
  BY <1>6, <2>1, <2>2, <2>3, <2>4, Times DEF Order, WipeStep, OneAtATime
<1>7. ASSUME Boot PROVE BelowLimit'
  BY <1>7, Times DEF Boot, OpenTimed, NeedsReset, Order, Data, Record, HasVerify
<1>8. ASSUME HandlePass PROVE BelowLimit'
  BY <1>8, AnswersTail, Times DEF HandlePass, OneAtATime, HasVerify, Data, Record
<1>9. ASSUME HandleFail PROVE BelowLimit'
  BY <1>9, AnswersTail, Times DEF HandleFail, OpenTimed, OneAtATime, TimerRuns, Left, Data, Record
<1>10. ASSUME NEW p \in {"right", "wrong"}, EnterPassword(p) PROVE BelowLimit'
  BY <1>10, BoundAssumption DEF EnterPassword, Mark, Quiet, Post, Verification, OneAtATime, HasVerify
<1>11. ASSUME HandleFinger PROVE BelowLimit'
  BY <1>11, Times DEF HandleFinger, Mark, Quiet, HasVerify, Data, Record
<1>12. ASSUME OpenForget PROVE BelowLimit'
<2>1. ~Verifying
  BY <1>12 DEF OpenForget, OneAtATime, HasVerify, Quiet
<2>2. info.errors = se.errors /\ se.errors < MaxErrors
  BY <1>12, <2>1 DEF OpenForget
<2> QED
  BY <1>12, <2>1, <2>2 DEF OpenForget
<1>13. ASSUME LeaveForget PROVE BelowLimit'
<2>1. ~Verifying
  BY <1>13 DEF LeaveForget, OneAtATime, HasVerify, Quiet, EndTimed
<2>2. info.errors = se.errors /\ se.errors < MaxErrors
  BY <1>13, <2>1 DEF LeaveForget
<2> QED
  BY <1>13, <2>1, <2>2 DEF LeaveForget, EndTimed
<1>14. ASSUME ResetSuccess PROVE BelowLimit'
<2>1. ~Verifying
  BY <1>14 DEF ResetSuccess, OneAtATime, HasVerify, Quiet
<2>2. info.errors = se.errors /\ se.errors < MaxErrors
  BY <1>14, <2>1 DEF ResetSuccess
<2> QED
  BY <1>14, <2>1, <2>2 DEF ResetSuccess
<1>15. ASSUME ConfirmWipe PROVE BelowLimit'
  BY <1>15 DEF ConfirmWipe
<1>16. ASSUME LockScreen PROVE BelowLimit'
<2>1. ~Verifying
  BY <1>16 DEF LockScreen, OneAtATime, HasVerify, Quiet
<2>2. info.errors = se.errors /\ se.errors < MaxErrors
  BY <1>16, <2>1 DEF LockScreen
<2> QED
  BY <1>16, <2>1, <2>2 DEF LockScreen
<1>17. ASSUME LockTimeOver PROVE BelowLimit'
<2>1. ~Verifying
  BY <1>17 DEF LockTimeOver, OneAtATime, HasVerify, Quiet, EndTimed
<2>2. info.errors = se.errors /\ se.errors < MaxErrors
  BY <1>17, <2>1 DEF LockTimeOver
<2> QED
  BY <1>17, <2>1, <2>2 DEF LockTimeOver, EndTimed
<1>18. ASSUME FinalOver PROVE BelowLimit'
  BY <1>18 DEF FinalOver
<1>19. ASSUME Tick PROVE BelowLimit'
<2>1. info'.errors = info.errors /\ se'.errors = se.errors
  BY <1>19, ErrorsKept DEF Tick, Data
<2>2. HasVerify' <=> HasVerify
  BY <1>19, TickKeeps
<2> QED
  BY <1>19, <2>1, <2>2 DEF Tick
<1>20. ASSUME Crash PROVE BelowLimit'
  BY <1>20 DEF Crash, Restarted
<1>21. CASE UNCHANGED vars
  BY <1>21 DEF vars, HasVerify
<1> QED
  BY <1>1, <1>2, <1>3, <1>4, <1>5, <1>6, <1>7, <1>8, <1>9, <1>10, <1>11, <1>12, <1>13, <1>14, <1>15, <1>16, <1>17, <1>18, <1>19, <1>20, <1>21
     DEF Next, Background, Handle, Countdown, User

(* What has happened stays known. *)
LEMMA RacesGrow == [Next]_vars => races \subseteq races'
<1> SUFFICES ASSUME [Next]_vars PROVE races \subseteq races'
  OBVIOUS
<1>1. ASSUME Verify PROVE races \subseteq races'
  BY <1>1 DEF Verify, Mark
<1>2. ASSUME Persist PROVE races \subseteq races'
  BY <1>2 DEF Persist, Mark
<1>3. ASSUME Answer PROVE races \subseteq races'
  BY <1>3 DEF Answer, Mark
<1>4. ASSUME SetLastLockDeviceTime PROVE races \subseteq races'
  BY <1>4 DEF SetLastLockDeviceTime, Mark
<1>5. ASSUME StartWipe PROVE races \subseteq races'
  BY <1>5 DEF StartWipe, Mark
<1>6. ASSUME WipeStep PROVE races \subseteq races'
  BY <1>6 DEF WipeStep, Mark
<1>7. ASSUME Boot PROVE races \subseteq races'
  BY <1>7 DEF Boot, Mark
<1>8. ASSUME HandlePass PROVE races \subseteq races'
  BY <1>8 DEF HandlePass, Mark
<1>9. ASSUME HandleFail PROVE races \subseteq races'
  BY <1>9 DEF HandleFail, Mark
<1>10. ASSUME NEW p \in {"right", "wrong"}, EnterPassword(p) PROVE races \subseteq races'
  BY <1>10 DEF EnterPassword, Mark
<1>11. ASSUME HandleFinger PROVE races \subseteq races'
  BY <1>11 DEF HandleFinger, Mark
<1>12. ASSUME OpenForget PROVE races \subseteq races'
  BY <1>12 DEF OpenForget, Mark
<1>13. ASSUME LeaveForget PROVE races \subseteq races'
  BY <1>13 DEF LeaveForget, Mark
<1>14. ASSUME ResetSuccess PROVE races \subseteq races'
  BY <1>14 DEF ResetSuccess, Mark
<1>15. ASSUME ConfirmWipe PROVE races \subseteq races'
  BY <1>15 DEF ConfirmWipe, Mark
<1>16. ASSUME LockScreen PROVE races \subseteq races'
  BY <1>16 DEF LockScreen, Mark
<1>17. ASSUME LockTimeOver PROVE races \subseteq races'
  BY <1>17 DEF LockTimeOver, Mark
<1>18. ASSUME FinalOver PROVE races \subseteq races'
  BY <1>18 DEF FinalOver, Mark
<1>19. ASSUME Tick PROVE races \subseteq races'
  BY <1>19 DEF Tick, Mark
<1>20. ASSUME Crash PROVE races \subseteq races'
  BY <1>20 DEF Crash, Mark
<1>21. CASE UNCHANGED vars
  BY <1>21 DEF vars
<1> QED
  BY <1>1, <1>2, <1>3, <1>4, <1>5, <1>6, <1>7, <1>8, <1>9, <1>10, <1>11, <1>12, <1>13, <1>14, <1>15, <1>16, <1>17, <1>18, <1>19, <1>20, <1>21
     DEF Next, Background, Handle, Countdown, User

LEMMA AttemptStep ==
    TypeOK /\ Order /\ AttemptInv /\ [Next]_vars => AttemptInv'
<1> SUFFICES ASSUME TypeOK, Order, AttemptInv, [Next]_vars, "overlap" \notin races'
             PROVE  (OneAtATime /\ TimerRuns /\ BelowLimit)'
  BY DEF AttemptInv
<1>1. Booleans /\ Data
  BY TypeSplit
<1>2. OneAtATime /\ TimerRuns /\ BelowLimit
  BY RacesGrow DEF AttemptInv
<1>3. OneAtATime' /\ TimerRuns'
  BY <1>1, <1>2, OneAtATimeStep, TimerStep
<1>4. BelowLimit'
  BY <1>1, <1>2, <1>3, BelowLimitStep
<1> QED
  BY <1>3, <1>4

(* LastAttempt: with one verification at a time the limit is never passed,  *)
(* and a page that takes a password is not open at the limit, also after a  *)
(* restart; the boot compares with the count in the secure element.         *)
THEOREM LastAttemptIsLast == Spec => []LastAttempt
<1>1. Init => TypeOK /\ Order /\ AttemptInv
  BY InitType, OrderInit, AttemptInit
<1>2. TypeOK /\ Order /\ AttemptInv /\ [Next]_vars => (TypeOK /\ Order /\ AttemptInv)'
  BY TypeStep, OrderStep, AttemptStep, TypeSplit
<1>3. TypeOK /\ Order /\ AttemptInv => LastAttempt
<2> SUFFICES ASSUME TypeOK, AttemptInv, "overlap" \notin races
             PROVE  /\ job # "asserted"
                    /\ page \in {"lock", "home"} /\ Quiet => se.errors < MaxErrors
  BY DEF LastAttempt
<2>1. BelowLimit
  BY DEF AttemptInv
<2>2. Quiet => ~Verifying
  BY DEF Quiet, Verifying, Verified, HasVerify
<2> QED
  BY <2>1, <2>2 DEF BelowLimit
<1> QED
  BY <1>1, <1>2, <1>3, PTL DEF Spec

-----------------------------------------------------------------------------
(* The time of a lock                                                       *)

Locks(n) == Left(n) \in DOMAIN LockTime
Need(n) == LockTime[Left(n)]

(* The page of a lock is open as long as the lock is needed: a page that    *)
(* takes a password, or leads to one, follows a lock that was served.       *)
Served ==
    /\ page = "lock" => ~active
    /\ active /\ page \in {"timed", "forget"} /\ Locks(info.errors) =>
           Need(info.errors) <= waited + remaining
    /\ page \in {"lock", "home", "forget"} /\ ~active /\ (Verifying => HasVerify)
           /\ Locks(info.errors) => Need(info.errors) <= waited

(* What a time stamp of that age tells a boot: no more time has passed than *)
(* really has, or the lock is over anyway.                                  *)
Truthful(age) ==
    Locks(se.errors) => age <= waited \/ Need(se.errors) <= waited

(* The stamp in the secure element may be relied on unless one that is      *)
(* younger is on its way to it; a wipe forgets the count with the stamp.    *)
Stamps ==
    /\ ~TimeUnknown => Truthful(se.since)
    /\ \A i \in DOMAIN jobs : jobs[i].kind = "time" => Truthful(jobs[i].since)
    /\ wiping >= 4 => se.errors = 0

(* The count in RAM is the one in the secure element but while a            *)
(* verification brings the one after the other.                             *)
SameCount ==
    page # "off" /\ job \notin {"accepted", "rejected"} => info.errors = se.errors

Settled == OneAtATime /\ TimerRuns /\ BelowLimit

WaitInv == races = {} => Served /\ Stamps

(* A fresh account needs no lock, and a lock has a positive end. *)
LEMMA Needs ==
    /\ ~Locks(0)
    /\ \A n : Locks(n) => Need(n) \in 1..Longest
  BY Times DEF Locks, Need, Left

LEMMA WaitInit == Init => WaitInv /\ SameCount
<1> SUFFICES ASSUME Init PROVE Served /\ Stamps /\ SameCount
  BY DEF WaitInv
<1>1. info.errors = 0 /\ se.errors = 0
  BY DEF Init, Fresh
<1> QED
  BY <1>1, Needs DEF Init, Served, Stamps, Truthful, SameCount

LEMMA SameCountStep == Data /\ Order /\ SameCount /\ [Next]_vars => SameCount'
<1> SUFFICES ASSUME Data, Order, SameCount, [Next]_vars PROVE SameCount'
  OBVIOUS
<1> USE DEF SameCount
<1>1. ASSUME Verify PROVE SameCount'
  BY <1>1 DEF Verify
<1>2. ASSUME Persist PROVE SameCount'
  BY <1>2 DEF Persist, Written
<1>3. ASSUME Answer PROVE SameCount'
  BY <1>3 DEF Answer
<1>4. ASSUME SetLastLockDeviceTime PROVE SameCount'
  BY <1>4 DEF SetLastLockDeviceTime
<1>5. ASSUME StartWipe PROVE SameCount'
  BY <1>5 DEF StartWipe, IsNext
<1>6. ASSUME WipeStep PROVE SameCount'
  BY <1>6 DEF WipeStep, Restarted
<1>7. ASSUME Boot PROVE SameCount'
  BY <1>7 DEF Boot
<1>8. ASSUME HandlePass PROVE SameCount'
  BY <1>8 DEF HandlePass, Order
<1>9. ASSUME HandleFail PROVE SameCount'
  BY <1>9 DEF HandleFail, OpenTimed, Order
<1>10. ASSUME NEW p \in {"right", "wrong"}, EnterPassword(p) PROVE SameCount'
  BY <1>10 DEF EnterPassword
<1>11. ASSUME HandleFinger PROVE SameCount'
  BY <1>11 DEF HandleFinger
<1>12. ASSUME OpenForget PROVE SameCount'
  BY <1>12 DEF OpenForget
<1>13. ASSUME LeaveForget PROVE SameCount'
  BY <1>13 DEF LeaveForget
<1>14. ASSUME ResetSuccess PROVE SameCount'
  BY <1>14 DEF ResetSuccess
<1>15. ASSUME ConfirmWipe PROVE SameCount'
  BY <1>15 DEF ConfirmWipe
<1>16. ASSUME LockScreen PROVE SameCount'
  BY <1>16 DEF LockScreen
<1>17. ASSUME LockTimeOver PROVE SameCount'
  BY <1>17 DEF LockTimeOver, EndTimed
<1>18. ASSUME FinalOver PROVE SameCount'
  BY <1>18 DEF FinalOver
<1>19. ASSUME Tick PROVE SameCount'
<2>1. info'.errors = info.errors /\ se'.errors = se.errors
  BY <1>19, ErrorsKept DEF Tick, Data
<2> QED
  BY <1>19, <2>1 DEF Tick
<1>20. ASSUME Crash PROVE SameCount'
  BY <1>20 DEF Crash, Restarted
<1>21. CASE UNCHANGED vars
  BY <1>21 DEF vars
<1> QED
  BY <1>1, <1>2, <1>3, <1>4, <1>5, <1>6, <1>7, <1>8, <1>9, <1>10, <1>11, <1>12, <1>13, <1>14, <1>15, <1>16, <1>17, <1>18, <1>19, <1>20, <1>21
     DEF Next, Background, Handle, Countdown, User

(* The lock that ends has been served, and a stamp that says so is true. *)
LEMMA ServedEnds ==
    ASSUME Data, Settled, Served, SameCount, active, remaining = 0,
           page \in {"timed", "lock", "forget"}
    PROVE  /\ page # "lock" /\ ~Verifying
           /\ Locks(info.errors) => Need(info.errors) <= waited
           /\ info.errors = se.errors
<1>1. page # "lock"
  BY DEF Served
<1>2. ~Verifying
  BY <1>1 DEF Settled, OneAtATime
<1>3. waited \in Nat /\ waited + remaining = waited
  BY Times DEF Data, Ages
<1>4. Locks(info.errors) => Need(info.errors) <= waited
  BY <1>1, <1>3 DEF Served
<1> QED
  BY <1>1, <1>2, <1>4 DEF SameCount, Verifying, Verified, Pages

LEMMA ServedStep ==
    ASSUME Booleans, Data, Order, Settled, SameCount, Served, Stamps, races' = {}, [Next]_vars
    PROVE  Served'
<1> USE DEF Served
<1>1. ASSUME Verify PROVE Served'
<2>1. jobs' = <<>> /\ job' \in Verified /\ page = "lock"
  BY <1>1, JobsTail DEF Verify, Settled, OneAtATime, HasVerify, Verifying, IsNext, Data, Verified
<2>2. Verifying' /\ ~HasVerify'
  BY <2>1 DEF Verifying, HasVerify
<2> QED
  BY <1>1, <2>1, <2>2 DEF Verify
<1>2. ASSUME Persist PROVE Served'
<2>1. jobs = <<>> /\ job' \in Verified /\ page = "lock" /\ jobs' = jobs
  BY <1>2 DEF Persist, Settled, OneAtATime, Verifying, Verified
<2>2. Verifying' /\ ~HasVerify'
  BY <2>1 DEF Verifying, HasVerify
<2> QED
  BY <1>2, <2>1, <2>2 DEF Persist
<1>3. ASSUME Answer PROVE Served'
<2>1. jobs = <<>> /\ page = "lock" /\ jobs' = jobs /\ answers = <<>>
      /\ info.errors <= MaxErrors
  BY <1>3 DEF Answer, Settled, OneAtATime, BelowLimit, Verifying, Verified, Order
<2>2. answers' # <<>>
<3>1. \A n : Append(<<>>, n) # <<>>
  OBVIOUS
<3>2. ~(info.errors > MaxErrors)
  BY <2>1, Times DEF Data, Record
<3>3. \E n : answers' = Append(answers, n)
  BY <1>3, <3>2 DEF Answer
<3> QED
  BY <2>1, <3>1, <3>3
<2>3. Verifying' /\ ~HasVerify'
  BY <2>1, <2>2 DEF Verifying, HasVerify
<2> QED
  BY <1>3, <2>1, <2>3 DEF Answer
<1>4. ASSUME SetLastLockDeviceTime PROVE Served'
<2>1. info'.errors = info.errors
  BY <1>4, ErrorsKept DEF SetLastLockDeviceTime, Data
<2>2. ~Verifying
  BY <1>4 DEF SetLastLockDeviceTime, IsNext, Settled, OneAtATime, Verifying, HasVerify, Verified, Data
<2> QED
  BY <1>4, <2>1, <2>2 DEF SetLastLockDeviceTime
<1>5. ASSUME StartWipe PROVE Served'
<2>2. ~Verifying
  BY <1>5 DEF StartWipe, IsNext, Settled, OneAtATime, Verifying, HasVerify, Verified, Data
<2> QED
  BY <1>5, <2>2 DEF StartWipe
<1>6. ASSUME WipeStep PROVE Served'
<2>1. info' = info \/ info'.errors = 0
  BY <1>6 DEF WipeStep, Fresh
<2>2. CASE page' = "off"
  BY <2>2
<2>3. CASE UNCHANGED <<password, queues, display>>
  BY <1>6, <2>1, <2>3, Needs DEF WipeStep, Verifying, HasVerify
<2> QED
  BY <1>6, <2>2, <2>3 DEF WipeStep, Restarted
<1>7. ASSUME Boot PROVE Served'
<2>1. ~active /\ ~TimeUnknown /\ page = "off"
  BY <1>7 DEF Boot, Settled, TimerRuns, TimeUnknown, Order
<2>2. Truthful(se.since)
  BY <2>1 DEF Stamps
<2>3. info' = se /\ waited' = waited /\ waited \in Nat /\ se.since \in Nat
  BY <1>7, Times DEF Boot, Data, Ages, Record
<2>4. CASE OpenTimed(se)
<3>1. Locks(se.errors) => Need(se.errors) <= waited + StillNeeds(se)
  BY <2>2, <2>3, Needs DEF Truthful, StillNeeds, Locks, Need
<3> QED
  BY <2>1, <2>3, <2>4, <3>1 DEF OpenTimed
<2>5. CASE page' = "lock" /\ ~StillLocked(se) /\ active' = active
<3>1. Locks(se.errors) => Need(se.errors) <= waited
  BY <2>2, <2>3, <2>5, Needs DEF Truthful, StillLocked, Locks, Need
<3> QED
  BY <2>1, <2>3, <2>5, <3>1
<2>6. CASE page' \in {"setup", "off"}
  BY <2>6
<2> QED
  BY <1>7, <2>1, <2>4, <2>5, <2>6 DEF Boot
<1>8. ASSUME HandlePass PROVE Served'
<2>1. info.errors = 0 /\ ~active
<3>1. info.errors \in Nat
  BY DEF Data, Record
<3> QED
  BY <1>8, <3>1 DEF HandlePass, Settled, BelowLimit, OneAtATime, Verifying
<2> QED
  BY <1>8, <2>1, Needs DEF HandlePass
<1>9. ASSUME HandleFail PROVE Served'
<2>1. /\ page = "lock" /\ ~active /\ Head(answers) = info.errors
      /\ info' = info /\ waited' = waited
  BY <1>9 DEF HandleFail, Settled, BelowLimit, OneAtATime, Verifying
<2>2. CASE Locks(info.errors)
<3>1. PICK r : r = [info EXCEPT !.errors = Head(answers)]
  OBVIOUS
<3>2. r \in Record /\ r.errors = info.errors
  BY <2>1, <3>1 DEF Data, Record
<3>3. StillNeeds(r) \in Nat
  BY <2>2, <3>2, StillNeedsType, Times DEF Locks, Ages
<3>4. OpenTimed(r) /\ races' = Mark("stale", StillNeeds(r) < Need(info.errors))
<4>1. Left(Head(answers)) \in DOMAIN LockTime /\ Left(Head(answers)) # 0
  BY <2>1, <2>2, Times DEF Locks
<4>2. /\ OpenTimed([info EXCEPT !.errors = Head(answers)])
      /\ races' = Mark("stale", StillNeeds([info EXCEPT !.errors = Head(answers)])
                                    < LockTime[Left(Head(answers))])
  BY <1>9, <4>1, Zenon DEF HandleFail
<4> QED
  BY <2>1, <3>1, <4>2, Zenon DEF Need
<3>5. ~(StillNeeds(r) < Need(info.errors))
  BY <3>4 DEF Mark
<3>6. Need(info.errors) \in Nat /\ waited \in Nat
  BY <2>2, Needs, Times DEF Data, Ages
<3>7. Need(info.errors) <= waited + StillNeeds(r)
  BY <3>3, <3>5, <3>6
<3>8. active' /\ remaining' = StillNeeds(r) /\ page' # "lock"
  BY <3>4 DEF OpenTimed
<3> QED
  BY <2>1, <3>7, <3>8
<2>3. CASE ~Locks(info.errors)
  BY <1>9, <2>1, <2>3 DEF HandleFail, Locks
<2> QED
  BY <2>2, <2>3
<1>10. ASSUME NEW p \in {"right", "wrong"}, EnterPassword(p) PROVE Served'
<2>1. ~Verifying
  BY <1>10 DEF EnterPassword, Mark, Quiet, Verifying, HasVerify, Verified
<2> QED
  BY <1>10, <2>1 DEF EnterPassword
<1>11. ASSUME HandleFinger PROVE Served'
<2>1. info'.errors = 0
  BY <1>11 DEF HandleFinger, Data, Record
<2> QED
  BY <1>11, <2>1, Needs DEF HandleFinger
<1>12. ASSUME OpenForget PROVE Served'
<2>1. ~Verifying
  BY <1>12 DEF OpenForget, Quiet, Verifying, HasVerify, Verified
<2> QED
  BY <1>12, <2>1 DEF OpenForget, Settled, TimerRuns
<1>13. ASSUME LeaveForget PROVE Served'
<2>1. ~Verifying /\ UNCHANGED <<info, waited, remaining>>
  BY <1>13 DEF LeaveForget, Settled, OneAtATime
<2>2. CASE active /\ Refreshed /\ EndTimed
  BY <1>13, <2>1, <2>2, ServedEnds DEF LeaveForget, Refreshed, EndTimed
<2>3. CASE active /\ ~Refreshed /\ page' = "timed" /\ active' = active
  BY <1>13, <2>1, <2>3 DEF LeaveForget
<2>4. CASE ~active /\ page' = "lock" /\ UNCHANGED <<active, timer, jobs>>
  BY <1>13, <2>1, <2>4 DEF LeaveForget
<2> QED
  BY <1>13, <2>2, <2>3, <2>4 DEF LeaveForget
<1>14. ASSUME ResetSuccess PROVE Served'
  BY <1>14 DEF ResetSuccess
<1>15. ASSUME ConfirmWipe PROVE Served'
  BY <1>15 DEF ConfirmWipe
<1>16. ASSUME LockScreen PROVE Served'
  BY <1>16 DEF LockScreen, Settled, TimerRuns, Verifying, HasVerify
<1>17. ASSUME LockTimeOver PROVE Served'
<2>1. active
  BY <1>17 DEF LockTimeOver, Settled, TimerRuns, Booleans
<2>2. UNCHANGED <<info, waited, remaining>>
  BY <1>17 DEF LockTimeOver
<2> QED
  BY <1>17, <2>1, <2>2, ServedEnds DEF LockTimeOver, EndTimed
<1>18. ASSUME FinalOver PROVE Served'
  BY <1>18 DEF FinalOver
<1>19. ASSUME Tick PROVE Served'
<2>1. info'.errors = info.errors /\ se'.errors = se.errors
  BY <1>19, ErrorsKept DEF Tick, Data
<2>2. (Verifying' => HasVerify') => (Verifying => HasVerify)
  BY <1>19, TickKeeps DEF Tick, Verifying
<2>3. Locks(info.errors) => Need(info.errors) \in 1..Longest
  BY Needs
<2>4. /\ waited \in 0..Longest /\ remaining \in 0..Longest /\ Longest \in Nat
      /\ waited' = (IF waited < Longest THEN waited + 1 ELSE waited)
      /\ remaining' = (IF remaining > 0 THEN remaining - 1 ELSE 0)
  BY <1>19, Times DEF Tick, Data, Ages, Older
<2>5. \A n \in 1..Longest : n <= waited + remaining => n <= waited' + remaining'
  BY <2>4
<2>6. \A n \in 1..Longest : n <= waited => n <= waited'
  BY <2>4
<2> QED
  BY <1>19, <2>1, <2>2, <2>3, <2>5, <2>6 DEF Tick
<1>20. ASSUME Crash PROVE Served'
  BY <1>20 DEF Crash, Restarted
<1>21. CASE UNCHANGED vars
  BY <1>21 DEF vars, Verifying, HasVerify
<1> QED
  BY <1>1, <1>2, <1>3, <1>4, <1>5, <1>6, <1>7, <1>8, <1>9, <1>10, <1>11, <1>12, <1>13, <1>14, <1>15, <1>16, <1>17, <1>18, <1>19, <1>20, <1>21
     DEF Next, Background, Handle, Countdown, User

(* A message posted adds itself at most, and only at the end. *)
LEMMA PostAdds ==
    ASSUME jobs \in Seq(Message), NEW m, Post(m)
    PROVE  \A i \in DOMAIN jobs' :
               \/ i \in DOMAIN jobs /\ jobs'[i] = jobs[i]
               \/ jobs'[i] = m
<1>1. CASE jobs' = jobs
  BY <1>1
<1>2. CASE jobs' = Append(jobs, m)
<2>1. DOMAIN jobs' = 1..Len(jobs) + 1 /\ DOMAIN jobs = 1..Len(jobs) /\ Len(jobs) \in Nat
  BY <1>2
<2> QED
  BY <1>2, <2>1
<1> QED
  BY <1>1, <1>2 DEF Post

(* A message posted leaves the others where they are. *)
LEMMA PostKeeps ==
    ASSUME jobs \in Seq(Message), NEW m, Post(m)
    PROVE  \A i \in DOMAIN jobs : i \in DOMAIN jobs' /\ jobs'[i] = jobs[i]
<1>1. CASE jobs' = jobs
  BY <1>1
<1>2. CASE jobs' = Append(jobs, m)
<2>1. DOMAIN jobs' = 1..Len(jobs) + 1 /\ DOMAIN jobs = 1..Len(jobs) /\ Len(jobs) \in Nat
  BY <1>2
<2> QED
  BY <1>2, <2>1
<1> QED
  BY <1>1, <1>2 DEF Post

(* The messages behind the first one. *)
LEMMA TailItems ==
    ASSUME jobs \in Seq(Message), jobs # <<>>
    PROVE  /\ 1 \in DOMAIN jobs /\ jobs[1] = Head(jobs)
           /\ \A i \in DOMAIN Tail(jobs) :
                  i + 1 \in DOMAIN jobs /\ Tail(jobs)[i] = jobs[i + 1]
           /\ \A i \in DOMAIN jobs : i # 1 => i - 1 \in DOMAIN Tail(jobs)
                                              /\ Tail(jobs)[i - 1] = jobs[i]
<1>1. Len(jobs) \in Nat \ {0} /\ DOMAIN jobs = 1..Len(jobs)
  BY EmptySeq
<1>2. Len(Tail(jobs)) = Len(jobs) - 1 /\ DOMAIN Tail(jobs) = 1..Len(jobs) - 1
  BY <1>1
<1>3. \A i \in 1..Len(jobs) - 1 : Tail(jobs)[i] = jobs[i + 1]
  BY <1>1
<1> QED
  BY <1>1, <1>2, <1>3

(* A step that leaves the count in the secure element, the time and the     *)
(* younger messages alone needs to answer for the messages it posts only.   *)
LEMMA StampsKept ==
    ASSUME Stamps, se'.errors = se.errors, se'.since = se.since, waited' = waited,
           TimeUnknown => TimeUnknown',
           \A i \in DOMAIN jobs' :
               \/ \E k \in DOMAIN jobs : jobs'[i] = jobs[k]
               \/ jobs'[i].kind = "time" => Truthful(jobs'[i].since),
           wiping' >= 4 => wiping >= 4
    PROVE  Stamps'
<1>1. ASSUME NEW a PROVE Truthful(a)' <=> Truthful(a)
  BY DEF Truthful
<1>2. PICK e : e = se.since
  OBVIOUS
<1>3. ~TimeUnknown' => Truthful(e)
  BY <1>2 DEF Stamps
<1>4. ASSUME NEW i \in DOMAIN jobs', jobs'[i].kind = "time"
      PROVE  Truthful(jobs'[i].since)
  BY <1>4 DEF Stamps
<1>5. e = se'.since
  BY <1>2
<1> QED
  BY <1>3, <1>4, <1>5 DEF Stamps, Truthful

LEMMA StampsStep ==
    ASSUME Booleans, Data, Order, Settled, SameCount, Served, Stamps, races' = {}, [Next]_vars
    PROVE  Stamps'
<1>a. jobs \in Seq(Message) /\ waited \in 0..Longest /\ Longest \in Nat
  BY Times DEF Data, Ages
<1>b. ASSUME UNCHANGED <<se, waited, wiping, jobs, job, answers>> PROVE Stamps'
  BY <1>b DEF Stamps, Truthful, TimeUnknown
<1>c. ASSUME se'.errors = 0 PROVE Stamps'
  BY <1>c, Needs DEF Stamps, Truthful
<1>1. ASSUME Verify PROVE Stamps'
<2>1. HasVerify /\ job = "none" /\ answers = <<>>
  BY <1>1, TailItems, <1>a DEF Verify, IsNext, HasVerify
<2>2. Len(jobs) = 1 /\ jobs' = <<>>
  BY <1>1, <2>1, JobsTail, <1>a DEF Verify, Settled, OneAtATime, IsNext, Data
<2>3. \A i \in DOMAIN jobs : jobs[i].kind = "verify"
  BY <2>2, <1>1, <1>a, TailItems DEF Verify, IsNext
<2>4. ~TimeUnknown
  BY <2>1, <2>3 DEF TimeUnknown
<2> QED
  BY <1>1, <2>2, <2>4, StampsKept DEF Verify
<1>2. ASSUME Persist PROVE Stamps'
<2>1. jobs = <<>>
  BY <1>2 DEF Persist, Settled, OneAtATime, Verified
<2>2. CASE job = "accepted"
  BY <1>2, <2>2, <1>c DEF Persist, Written, Order
<2>3. CASE job = "rejected"
<3>1. jobs' = <<>> /\ TimeUnknown' /\ wiping' = wiping
  BY <1>2, <2>1, <2>3 DEF Persist, TimeUnknown
<3>2. ~(wiping >= 4)
  BY <2>3, <1>2 DEF Order, Persist, Data, Settled, OneAtATime, Verified, Verifying
<3> QED
  BY <3>1, <3>2 DEF Stamps
<2> QED
  BY <1>2, <2>2, <2>3 DEF Persist
<1>3. ASSUME Answer PROVE Stamps'
<2>1. jobs = <<>> /\ jobs' = jobs
  BY <1>3 DEF Answer, Settled, OneAtATime, Verified
<2>2. CASE job = "success"
  BY <1>3, <2>2, <1>c DEF Answer, Order, Settled, BelowLimit
<2>3. CASE job = "failure"
<3>1. job' # "asserted" => answers' # <<>>
  BY <1>3, <2>3 DEF Answer
<3>2. info.errors <= MaxErrors
  BY <2>3 DEF Settled, BelowLimit
<3>3. job' # "asserted"
  BY <1>3, <3>2, <2>3, Times DEF Answer, Data, Record
<3>4. TimeUnknown'
  BY <3>1, <3>3 DEF TimeUnknown
<3> QED
  BY <1>3, <2>1, <3>4, StampsKept DEF Answer
<2> QED
  BY <1>3, <2>2, <2>3 DEF Answer
<1>4. ASSUME SetLastLockDeviceTime PROVE Stamps'
<2>1. job = "none" /\ answers = <<>> /\ jobs # <<>> /\ Head(jobs).kind = "time"
  BY <1>4 DEF SetLastLockDeviceTime, IsNext
<2>2. PICK a : a = Head(jobs).since
  OBVIOUS
<2>3. info'.errors = info.errors /\ info'.since = a /\ se' = info'
  BY <1>4, <2>2 DEF SetLastLockDeviceTime, Data, Record
<2>4. info.errors = se.errors
  BY <2>1 DEF SameCount, Order
<2>5. Truthful(a)
  BY <2>1, <2>2, <1>a, TailItems DEF Stamps
<2>6. UNCHANGED <<waited, wiping>> /\ jobs' = Tail(jobs)
  BY <1>4 DEF SetLastLockDeviceTime
<2>7. ASSUME NEW i \in DOMAIN jobs', jobs'[i].kind = "time" PROVE Truthful(jobs'[i].since)
  BY <2>1, <2>6, <2>7, <1>a, TailItems DEF Stamps
<2> QED
  BY <2>3, <2>4, <2>5, <2>6, <2>7 DEF Stamps, Truthful
<1>5. ASSUME StartWipe PROVE Stamps'
<2>1. job = "none" /\ answers = <<>> /\ jobs # <<>> /\ Head(jobs).kind = "wipe"
  BY <1>5 DEF StartWipe, IsNext
<2>2. UNCHANGED <<se, waited, answers>> /\ jobs' = Tail(jobs) /\ wiping' = 1
  BY <1>5 DEF StartWipe
<2>3. TimeUnknown => TimeUnknown'
  BY <2>1, <2>2, <1>a, TailItems DEF TimeUnknown
<2>4. \A i \in DOMAIN jobs' : \E k \in DOMAIN jobs : jobs'[i] = jobs[k]
  BY <2>1, <2>2, <1>a, TailItems
<2> QED
  BY <2>2, <2>3, <2>4, StampsKept
<1>6. ASSUME WipeStep PROVE Stamps'
<2>1. wiping \in 1..8
  BY <1>6 DEF WipeStep, Data, Statements
<2>2. CASE wiping = 3
  BY <1>6, <2>2, <1>c DEF WipeStep, Statements, Fresh
<2>3. CASE wiping \in {1, 2}
<3>1. UNCHANGED <<se, waited, jobs, job, answers>> /\ wiping' = wiping + 1
  BY <1>6, <2>3 DEF WipeStep, Statements
<3> QED
  BY <2>3, <3>1 DEF Stamps, Truthful, TimeUnknown
<2>4. CASE wiping \in 4..8
  BY <1>6, <2>4, <1>c DEF WipeStep, Statements, Stamps
<2> QED
  BY <2>1, <2>2, <2>3, <2>4
<1>7. ASSUME Boot PROVE Stamps'
<2>1. UNCHANGED <<se, waited, jobs, job, answers>> /\ wiping' \in {wiping, 2}
  BY <1>7 DEF Boot
<2> QED
  BY <2>1 DEF Stamps, Truthful, TimeUnknown
<1>8. ASSUME HandlePass PROVE Stamps'
<2>1. info.errors \in Nat
  BY DEF Data, Record
<2> QED
  BY <1>8, <1>c, <2>1 DEF HandlePass, Settled, BelowLimit
<1>9. ASSUME HandleFail PROVE Stamps'
<2>1. /\ jobs = <<>> /\ Head(answers) = se.errors /\ TimeUnknown
      /\ UNCHANGED <<se, waited, wiping>>
  BY <1>9 DEF HandleFail, Settled, BelowLimit, OneAtATime, TimeUnknown
<2>2. CASE Locks(se.errors)
<3>1. Left(Head(answers)) \in DOMAIN LockTime /\ Left(Head(answers)) # 0
  BY <2>1, <2>2, Times DEF Locks
<3>2. Post(WriteTime(0))
  BY <1>9, <3>1, Zenon DEF HandleFail
<3>3. jobs' = <<WriteTime(0)>>
  BY <2>1, <3>2, BoundAssumption DEF Post
<3>4. DOMAIN jobs' = {1} /\ jobs'[1].kind = "time" /\ jobs'[1].since = 0
  BY <3>3 DEF WriteTime
<3>5. TimeUnknown'
  BY <3>4, Times DEF TimeUnknown
<3>6. Truthful(0)
  BY <1>a DEF Truthful
<3> QED
  BY <2>1, <3>4, <3>5, <3>6, StampsKept
<2>3. CASE ~Locks(se.errors)
<3>1. jobs' = jobs
  BY <1>9, <2>1, <2>3 DEF HandleFail, Locks
<3> QED
  BY <2>1, <2>3, <3>1 DEF Stamps, Truthful
<2> QED
  BY <2>2, <2>3
<1>10. ASSUME NEW p \in {"right", "wrong"}, EnterPassword(p) PROVE Stamps'
<2>1. UNCHANGED <<se, waited, wiping, job, answers>> /\ Post(Verification)
  BY <1>10 DEF EnterPassword
<2>2. TimeUnknown => TimeUnknown'
  BY <2>1, <1>a, PostKeeps DEF TimeUnknown
<2> QED
  BY <2>1, <2>2, <1>a, PostAdds, StampsKept DEF Verification
<1>11. ASSUME HandleFinger PROVE Stamps'
<2>1. se'.errors = 0
  BY <1>11 DEF HandleFinger, Data, Record
<2> QED
  BY <2>1, <1>c
<1>12. ASSUME OpenForget PROVE Stamps'
  BY <1>12, <1>b DEF OpenForget
<1>d. ASSUME UNCHANGED <<se, waited, wiping, job, answers>>, Post(WriteTime(Never)),
             Data, active, remaining = 0, page \in {"timed", "lock", "forget"}
      PROVE  Stamps'
<2>1. Locks(se.errors) => Need(se.errors) <= waited
  BY <1>d, ServedEnds
<2>2. Truthful(Never)
  BY <2>1 DEF Truthful
<2>3. TimeUnknown => TimeUnknown'
  BY <1>d, <1>a, PostKeeps DEF TimeUnknown
<2>4. WriteTime(Never).since = Never
  BY DEF WriteTime
<2> QED
  BY <1>d, <2>2, <2>3, <2>4, <1>a, PostAdds, StampsKept
<1>13. ASSUME LeaveForget PROVE Stamps'
<2>1. UNCHANGED <<se, waited, wiping, job, answers>>
  BY <1>13 DEF LeaveForget
<2>2. CASE jobs' = jobs
  BY <2>1, <2>2, <1>b
<2>3. CASE active /\ Refreshed /\ EndTimed
  BY <1>13, <2>1, <2>3, <1>d DEF LeaveForget, Refreshed, EndTimed
<2> QED
  BY <1>13, <2>2, <2>3 DEF LeaveForget
<1>14. ASSUME ResetSuccess PROVE Stamps'
  BY <1>14 DEF ResetSuccess
<1>e. ASSUME UNCHANGED <<se, waited, wiping, job, answers>>, Post(Wipe) PROVE Stamps'
<2>1. TimeUnknown => TimeUnknown'
  BY <1>e, <1>a, PostKeeps DEF TimeUnknown
<2> QED
  BY <1>e, <2>1, <1>a, PostAdds, StampsKept DEF Wipe
<1>15. ASSUME ConfirmWipe PROVE Stamps'
  BY <1>15, <1>e DEF ConfirmWipe
<1>16. ASSUME LockScreen PROVE Stamps'
  BY <1>16, <1>b DEF LockScreen
<1>17. ASSUME LockTimeOver PROVE Stamps'
<2>1. active /\ Post(WriteTime(Never))
  BY <1>17 DEF LockTimeOver, EndTimed, Settled, TimerRuns, Booleans
<2> QED
  BY <1>17, <2>1, <1>d DEF LockTimeOver
<1>18. ASSUME FinalOver PROVE Stamps'
  BY <1>18, <1>b, <1>e DEF FinalOver
<1>19. ASSUME Tick PROVE Stamps'
<2>1. /\ se'.errors = se.errors /\ se'.since = Older(se.since)
      /\ waited' = Older(waited) /\ UNCHANGED <<wiping, job, answers>>
      /\ se.since \in 0..Longest
  BY <1>19 DEF Tick, Data, Record, Ages
<2>2. DOMAIN jobs' = DOMAIN jobs
  BY <1>19 DEF Tick
<2>3. ASSUME NEW i \in DOMAIN jobs
      PROVE  /\ jobs'[i].kind = jobs[i].kind
             /\ jobs'[i].since = Older(jobs[i].since) /\ jobs[i].since \in 0..Longest
<3>1. jobs[i] \in Message
  BY ElementOfSeq, LenProperties DEF Data
<3>2. jobs'[i] = [jobs[i] EXCEPT !.since = Older(jobs[i].since)]
  BY <1>19 DEF Tick
<3> QED
  BY <3>1, <3>2 DEF Message, Ages
<2>4. ASSUME NEW e \in 0..Longest, Truthful(e), Locks(se.errors)
      PROVE  Older(e) <= waited' \/ Need(se.errors) <= waited'
  BY <1>a, <2>1, <2>4, Needs DEF Truthful, Older
<2>5. ASSUME NEW i \in DOMAIN jobs', jobs'[i].kind = "time", Locks(se.errors)
      PROVE  jobs'[i].since <= waited' \/ Need(se.errors) <= waited'
  BY <2>2, <2>3, <2>4, <2>5 DEF Stamps
<2>6. ASSUME ~TimeUnknown', Locks(se.errors)
      PROVE  se'.since <= waited' \/ Need(se.errors) <= waited'
<3>1. CASE TimeUnknown
<4>1. PICK i \in DOMAIN jobs : jobs[i].kind = "time"
  BY <2>1, <2>6, <3>1 DEF TimeUnknown
<4>2. i \in DOMAIN jobs' /\ jobs'[i].kind = "time" /\ jobs'[i].since \in 0..Longest
  BY <4>1, <2>2, <2>3, <1>a DEF Older
<4>3. jobs'[i].since = Longest
  BY <4>2, <2>6, <1>a DEF TimeUnknown
<4>4. waited' \in 0..Longest /\ Need(se.errors) \in 1..Longest
  BY <2>1, <2>6, <1>a, Needs DEF Older
<4>5. Longest <= waited' \/ Need(se.errors) <= waited'
  BY <4>2, <4>3, <2>5, <2>6
<4> QED
  BY <4>4, <4>5, <1>a
<3>2. CASE ~TimeUnknown
  BY <2>1, <2>4, <2>6, <3>2 DEF Stamps
<3> QED
  BY <3>1, <3>2
<2>7. wiping' >= 4 => se'.errors = 0
  BY <2>1 DEF Stamps
<2> QED
  BY <2>1, <2>5, <2>6, <2>7 DEF Stamps, Truthful
<1>20. ASSUME Crash PROVE Stamps'
<2>1. ~TimeUnknown
  BY <1>20 DEF Crash, Mark
<2>2. jobs' = <<>> /\ wiping' = 0 /\ UNCHANGED <<se, waited>>
  BY <1>20 DEF Crash, Restarted
<2> QED
  BY <2>1, <2>2 DEF Stamps, Truthful
<1>21. CASE UNCHANGED vars
  BY <1>21, <1>b DEF vars
<1> QED
  BY <1>1, <1>2, <1>3, <1>4, <1>5, <1>6, <1>7, <1>8, <1>9, <1>10, <1>11, <1>12, <1>13, <1>14, <1>15, <1>16, <1>17, <1>18, <1>19, <1>20, <1>21
     DEF Next, Background, Handle, Countdown, User

LEMMA WaitStep ==
    TypeOK /\ Order /\ AttemptInv /\ SameCount /\ WaitInv /\ [Next]_vars => WaitInv'
<1> SUFFICES ASSUME TypeOK, Order, AttemptInv, SameCount, WaitInv, [Next]_vars, races' = {}
             PROVE  Served' /\ Stamps'
  BY DEF WaitInv
<1>1. races = {}
  BY RacesGrow
<1>2. Booleans /\ Data
  BY TypeSplit
<1>3. Settled /\ Served /\ Stamps
  BY <1>1 DEF AttemptInv, WaitInv, Settled
<1> QED
  BY <1>2, <1>3, ServedStep, StampsStep

(* WaitServed: however often power is lost, the lock page takes a password  *)
(* only after the time that the attempts left call for, unless a stamp did  *)
(* not reach the secure element, verifications overlapped, the stamp of an  *)
(* earlier lock was still there or the seed phrase set a new password.      *)
THEOREM LocksAreServed == Spec => []WaitServed
<1> DEFINE LockInv == TypeOK /\ Order /\ AttemptInv /\ SameCount /\ WaitInv
<1>1. Init => LockInv
  BY InitType, OrderInit, AttemptInit, WaitInit
<1>2. LockInv /\ [Next]_vars => LockInv'
<2> SUFFICES ASSUME LockInv, [Next]_vars PROVE LockInv'
  OBVIOUS
<2>1. Data /\ Booleans
  BY TypeSplit
<2>2. TypeOK' /\ Order'
  BY <2>1, TypeStep, OrderStep
<2>3. AttemptInv' /\ SameCount' /\ WaitInv'
  BY <2>1, AttemptStep, SameCountStep, WaitStep
<2> QED
  BY <2>2, <2>3
<1>3. LockInv => WaitServed
<2> SUFFICES ASSUME LockInv, Early, races = {} PROVE FALSE
  BY DEF WaitServed
<2>1. Served /\ Settled
  BY DEF WaitInv, AttemptInv, Settled
<2>2. page = "lock" /\ ~active /\ ~Verifying /\ Locks(info.errors)
  BY <2>1 DEF Early, Served, Quiet, Verifying, HasVerify, Verified, Locks
<2>3. Need(info.errors) <= waited
  BY <2>1, <2>2 DEF Served
<2>4. waited \in Nat /\ Need(info.errors) \in Nat
  BY <2>2, Needs, TypeSplit, Times DEF Data, Ages
<2> QED
  BY <2>3, <2>4 DEF Early, Need
<1> QED
  BY <1>1, <1>2, <1>3, PTL DEF Spec
=============================================================================
