--------------------------- MODULE KeystoreProofs ---------------------------
(***************************************************************************)
(* Theorems about Keystore, for any number of accounts, passwords and      *)
(* secrets, whatever crashes or fails: the variables keep their types, no  *)
(* two accounts ever share a password, between jobs every wallet opens     *)
(* under its password with its own keys and parameters beside it, and the  *)
(* pages implement the store of AccountStore.                              *)
(***************************************************************************)
EXTENDS Keystore, TLAPS

(* The steps of a create or a change job between the erasure and the end.  *)
Working == {"name", "check", "load", "save", "param", "hash", "info",
            "xpub", "login"}

(* A job carries the arguments its steps use. *)
JobOK ==
    /\ job.kind \in {"create", "change"} => job.new \in Passwords
    /\ job.kind = "create" => job.secret \in Secrets
    /\ pc \in Working => job.kind \in {"create", "change"}
    /\ pc = "save" => job.secret \in Secrets

(* From CheckPasswordExisted to the write of the hash, no other account    *)
(* has the new password.                                                   *)
Reserved ==
    pc \in {"load", "save", "param", "hash"} =>
        \A b \in Accounts \ {job.acct} : pwHash[b] # job.new

TypeInv == TypeOK /\ JobOK

Inv == TypeInv /\ PasswordsUnique /\ Reserved

-----------------------------------------------------------------------------

LEMMA PagesKnown == {"hmac", "iv", "auth"} \subseteq SecretPages
BY DEF SecretPages, SaveOrder

LEMMA LogoutNoAccount == Logout \notin Accounts /\ 0 \in Accounts
BY KeystoreAssumption DEF Logout, Accounts

LEMMA NoJobOK == NoJob \in Job /\ NoJob.kind = "boot" /\ NoInfo \in Info
BY LogoutNoAccount DEF NoJob, NewJob, Job, NoInfo, Info, Kinds

(* A secret that can be loaded is a secret. *)
LEMMA LoadedSecret ==
    ASSUME TypeOK, NEW a \in Accounts, NEW pw, CanLoad(a, pw)
    PROVE  Loaded(a) \in Secrets
<1>1. page[a]["hmac"] \in Data \cup {Blank}
  BY PagesKnown DEF TypeOK
<1>2. page[a]["hmac"] \in Data
  BY <1>1 DEF CanLoad
<1> QED
  BY <1>2 DEF Loaded, Data

LEMMA InitTypeInv == Init => TypeInv
<1> SUFFICES ASSUME Init PROVE TypeInv
  OBVIOUS
<1>1. TypeOK
  BY NoJobOK DEF Init, TypeOK, SaveOrder
<1>2. JobOK
  BY NoJobOK DEF Init, JobOK, Working
<1> QED
  BY <1>1, <1>2 DEF TypeInv

(* Erasing one page keeps the types of the pages. *)
LEMMA EraseTypes ==
    ASSUME TypeOK, NEW a \in Accounts, NEW p, Erase(a, p)
    PROVE  /\ page' \in [Accounts -> [SecretPages -> Data \cup {Blank}]]
           /\ pwHash' \in [Accounts -> Passwords \cup {NoPassword}]
           /\ param' \in [Accounts -> Info]
           /\ torn' \subseteq Accounts
BY NoJobOK DEF TypeOK, Erase

(* The types of the variables that most steps leave alone. *)
LEMMA StartTypes ==
    ASSUME TypeInv, StartJob
    PROVE  TypeInv'
<1> USE DEF TypeInv
<1>1. CASE \E a \in Accounts, s \in Secrets, pw \in Passwords :
             ImportWallet(a, s, pw) \/ ForgetPassword(a, s, pw)
  <2> PICK a \in Accounts, s \in Secrets, pw \in Passwords :
         ImportWallet(a, s, pw) \/ ForgetPassword(a, s, pw)
    BY <1>1
  <2>1. /\ job' \in Job /\ job'.kind = "create" /\ job'.new = pw
        /\ job'.secret = s /\ pc' = "erase" /\ step' = 1
    <3>1. PICK f \in BOOLEAN :
             Start(NewJob("create", a, s, NoPassword, pw, f), "erase")
      BY DEF ImportWallet, ForgetPassword
    <3> QED
      BY <3>1 DEF Start, NewJob, Job
  <2>2. UNCHANGED << persistent, ram, nonce, torn >>
    BY DEF ImportWallet, ForgetPassword
  <2> QED
    BY <2>1, <2>2 DEF TypeOK, JobOK, Working, persistent, ram, SaveOrder
<1>2. CASE DeleteWallet
  <2>1. /\ job' \in Job /\ job'.kind = "delete" /\ pc' = "erase" /\ step' = 1
    BY <1>2 DEF DeleteWallet, Start, NewJob, Job
  <2>2. UNCHANGED << persistent, ram, nonce, torn >>
    BY <1>2 DEF DeleteWallet
  <2> QED
    BY <2>1, <2>2 DEF TypeOK, JobOK, Working, persistent, ram, SaveOrder
<1>3. CASE \E old, new \in Passwords : ChangePassword(old, new)
  <2> PICK old \in Passwords, new \in Passwords : ChangePassword(old, new)
    BY <1>3
  <2>1. /\ job' \in Job /\ job'.kind = "change" /\ job'.new = new
        /\ pc' = "check" /\ step' = 1
    BY DEF ChangePassword, Start, NewJob, Job
  <2>2. UNCHANGED << persistent, ram, nonce, torn >>
    BY DEF ChangePassword
  <2> QED
    BY <2>1, <2>2 DEF TypeOK, JobOK, Working, persistent, ram, SaveOrder
<1> QED
  BY <1>1, <1>2, <1>3 DEF StartJob

LEMMA SessionTypes ==
    ASSUME TypeInv, Session
    PROVE  TypeInv'
<1> USE DEF TypeInv
<1>1. UNCHANGED << pc, step, job, nonce, torn, page, pwHash >>
  BY DEF Session, Login, LogoutCurrentAccount, SaveCurrentAccountInfo,
         persistent
<1>2. param' \in [Accounts -> Info]
  BY DEF Session, Login, LogoutCurrentAccount, SaveCurrentAccountInfo,
         persistent, TypeOK
<1>3. /\ xpub' \in [Accounts -> Secrets \cup {NoSecret}]
      /\ cur' \in Accounts \cup {Logout}
      /\ info' \in Info
  <2>1. CASE \E pw \in Passwords : Login(pw)
    <3> PICK pw \in Passwords : LoginEffect(pw)
      BY <2>1 DEF Login
    <3>1. CASE UNCHANGED << xpub, ram >>
      BY <3>1 DEF TypeOK, ram
    <3>2. CASE \E a \in Accounts :
                 /\ cur' = a
                 /\ info' = param[a]
                 /\ xpub' = IF xpub[a] = NoSecret /\ CanLoad(a, pw)
                            THEN [xpub EXCEPT ![a] = Loaded(a)] ELSE xpub
      BY <3>2, LoadedSecret DEF TypeOK
    <3> QED
      BY <3>1, <3>2 DEF LoginEffect
  <2>2. CASE LogoutCurrentAccount
    BY <2>2 DEF LogoutCurrentAccount, TypeOK, persistent
  <2>3. CASE SaveCurrentAccountInfo
    BY <2>3 DEF SaveCurrentAccountInfo, TypeOK, ram
  <2> QED
    BY <2>1, <2>2, <2>3 DEF Session
<1>4. TypeOK'
  BY <1>1, <1>2, <1>3 DEF TypeOK
<1>5. JobOK'
  BY <1>1 DEF JobOK
<1> QED
  BY <1>4, <1>5

LEMMA BootTypes ==
    ASSUME TypeInv, Crash \/ Boot
    PROVE  TypeInv'
<1> USE DEF TypeInv
<1>1. CASE Crash
  BY <1>1, NoJobOK DEF Crash, TypeOK, JobOK, Working, persistent, SaveOrder
<1>2. ASSUME NextAccount, pc \in {"boot", "bootErase"}
      PROVE  /\ job' \in Job /\ JobOK' /\ step' = 0 /\ pc' \in {"boot", "idle"}
  <2>1. job' = NoJob \/ (job' = [job EXCEPT !.acct = job.acct + 1]
                          /\ job.acct + 1 \in Accounts)
    BY <1>2 DEF NextAccount, Finish
  <2>2. /\ job' \in Job /\ pc' \in {"boot", "idle"} /\ step' = 0
        /\ job'.kind \in {job.kind, "boot"}
        /\ job'.kind # "boot" => job'.new = job.new /\ job'.secret = job.secret
    BY <1>2, <2>1, NoJobOK DEF NextAccount, Finish, Goto, TypeOK, Job
  <2> QED
    BY <2>2, <1>2 DEF JobOK, Working
<1>3. CASE BootCheck
  <2>1. UNCHANGED << persistent, ram, nonce, torn >> /\ pc = "boot"
    BY <1>3 DEF BootCheck
  <2>2. CASE NextAccount
    BY <2>1, <2>2, <1>2 DEF TypeOK, persistent, ram, SaveOrder
  <2>3. CASE Goto("bootErase", 1) /\ job' = job
    BY <2>1, <2>3 DEF TypeOK, JobOK, Working, Goto, persistent, ram, SaveOrder
  <2> QED
    BY <1>3, <2>2, <2>3 DEF BootCheck
<1>4. CASE BootErase
  <2>0. job.acct \in Accounts
    BY DEF TypeOK, Job
  <2>1. /\ Erase(job.acct, EraseOrder[step]) /\ pc = "bootErase"
        /\ UNCHANGED << xpub, ram, nonce >>
    BY <1>4 DEF BootErase
  <2>2. CASE NextAccount
    BY <2>0, <2>1, <2>2, <1>2, EraseTypes DEF TypeOK, ram, SaveOrder
  <2>3. CASE step < Len(EraseOrder) /\ Goto("bootErase", step + 1) /\ job' = job
    <3>1. step' \in 0 .. Len(SaveOrder) /\ pc' = "bootErase"
      BY <2>3 DEF Goto, TypeOK, SaveOrder, EraseOrder
    <3> QED
      BY <2>0, <2>1, <2>3, <3>1, EraseTypes DEF TypeOK, JobOK, Working, ram
  <2> QED
    BY <1>4, <2>2, <2>3 DEF BootErase
<1> QED
  BY <1>1, <1>3, <1>4 DEF Boot

LEMMA JobStepTypes ==
    ASSUME TypeInv, JobStep
    PROVE  TypeInv'
<1> USE DEF TypeInv
<1>0. /\ job.acct \in Accounts
      /\ job.new \in Passwords \cup {NoPassword}
      /\ NoJob \in Job /\ NoJob.kind = "boot"
  BY NoJobOK DEF TypeOK, Job
<1>1. CASE ErasePage
  <2>1. /\ Erase(job.acct, EraseOrder[step]) /\ pc = "erase"
        /\ UNCHANGED << xpub, ram, job, nonce >>
    BY <1>1 DEF ErasePage
  <2>2. step' \in 0 .. Len(SaveOrder) /\ pc' \in {"erase", "erased"}
    BY <1>1 DEF ErasePage, Goto, TypeOK, SaveOrder, EraseOrder
  <2> QED
    BY <1>0, <2>1, <2>2, EraseTypes DEF TypeOK, JobOK, Working, ram
<1>2. CASE DestroyEnd
  <2>1. /\ xpub' = [xpub EXCEPT ![job.acct] = NoSecret]
        /\ UNCHANGED << page, pwHash, param, nonce, torn >>
    BY <1>2 DEF DestroyEnd
  <2>2. CASE job.kind = "create"
    <3>1. info' \in Info
      BY <1>2, <2>2, NoJobOK, KeystoreAssumption DEF DestroyEnd, JobOK, Info
    <3> QED
      BY <1>0, <1>2, <2>1, <2>2, <3>1
         DEF DestroyEnd, TypeOK, JobOK, Working, Goto, SaveOrder
  <2>3. CASE job.kind # "create"
    BY <1>0, <1>2, <2>1, <2>3, NoJobOK
       DEF DestroyEnd, TypeOK, JobOK, Working, Goto, Finish, SaveOrder
  <2> QED
    BY <2>2, <2>3
<1>3. CASE WriteName \/ WriteParam \/ WriteInfo
  <2>1. /\ param' = [param EXCEPT ![cur] = info]
        /\ pc \in Working /\ pc' \in {"check", "hash", "xpub"} /\ step' = 0
        /\ UNCHANGED << page, pwHash, xpub, ram, job, nonce, torn >>
    BY <1>3 DEF WriteName, WriteParam, WriteInfo, Goto, Working
  <2>2. param' \in [Accounts -> Info]
    BY <2>1 DEF TypeOK
  <2>3. TypeOK'
    BY <2>1, <2>2 DEF TypeOK, ram, SaveOrder
  <2>4. JobOK'
    BY <2>1 DEF JobOK, Working
  <2> QED
    BY <2>3, <2>4
<1>4. CASE CheckPassword
  <2>1. /\ UNCHANGED << persistent, ram, torn >> /\ pc = "check"
        /\ nonce' \in Nat
    BY <1>4 DEF CheckPassword, TypeOK
  <2>2. CASE Finish
    BY <1>0, <2>1, <2>2
       DEF TypeOK, JobOK, Working, Finish, Goto, persistent, ram, SaveOrder
  <2>3. CASE job' = job /\ job.kind = "change" /\ Goto("load", 0)
    BY <2>1, <2>3
       DEF TypeOK, JobOK, Working, Goto, persistent, ram, SaveOrder
  <2>4. CASE job' = job /\ job.kind # "change" /\ Goto("save", 1)
    BY <2>1, <2>4
       DEF TypeOK, JobOK, Working, Goto, persistent, ram, SaveOrder
  <2> QED
    BY <1>4, <2>2, <2>3, <2>4 DEF CheckPassword
<1>5. CASE LoadSecret
  <2>1. /\ UNCHANGED << persistent, ram, torn >> /\ pc = "load"
        /\ nonce' \in Nat
    BY <1>5 DEF LoadSecret, TypeOK
  <2>2. CASE Finish
    BY <1>0, <2>1, <2>2
       DEF TypeOK, JobOK, Working, Finish, Goto, persistent, ram, SaveOrder
  <2>3. CASE /\ CanLoad(job.acct, job.old)
             /\ job' = [job EXCEPT !.secret = Loaded(job.acct)]
             /\ Goto("save", 1)
    <3>1. Loaded(job.acct) \in Secrets
      BY <1>0, <2>3, LoadedSecret
    <3> QED
      BY <2>1, <2>3, <3>1
         DEF TypeOK, Job, JobOK, Working, Goto, persistent, ram, SaveOrder
  <2> QED
    BY <1>5, <2>2, <2>3 DEF LoadSecret
<1>6. CASE SavePage
  <2> DEFINE d == [nonce |-> nonce, secret |-> job.secret, password |-> job.new]
  <2>1. d \in Data /\ pc = "save" /\ pc \in Working /\ job.kind \in {"create", "change"}
    BY <1>6 DEF SavePage, TypeOK, JobOK, Working, Data
  <2>2. page' \in [Accounts -> [SecretPages -> Data \cup {Blank}]]
    BY <1>6, <2>1 DEF SavePage, TypeOK
  <2>3. step' \in 0 .. Len(SaveOrder) /\ pc' \in {"save", "param", "hash"}
    BY <1>6 DEF SavePage, Goto, TypeOK, SaveOrder
  <2>4. info' \in Info
    BY <1>6, <2>1 DEF SavePage, TypeOK, JobOK, Info
  <2>5. torn' \subseteq Accounts
    BY <1>0, <1>6 DEF SavePage, TypeOK
  <2>6. UNCHANGED << pwHash, param, xpub, cur, job, nonce >>
    BY <1>6 DEF SavePage
  <2>7. TypeOK'
    BY <2>2, <2>3, <2>4, <2>5, <2>6 DEF TypeOK
  <2>8. JobOK'
    BY <2>1, <2>3, <2>6 DEF JobOK, Working
  <2> QED
    BY <2>7, <2>8
<1>7. CASE WriteHash
  <2>1. /\ pc = "hash" /\ job.kind \in {"create", "change"}
        /\ job.new \in Passwords
    BY <1>7 DEF WriteHash, JobOK, Working
  <2>2. pwHash' \in [Accounts -> Passwords \cup {NoPassword}]
    BY <1>7, <2>1 DEF WriteHash, TypeOK
  <2>3. info' \in Info
    BY <1>7 DEF WriteHash, TypeOK, JobOK, Info
  <2>4. /\ UNCHANGED << page, param, xpub, cur, nonce >>
        /\ torn' = torn \ {job.acct}
    BY <1>7 DEF WriteHash
  <2>5. CASE Finish
    BY <1>0, <2>2, <2>3, <2>4, <2>5
       DEF TypeOK, JobOK, Working, Finish, Goto, SaveOrder
  <2>6. CASE job' = job /\ Goto("info", 0)
    BY <2>1, <2>2, <2>3, <2>4, <2>6 DEF TypeOK, JobOK, Working, Goto, SaveOrder
  <2> QED
    BY <1>7, <2>5, <2>6 DEF WriteHash
<1>8. CASE GeneratePublicInfo
  <2>1. Loaded(job.acct) \in Secrets
    BY <1>0, <1>8, LoadedSecret DEF GeneratePublicInfo
  <2>2. /\ xpub' = [xpub EXCEPT ![job.acct] = Loaded(job.acct)]
        /\ pc = "xpub" /\ pc' = "login" /\ step' = 0
        /\ UNCHANGED << page, pwHash, param, ram, job, nonce, torn >>
    BY <1>8 DEF GeneratePublicInfo, Goto
  <2>3. xpub' \in [Accounts -> Secrets \cup {NoSecret}]
    BY <2>1, <2>2 DEF TypeOK
  <2>4. TypeOK'
    BY <2>2, <2>3 DEF TypeOK, ram, SaveOrder
  <2>5. JobOK'
    BY <2>2 DEF JobOK, Working
  <2> QED
    BY <2>4, <2>5
<1>9. CASE LoginNewAccount
  <2>1. cur' \in Accounts \cup {Logout} /\ info' \in Info
    BY <1>9 DEF LoginNewAccount, TypeOK
  <2> QED
    BY <1>0, <1>9, <2>1
       DEF LoginNewAccount, TypeOK, JobOK, Working, Finish, Goto, persistent,
           SaveOrder
<1>10. CASE AteccFails
  BY <1>0, <1>10
     DEF AteccFails, TypeOK, JobOK, Working, Finish, Goto, persistent, ram,
         SaveOrder
<1> QED
  BY <1>1, <1>2, <1>3, <1>4, <1>5, <1>6, <1>7, <1>8, <1>9, <1>10 DEF JobStep

LEMMA NextTypeInv == TypeInv /\ [Next]_vars => TypeInv'
<1> SUFFICES ASSUME TypeInv, [Next]_vars PROVE TypeInv'
  OBVIOUS
<1>1. CASE UNCHANGED vars
  BY <1>1 DEF vars, persistent, ram, TypeInv, TypeOK, JobOK, Working
<1>2. CASE Next
  BY <1>2, StartTypes, SessionTypes, JobStepTypes, BootTypes DEF Next
<1> QED
  BY <1>1, <1>2

(* Every page, hash, parameter record and cached key is of its kind, and   *)
(* every job that writes a secret has one: account_manager.c, keystore.c.  *)
THEOREM TypeCorrect == Spec => []TypeOK
<1>1. Init => TypeInv
  BY InitTypeInv
<1>2. TypeInv /\ [Next]_vars => TypeInv'
  BY NextTypeInv
<1>3. TypeInv => TypeOK
  BY DEF TypeInv
<1> QED
  BY <1>1, <1>2, <1>3, PTL DEF Spec

-----------------------------------------------------------------------------

(* When passwords are unique, CheckPasswordExisted finds every user of the *)
(* password, though it looks no further than the first.                    *)
LEMMA FreeMeansUnused ==
    ASSUME TypeInv, PasswordsUnique, NEW pw \in Passwords, NEW exclude,
           PasswordFree(pw, exclude),
           NEW b \in Accounts, b # exclude
    PROVE  pwHash[b] # pw
<1> SUFFICES ASSUME pwHash[b] = pw PROVE FALSE
  OBVIOUS
<1>1. pw # NoPassword
  BY KeystoreAssumption
<1>2. \A a \in Accounts : a < b => pwHash[a] # pw
  BY <1>1 DEF PasswordsUnique, Accounts
<1>3. Verifies(b, pw)
  BY <1>2 DEF Verifies
<1> QED
  BY <1>3 DEF PasswordFree

(* Only an erasure and the write of a hash touch the hashes. *)
LEMMA UniqueStep ==
    ASSUME Inv, [Next]_vars
    PROVE  PasswordsUnique' /\ Reserved'
<1> USE DEF Inv
<1>0. job.acct \in Accounts /\ TypeOK /\ TypeInv'
  BY NextTypeInv DEF TypeInv, TypeOK, Job
<1>1. ASSUME UNCHANGED pwHash,
             pc' \in {"load", "save", "param", "hash"} =>
                /\ pc \in {"load", "save", "param", "hash"}
                /\ job'.acct = job.acct /\ job'.new = job.new
      PROVE  PasswordsUnique' /\ Reserved'
  BY <1>1 DEF PasswordsUnique, Reserved
<1>2. ASSUME NEW p, Erase(job.acct, p), pc' \notin {"load", "save", "param", "hash"}
      PROVE  PasswordsUnique' /\ Reserved'
  BY <1>0, <1>2 DEF Erase, PasswordsUnique, Reserved, TypeOK
<1>3. CASE UNCHANGED vars
  BY <1>1, <1>3 DEF vars, persistent
<1>4. CASE StartJob
  <2>1. pc' \in {"erase", "check"} /\ UNCHANGED pwHash
    BY <1>4 DEF StartJob, ImportWallet, ForgetPassword, DeleteWallet,
                ChangePassword, Start, persistent
  <2> QED
    BY <1>1, <2>1
<1>5. CASE Session
  <2>1. UNCHANGED << pc, pwHash, job >>
    BY <1>5 DEF Session, Login, LogoutCurrentAccount, SaveCurrentAccountInfo,
                persistent
  <2> QED
    BY <1>1, <2>1
<1>6. CASE Crash
  BY <1>1, <1>6 DEF Crash, persistent
<1>7. CASE BootCheck
  <2>1. pc' \in {"boot", "bootErase", "idle"} /\ UNCHANGED pwHash
    BY <1>7 DEF BootCheck, NextAccount, Finish, Goto, persistent
  <2> QED
    BY <1>1, <2>1
<1>8. CASE BootErase
  <2>1. /\ pc' \in {"boot", "bootErase", "idle"}
        /\ Erase(job.acct, EraseOrder[step])
    BY <1>8 DEF BootErase, NextAccount, Finish, Goto
  <2> QED
    BY <1>2, <2>1
<1>9. CASE ErasePage
  BY <1>2, <1>9 DEF ErasePage, Goto
<1>10. CASE DestroyEnd \/ WriteName \/ WriteInfo \/ GeneratePublicInfo
           \/ LoginNewAccount \/ AteccFails
  <2>1. /\ pc' \in {"name", "check", "xpub", "login", "idle"}
        /\ UNCHANGED pwHash
    BY <1>10 DEF DestroyEnd, WriteName, WriteInfo, GeneratePublicInfo,
                 LoginNewAccount, AteccFails, Finish, Goto, persistent
  <2> QED
    BY <1>1, <2>1
<1>11. CASE LoadSecret
  <2>1. pc = "load" /\ UNCHANGED pwHash
    BY <1>11 DEF LoadSecret, persistent
  <2>2. pc' = "idle" \/ job' = [job EXCEPT !.secret = Loaded(job.acct)]
    BY <1>11 DEF LoadSecret, Finish, Goto
  <2>3. job \in Job
    BY <1>0 DEF TypeOK
  <2>4. pc' = "idle" \/ (job'.acct = job.acct /\ job'.new = job.new)
    BY <2>2, <2>3 DEF Job
  <2> QED
    BY <1>1, <2>1, <2>4
<1>12. CASE SavePage \/ WriteParam
  <2>1. pc \in {"save", "param"} /\ UNCHANGED << pwHash, job >>
    BY <1>12 DEF SavePage, WriteParam
  <2> QED
    BY <1>1, <2>1
<1>13. CASE CheckPassword
  <2>1. UNCHANGED pwHash /\ pc = "check" /\ job.kind \in {"create", "change"}
        /\ job.new \in Passwords
    BY <1>13 DEF CheckPassword, persistent, TypeInv, JobOK, Working
  <2>2. PasswordsUnique'
    BY <2>1 DEF PasswordsUnique
  <2>3. Reserved'
    <3> DEFINE exclude == IF job.kind = "change" THEN job.acct ELSE Logout
    <3>1. CASE ~PasswordFree(job.new, exclude)
      BY <1>13, <3>1 DEF CheckPassword, Finish, Goto, Reserved
    <3>2. CASE PasswordFree(job.new, exclude)
      <4>1. job' = job
        BY <1>13, <3>2 DEF CheckPassword
      <4>2. \A b \in Accounts \ {job.acct} : b # exclude
        BY LogoutNoAccount
      <4>3. \A b \in Accounts \ {job.acct} : pwHash[b] # job.new
        BY <2>1, <3>2, <4>2, FreeMeansUnused
      <4> QED
        BY <2>1, <4>1, <4>3 DEF Reserved
    <3> QED
      BY <3>1, <3>2
  <2> QED
    BY <2>2, <2>3
<1>14. CASE WriteHash
  <2>1. /\ pwHash' = [pwHash EXCEPT ![job.acct] = job.new]
        /\ pc = "hash" /\ pc' \in {"info", "idle"}
    BY <1>14 DEF WriteHash, Finish, Goto
  <2>2. \A b \in Accounts \ {job.acct} :
           pwHash'[b] = pwHash[b] /\ pwHash'[b] # job.new
    BY <2>1 DEF Reserved, TypeInv, TypeOK
  <2>3. pwHash'[job.acct] = job.new
    BY <1>0, <2>1 DEF TypeOK
  <2>4. ASSUME NEW a \in Accounts, NEW b \in Accounts, a # b,
               pwHash'[a] = pwHash'[b]
        PROVE  pwHash'[a] = NoPassword
    <3>1. a # job.acct /\ b # job.acct
      BY <2>2, <2>3, <2>4
    <3> QED
      BY <2>2, <2>4, <3>1 DEF PasswordsUnique
  <2> QED
    BY <2>1, <2>4 DEF PasswordsUnique, Reserved
<1> QED
  BY <1>3, <1>4, <1>5, <1>6, <1>7, <1>8, <1>9, <1>10, <1>11, <1>12, <1>13,
     <1>14 DEF Next, JobStep, Boot

(* No two accounts ever share a password: CheckPasswordExisted is asked    *)
(* before the pages are written and its answer still holds at the write of *)
(* the hash, whatever crashes and errors lie between.                      *)
THEOREM PasswordsStayUnique == Spec => []PasswordsUnique
<1>1. Init => Inv
  <2>1. Init => PasswordsUnique /\ Reserved
    BY DEF Init, PasswordsUnique, Reserved
  <2> QED
    BY <2>1, InitTypeInv DEF Inv
<1>2. Inv /\ [Next]_vars => Inv'
  BY NextTypeInv, UniqueStep DEF Inv
<1>3. Inv => PasswordsUnique
  BY DEF Inv
<1> QED
  BY <1>1, <1>2, <1>3, PTL DEF Spec

-----------------------------------------------------------------------------
(* What a wallet is made of.                                               *)

(* VerifyPassword finds the account, and it is not offered as blank. *)
Unlockable(a) == pwHash[a] # NoPassword /\ page[a]["iv"] # Blank

(* Every page, the parameters and the cached keys are those of secret s. *)
Holds(a, s) ==
    /\ \A p \in SecretPages : page[a][p] # Blank /\ page[a][p].secret = s
    /\ param[a].owner = s /\ param[a].kind = KindOf[s]
    /\ xpub[a] \in {s, NoSecret}

Whole(a) ==
    Unlockable(a) =>
        /\ Holds(a, page[a]["iv"].secret)
        /\ a \notin torn => CanLoad(a, pwHash[a])

WholeInv == \A a \in Accounts : Whole(a)

(* The record of the current account in RAM, which a later save writes. *)
InfoInv ==
    cur \in Accounts /\ Unlockable(cur) =>
        /\ info.owner = page[cur]["iv"].secret
        /\ info.kind = KindOf[page[cur]["iv"].secret]

(* The two blankness tests differ only in what the boot has still to check *)
(* and in the account of a job that erases or creates.                     *)
Agrees(a) == (page[a]["iv"] = Blank) = (pwHash[a] = NoPassword)

AgreeInv ==
    \A a \in Accounts :
        \/ Agrees(a)
        \/ pc \in {"boot", "bootErase"} /\ a >= job.acct
        \/ pc \in {"erase", "save", "param", "hash"} /\ a = job.acct

(* What an erasure has done so far. *)
EraseInv ==
    /\ pc \in {"erase", "bootErase"} =>
           /\ step \in 1 .. Len(EraseOrder)
           /\ step > 1 => page[job.acct]["iv"] = Blank
           /\ step > 9 => pwHash[job.acct] = NoPassword
    /\ pc = "erased" =>
           page[job.acct]["iv"] = Blank /\ pwHash[job.acct] = NoPassword

(* What a create job has done so far. *)
CreateInv ==
    job.kind = "create" /\ pc \in Working =>
        /\ cur = job.acct /\ pc # "load"
        /\ info.kind = KindOf[job.secret]
        /\ pc \in {"name", "check", "save", "param", "hash"} =>
               pwHash[job.acct] = NoPassword /\ xpub[job.acct] = NoSecret
        /\ pc \in {"name", "check"} => page[job.acct]["iv"] = Blank
        /\ pc = "save" => (step <= 5 <=> page[job.acct]["iv"] = Blank)
        /\ pc \in {"param", "hash", "info"} => info.owner = job.secret
        /\ pc = "hash" => /\ param[job.acct].owner = job.secret
                          /\ param[job.acct].kind = KindOf[job.secret]

(* What a change job has done so far: it rewrites the same secret. *)
ChangeInv ==
    job.kind = "change" /\ pc \in Working =>
        /\ pc \in {"check", "load", "save", "hash"}
        /\ pc \in {"save", "hash"} =>
               Unlockable(job.acct) /\ page[job.acct]["iv"].secret = job.secret
        /\ pc = "save" /\ step = 1 => CanLoad(job.acct, job.old)

(* What SaveAccountSecret has written so far. *)
Saved == [nonce |-> nonce, secret |-> job.secret, password |-> job.new]

SaveInv ==
    /\ pc = "save" => step \in 1 .. Len(SaveOrder)
    /\ pc \in {"save", "param", "hash"} =>
           \A i \in 1 .. Len(SaveOrder) :
               pc # "save" \/ i < step => page[job.acct][SaveOrder[i]] = Saved

JobsInv == AgreeInv /\ EraseInv /\ CreateInv /\ ChangeInv /\ SaveInv

WalletInv == Inv /\ WholeInv /\ InfoInv /\ JobsInv

-----------------------------------------------------------------------------
(* Each step keeps the wallets whole.                                      *)

LEMMA WalletInit == Init => WalletInv
<1> SUFFICES ASSUME Init PROVE WalletInv
  OBVIOUS
<1>1. Inv
  <2>1. PasswordsUnique /\ Reserved
    BY DEF Init, PasswordsUnique, Reserved
  <2> QED
    BY <2>1, InitTypeInv DEF Inv
<1>2. WholeInv /\ InfoInv
  BY LogoutNoAccount DEF Init, WholeInv, Whole, Unlockable, InfoInv
<1>3. JobsInv
  BY PagesKnown DEF Init, JobsInv, AgreeInv, Agrees, EraseInv, CreateInv, ChangeInv, SaveInv, Working
<1> QED
  BY <1>1, <1>2, <1>3 DEF WalletInv

(* An account none of whose pages is touched stays whole. *)
LEMMA WholeKept ==
    ASSUME NEW a \in Accounts, Whole(a),
           page'[a] = page[a], pwHash'[a] = pwHash[a], param'[a] = param[a],
           xpub'[a] = xpub[a], torn' \cap {a} = torn \cap {a}
    PROVE  Whole(a)'
BY DEF Whole, Unlockable, Holds, CanLoad

LEMMA NothingWritten ==
    ASSUME WalletInv, UNCHANGED << persistent, torn >>
    PROVE  WholeInv'
BY WholeKept DEF WalletInv, WholeInv, persistent

LEMMA JobAccount ==
    ASSUME TypeOK
    PROVE  /\ job \in Job /\ job.acct \in Accounts /\ job.acct \in Nat
           /\ job.new \in Passwords \cup {NoPassword}
           /\ job.secret \in Secrets \cup {NoSecret}
           /\ Accounts \subseteq Nat
BY DEF TypeOK, Job, Accounts

LEMMA StartWhole ==
    ASSUME WalletInv, StartJob
    PROVE  WholeInv' /\ InfoInv' /\ JobsInv'
<1>1. /\ UNCHANGED << persistent, ram, nonce, torn >>
      /\ pc = "idle"
      /\ \/ pc' = "erase" /\ step' = 1 /\ job'.kind \in {"create", "delete"}
         \/ pc' = "check" /\ job'.kind = "change"
  BY DEF StartJob, ImportWallet, ForgetPassword, DeleteWallet, ChangePassword, Start, NewJob
<1>2. WholeInv'
  BY <1>1, NothingWritten
<1>3. InfoInv'
  BY <1>1 DEF WalletInv, InfoInv, Unlockable, persistent, ram
<1>4. \A a \in Accounts : Agrees(a)'
  BY <1>1 DEF WalletInv, JobsInv, AgreeInv, Agrees, persistent
<1>5. JobsInv'
  BY <1>1, <1>4 DEF JobsInv, AgreeInv, EraseInv, CreateInv, ChangeInv, SaveInv, Working, EraseOrder
<1> QED
  BY <1>2, <1>3, <1>5

(* What a password opens is the wallet that the IV page belongs to. *)
LEMMA LoadedHeld ==
    ASSUME WholeInv, NEW a \in Accounts, NEW pw, CanLoad(a, pw)
    PROVE  page[a]["iv"] # Blank /\ Loaded(a) = page[a]["iv"].secret
BY PagesKnown DEF CanLoad, Loaded

LEMMA SessionWhole ==
    ASSUME WalletInv, Session
    PROVE  WholeInv' /\ InfoInv' /\ JobsInv'
<1> USE DEF WalletInv, Inv, TypeInv
<1>1. UNCHANGED << pc, step, job, nonce, torn, page, pwHash >> /\ pc = "idle"
  BY DEF Session, Login, LogoutCurrentAccount, SaveCurrentAccountInfo, persistent
<1>2. JobsInv'
  BY <1>1 DEF JobsInv, AgreeInv, Agrees, EraseInv, CreateInv, ChangeInv, SaveInv, Working
<1>3. WholeInv' /\ InfoInv'
  <2>1. CASE LogoutCurrentAccount
    BY <2>1, NothingWritten, LogoutNoAccount DEF LogoutCurrentAccount, InfoInv, persistent
  <2>2. CASE SaveCurrentAccountInfo
    <3>1. /\ cur \in Accounts /\ param' = [param EXCEPT ![cur] = info]
          /\ UNCHANGED << xpub, ram >>
      BY <2>2 DEF SaveCurrentAccountInfo
    <3>2. Whole(cur)'
      BY <1>1, <3>1 DEF WholeInv, Whole, Holds, Unlockable, InfoInv, CanLoad, TypeOK, ram
    <3>3. \A a \in Accounts \ {cur} : Whole(a)'
      BY <1>1, <3>1, WholeKept DEF WholeInv, TypeOK
    <3>4. InfoInv'
      BY <1>1, <3>1 DEF InfoInv, Unlockable, ram
    <3> QED
      BY <3>1, <3>2, <3>3, <3>4 DEF WholeInv, ram
  <2>3. CASE \E pw \in Passwords : Login(pw)
    <3>1. PICK pw \in Passwords : LoginEffect(pw) /\ UNCHANGED param
      BY <2>3 DEF Login
    <3>2. CASE UNCHANGED << xpub, ram >>
      BY <1>1, <3>1, <3>2, NothingWritten DEF InfoInv, Unlockable, persistent, ram
    <3>3. CASE ~ UNCHANGED << xpub, ram >>
      <4>1. PICK a \in Accounts :
              /\ Verifies(a, pw) /\ cur' = a /\ info' = param[a]
              /\ xpub' = IF xpub[a] = NoSecret /\ CanLoad(a, pw)
                         THEN [xpub EXCEPT ![a] = Loaded(a)] ELSE xpub
        BY <3>1, <3>3 DEF LoginEffect
      <4>2. Whole(a)'
        BY <1>1, <3>1, <4>1, LoadedHeld DEF WholeInv, Whole, Holds, Unlockable, CanLoad, TypeOK
      <4>3. \A b \in Accounts \ {a} : Whole(b)'
        BY <1>1, <3>1, <4>1, WholeKept DEF WholeInv, TypeOK
      <4>4. InfoInv'
        BY <1>1, <3>1, <4>1 DEF InfoInv, WholeInv, Whole, Holds, Unlockable
      <4> QED
        BY <4>2, <4>3, <4>4 DEF WholeInv
    <3> QED
      BY <3>2, <3>3
  <2> QED
    BY <2>1, <2>2, <2>3 DEF Session
<1> QED
  BY <1>2, <1>3

(* Erasing a page of an account whose IV is blank, or the IV itself. *)
LEMMA EraseWhole ==
    ASSUME WalletInv, NEW a \in Accounts, NEW p, Erase(a, p), UNCHANGED << xpub, ram >>,
           p = "iv" \/ page[a]["iv"] = Blank
    PROVE  WholeInv' /\ InfoInv'
<1> USE DEF WalletInv, Inv, TypeInv
<1>1. page'[a]["iv"] = Blank
  BY PagesKnown DEF Erase, TypeOK
<1>2. \A b \in Accounts \ {a} :
         /\ page'[b] = page[b] /\ pwHash'[b] = pwHash[b] /\ param'[b] = param[b]
         /\ torn' \cap {b} = torn \cap {b}
  BY DEF Erase, TypeOK
<1>3. \A b \in Accounts \ {a} : Whole(b)'
  BY <1>2, WholeKept DEF WholeInv
<1>4. Whole(a)'
  BY <1>1 DEF Whole, Unlockable
<1>5. InfoInv'
  BY <1>1, <1>2 DEF InfoInv, Unlockable, ram
<1> QED
  BY <1>3, <1>4, <1>5 DEF WholeInv

(* An erasure has erased the pages up to its step. *)
LEMMA EraseProgress ==
    ASSUME TypeOK, NEW a \in Accounts, step \in 1 .. Len(EraseOrder), Erase(a, EraseOrder[step]),
           step > 1 => page[a]["iv"] = Blank, step > 9 => pwHash[a] = NoPassword
    PROVE  /\ page'[a]["iv"] = Blank
           /\ step >= 9 => pwHash'[a] = NoPassword
           /\ \A b \in Accounts \ {a} : page'[b] = page[b] /\ pwHash'[b] = pwHash[b]
<1>1. step \in Nat /\ (step = 1 => EraseOrder[step] = "iv")
        /\ (step = 9 => EraseOrder[step] = "pwHash")
  BY DEF EraseOrder
<1>2. page'[a]["iv"] = Blank
  BY <1>1, PagesKnown DEF Erase, TypeOK
<1>3. step >= 9 => pwHash'[a] = NoPassword
  BY <1>1 DEF Erase, TypeOK
<1> QED
  BY <1>2, <1>3 DEF Erase, TypeOK

LEMMA EraseFirst ==
    ASSUME TypeOK, step \in 1 .. Len(EraseOrder), step > 1 => page[job.acct]["iv"] = Blank
    PROVE  EraseOrder[step] = "iv" \/ page[job.acct]["iv"] = Blank
BY DEF EraseOrder

LEMMA ErasePageWhole ==
    ASSUME WalletInv, ErasePage
    PROVE  WholeInv' /\ InfoInv' /\ JobsInv'
<1> USE DEF WalletInv, Inv, TypeInv
<1> PICK a \in Accounts : a = job.acct
  BY JobAccount
<1>1. /\ pc = "erase" /\ Erase(a, EraseOrder[step]) /\ UNCHANGED << xpub, ram, job, nonce >>
      /\ step \in 1 .. Len(EraseOrder)
      /\ step > 1 => page[a]["iv"] = Blank
      /\ step > 9 => pwHash[a] = NoPassword
      /\ \/ step < Len(EraseOrder) /\ pc' = "erase" /\ step' = step + 1
         \/ step = Len(EraseOrder) /\ pc' = "erased" /\ step' = 0
  BY DEF ErasePage, Goto, JobsInv, EraseInv
<1>2. /\ page'[a]["iv"] = Blank
      /\ step >= 9 => pwHash'[a] = NoPassword
      /\ \A b \in Accounts \ {a} : page'[b] = page[b] /\ pwHash'[b] = pwHash[b]
  BY <1>1, EraseProgress
<1>3. WholeInv' /\ InfoInv'
  BY <1>1, EraseWhole, EraseFirst
<1>4. AgreeInv'
  BY <1>1, <1>2 DEF JobsInv, AgreeInv, Agrees, EraseOrder
<1>5. EraseInv'
  BY <1>1, <1>2 DEF EraseInv, EraseOrder
<1>6. CreateInv' /\ ChangeInv' /\ SaveInv'
  BY <1>1 DEF CreateInv, ChangeInv, SaveInv, Working
<1> QED
  BY <1>3, <1>4, <1>5, <1>6 DEF JobsInv

LEMMA DestroyEndWhole ==
    ASSUME WalletInv, DestroyEnd
    PROVE  WholeInv' /\ InfoInv' /\ JobsInv'
<1> USE DEF WalletInv, Inv, TypeInv
<1> PICK a \in Accounts : a = job.acct
  BY JobAccount
<1>1. /\ pc = "erased" /\ UNCHANGED << page, pwHash, param, nonce, torn >>
      /\ xpub' = [xpub EXCEPT ![a] = NoSecret]
      /\ page[a]["iv"] = Blank /\ pwHash[a] = NoPassword
      /\ \/ /\ job.kind = "create" /\ job' = job /\ cur' = a /\ pc' = "name" /\ step' = 0
            /\ info'.kind = KindOf[job.secret]
         \/ pc' = "idle" /\ cur' = Logout
  BY DEF DestroyEnd, Goto, Finish, JobsInv, EraseInv, NoInfo
<1>2. WholeInv'
  <2>1. Whole(a)'
    BY <1>1 DEF Whole, Unlockable
  <2>2. \A b \in Accounts \ {a} : Whole(b)'
    BY <1>1, WholeKept DEF WholeInv, TypeOK
  <2> QED
    BY <2>1, <2>2 DEF WholeInv
<1>3. InfoInv'
  BY <1>1, LogoutNoAccount DEF InfoInv, Unlockable
<1>4. AgreeInv'
  BY <1>1 DEF JobsInv, AgreeInv, Agrees
<1>5. CreateInv'
  BY <1>1 DEF CreateInv, TypeOK, Working
<1>6. EraseInv' /\ ChangeInv' /\ SaveInv'
  BY <1>1 DEF EraseInv, ChangeInv, SaveInv, Working
<1> QED
  BY <1>2, <1>3, <1>4, <1>5, <1>6 DEF JobsInv

(* The three steps of a job that save the parameters. *)
LEMMA ParamWhole ==
    ASSUME WalletInv, WriteName \/ WriteParam \/ WriteInfo
    PROVE  WholeInv' /\ InfoInv' /\ JobsInv'
<1> USE DEF WalletInv, Inv, TypeInv
<1> PICK a \in Accounts : a = job.acct
  BY JobAccount
<1>1. /\ UNCHANGED << page, pwHash, xpub, ram, job, nonce, torn >>
      /\ param' = [param EXCEPT ![cur] = info]
      /\ \/ pc = "name" /\ pc' = "check"
         \/ pc = "param" /\ pc' = "hash"
         \/ pc = "info" /\ pc' = "xpub"
  BY DEF WriteName, WriteParam, WriteInfo, Goto
<1>2. /\ pc \in Working /\ pc' \in Working /\ job.kind = "create" /\ cur = a
  BY <1>1 DEF JobsInv, ChangeInv, CreateInv, JobOK, Working
<1>3. Whole(a)'
  BY <1>1, <1>2 DEF WholeInv, Whole, Holds, Unlockable, InfoInv, CanLoad, TypeOK, ram
<1>4. \A b \in Accounts \ {a} : Whole(b)'
  BY <1>1, <1>2, WholeKept DEF WholeInv, TypeOK
<1>5. InfoInv'
  BY <1>1 DEF InfoInv, Unlockable, ram
<1>6. AgreeInv'
  BY <1>1 DEF JobsInv, AgreeInv, Agrees, CreateInv
<1>7. CreateInv'
  BY <1>1, <1>2 DEF JobsInv, CreateInv, TypeOK, ram
<1>8. EraseInv' /\ ChangeInv' /\ SaveInv'
  BY <1>1, <1>2 DEF JobsInv, EraseInv, ChangeInv, SaveInv, Saved
<1> QED
  BY <1>3, <1>4, <1>5, <1>6, <1>7, <1>8 DEF WholeInv, JobsInv

LEMMA CheckPasswordWhole ==
    ASSUME WalletInv, CheckPassword
    PROVE  WholeInv' /\ InfoInv' /\ JobsInv'
<1> USE DEF WalletInv, Inv, TypeInv
<1>1. /\ pc = "check" /\ UNCHANGED << persistent, ram, torn >>
      /\ \/ pc' = "idle"
         \/ job.kind = "change" /\ pc' = "load" /\ job' = job
         \/ job.kind # "change" /\ pc' = "save" /\ job' = job /\ step' = 1
  BY DEF CheckPassword, Finish, Goto
<1>2. WholeInv'
  BY <1>1, NothingWritten
<1>3. InfoInv'
  BY <1>1 DEF InfoInv, Unlockable, persistent, ram
<1>4. \A b \in Accounts : Agrees(b)'
  BY <1>1 DEF JobsInv, AgreeInv, Agrees, persistent
<1>5. CreateInv' /\ ChangeInv'
  BY <1>1 DEF JobsInv, CreateInv, ChangeInv, Working, persistent, ram
<1>6. EraseInv' /\ SaveInv'
  BY <1>1 DEF EraseInv, SaveInv, SaveOrder
<1> QED
  BY <1>2, <1>3, <1>4, <1>5, <1>6 DEF JobsInv, AgreeInv

LEMMA LoadSecretWhole ==
    ASSUME WalletInv, LoadSecret
    PROVE  WholeInv' /\ InfoInv' /\ JobsInv'
<1> USE DEF WalletInv, Inv, TypeInv
<1> PICK a \in Accounts : a = job.acct
  BY JobAccount
<1>1. /\ pc = "load" /\ UNCHANGED << persistent, ram, torn >>
      /\ \/ pc' = "idle"
         \/ /\ CanLoad(a, job.old) /\ pc' = "save" /\ step' = 1
            /\ job' = [job EXCEPT !.secret = Loaded(a)]
  BY DEF LoadSecret, Finish, Goto
<1>2. WholeInv'
  BY <1>1, NothingWritten
<1>3. InfoInv'
  BY <1>1 DEF InfoInv, Unlockable, persistent, ram
<1>4. \A b \in Accounts : Agrees(b)'
  BY <1>1 DEF JobsInv, AgreeInv, Agrees, persistent
<1>5. CreateInv' /\ ChangeInv'
  <2>1. CASE pc' = "idle"
    BY <2>1 DEF CreateInv, ChangeInv, Working
  <2>2. CASE pc' # "idle"
    <3>1. /\ job'.kind = job.kind /\ job'.acct = a /\ job'.old = job.old
          /\ job'.secret = Loaded(a) /\ job.kind \in {"create", "change"}
      BY <1>1, <2>2, JobAccount DEF Job, JobOK, Working
    <3>2. Agrees(a)
      BY <1>1 DEF JobsInv, AgreeInv
    <3>3. Unlockable(a) /\ Loaded(a) = page[a]["iv"].secret
      BY <1>1, <2>2, <3>2, LoadedHeld DEF Agrees, Unlockable
    <3>4. Unlockable(a)' /\ CanLoad(a, job.old)' /\ page'[a]["iv"].secret = Loaded(a)
      BY <1>1, <2>2, <3>1, <3>3 DEF Unlockable, CanLoad, persistent
    <3>5. ChangeInv'
      BY <1>1, <2>2, <3>1, <3>4 DEF ChangeInv
    <3>6. job.kind = "change"
      BY <1>1, <3>1 DEF JobsInv, CreateInv, ChangeInv, Working
    <3> QED
      BY <3>1, <3>5, <3>6 DEF CreateInv
  <2> QED
    BY <2>1, <2>2
<1>6. EraseInv' /\ SaveInv'
  BY <1>1 DEF EraseInv, SaveInv, SaveOrder
<1> QED
  BY <1>2, <1>3, <1>4, <1>5, <1>6 DEF JobsInv, AgreeInv

(* AteccFails leaves a create job before the IV is written. *)
LEMMA AteccFailsWhole ==
    ASSUME WalletInv, AteccFails
    PROVE  WholeInv' /\ InfoInv' /\ JobsInv'
<1> USE DEF WalletInv, Inv, TypeInv
<1>1. /\ UNCHANGED << persistent, ram, nonce, torn >> /\ pc' = "idle"
      /\ (pc = "save" /\ step \in 1 .. 4) \/ pc \in {"load", "xpub"}
  BY DEF AteccFails, Finish, Goto
<1>2. WholeInv'
  BY <1>1, NothingWritten
<1>3. InfoInv'
  BY <1>1 DEF InfoInv, Unlockable, persistent, ram
<1>4. \A b \in Accounts : Agrees(b)
  BY <1>1 DEF JobsInv, AgreeInv, Agrees, CreateInv, ChangeInv, Unlockable, JobOK, Working
<1>5. \A b \in Accounts : Agrees(b)'
  BY <1>1, <1>4 DEF Agrees, persistent
<1>6. EraseInv' /\ CreateInv' /\ ChangeInv' /\ SaveInv'
  BY <1>1 DEF EraseInv, CreateInv, ChangeInv, SaveInv, Working
<1> QED
  BY <1>2, <1>3, <1>5, <1>6 DEF JobsInv, AgreeInv

LEMMA GenerateWhole ==
    ASSUME WalletInv, GeneratePublicInfo
    PROVE  WholeInv' /\ InfoInv' /\ JobsInv'
<1> USE DEF WalletInv, Inv, TypeInv
<1> PICK a \in Accounts : a = job.acct
  BY JobAccount
<1>1. /\ pc = "xpub" /\ pc' = "login" /\ CanLoad(a, job.new)
      /\ xpub' = [xpub EXCEPT ![a] = Loaded(a)]
      /\ UNCHANGED << page, pwHash, param, ram, job, nonce, torn >>
  BY DEF GeneratePublicInfo, Goto
<1>2. Whole(a)'
  <2>1. xpub'[a] = page'[a]["iv"].secret
    BY <1>1, LoadedHeld DEF TypeOK
  <2>2. a \notin torn' /\ Unlockable(a)' => CanLoad(a, pwHash[a])'
    BY <1>1 DEF WholeInv, Whole, Unlockable, CanLoad
  <2>3. Unlockable(a)' => Holds(a, page[a]["iv"].secret)'
    BY <1>1, <2>1 DEF WholeInv, Whole, Holds, Unlockable
  <2> QED
    BY <1>1, <2>2, <2>3 DEF Whole
<1>3. \A b \in Accounts \ {a} : Whole(b)'
  BY <1>1, WholeKept DEF WholeInv, TypeOK
<1>4. InfoInv'
  BY <1>1 DEF InfoInv, Unlockable, ram
<1>5. JobsInv'
  BY <1>1 DEF JobsInv, AgreeInv, Agrees, EraseInv, CreateInv, ChangeInv, SaveInv, Working, ram
<1> QED
  BY <1>2, <1>3, <1>4, <1>5 DEF WholeInv

LEMMA LoginNewWhole ==
    ASSUME WalletInv, LoginNewAccount
    PROVE  WholeInv' /\ InfoInv' /\ JobsInv'
<1> USE DEF WalletInv, Inv, TypeInv
<1>1. PICK a \in Accounts :
         /\ Verifies(a, job.new) /\ info' = param[a] /\ cur' \in {a, Logout}
         /\ UNCHANGED << persistent, nonce, torn >> /\ pc = "login" /\ pc' = "idle"
  BY DEF LoginNewAccount, Finish, Goto
<1>2. WholeInv'
  BY <1>1, NothingWritten
<1>3. InfoInv'
  BY <1>1, LogoutNoAccount DEF InfoInv, WholeInv, Whole, Holds, Unlockable, persistent
<1>4. JobsInv'
  BY <1>1 DEF JobsInv, AgreeInv, Agrees, EraseInv, CreateInv, ChangeInv, SaveInv, Working, persistent
<1> QED
  BY <1>2, <1>3, <1>4

LEMMA CrashWhole ==
    ASSUME WalletInv, Crash
    PROVE  WholeInv' /\ InfoInv' /\ JobsInv'
<1> USE DEF WalletInv, Inv, TypeInv
<1>1. /\ UNCHANGED << persistent, nonce, torn >> /\ pc' = "boot" /\ cur' = Logout
      /\ job'.acct = 0
  BY DEF Crash, NoJob, NewJob
<1>2. WholeInv'
  BY <1>1, NothingWritten
<1>3. InfoInv'
  BY <1>1, LogoutNoAccount DEF InfoInv
<1>4. JobsInv'
  BY <1>1, JobAccount DEF JobsInv, AgreeInv, EraseInv, CreateInv, ChangeInv, SaveInv, Working
<1> QED
  BY <1>2, <1>3, <1>4

(* The scan of the boot leaves an account behind only when it agrees. *)
LEMMA NextAccountAgrees ==
    ASSUME WalletInv, pc \in {"boot", "bootErase"}, NextAccount,
           NEW a \in Accounts, a = job.acct, Agrees(a)',
           \A b \in Accounts \ {a} : page'[b] = page[b] /\ pwHash'[b] = pwHash[b]
    PROVE  JobsInv'
<1> USE DEF WalletInv, Inv, TypeInv
<1>1. \/ pc' = "idle" /\ a + 1 \notin Accounts
      \/ pc' = "boot" /\ job'.acct = a + 1
  BY JobAccount DEF NextAccount, Finish, Goto, Job
<1>2. \A b \in Accounts \ {a} : b < a => Agrees(b)'
  BY JobAccount DEF JobsInv, AgreeInv, Agrees
<1>3. Accounts = 0 .. NumAccounts - 1 /\ NumAccounts \in Nat
  BY KeystoreAssumption DEF Accounts
<1>4. AgreeInv'
  BY <1>1, <1>2, <1>3 DEF AgreeInv
<1>5. EraseInv' /\ CreateInv' /\ ChangeInv' /\ SaveInv'
  BY <1>1 DEF EraseInv, CreateInv, ChangeInv, SaveInv, Working
<1> QED
  BY <1>4, <1>5 DEF JobsInv

LEMMA BootWhole ==
    ASSUME WalletInv, Boot
    PROVE  WholeInv' /\ InfoInv' /\ JobsInv'
<1> USE DEF WalletInv, Inv, TypeInv
<1> PICK a \in Accounts : a = job.acct
  BY JobAccount
<1>1. CASE BootCheck
  <2>1. /\ pc = "boot" /\ UNCHANGED << persistent, ram, nonce, torn >>
        /\ \/ job' = job /\ pc' = "bootErase" /\ step' = 1
           \/ Agrees(a) /\ NextAccount
    BY <1>1 DEF BootCheck, Goto, Agrees
  <2>2. WholeInv' /\ InfoInv'
    BY <2>1, NothingWritten DEF InfoInv, Unlockable, persistent, ram
  <2>3. CASE job' = job /\ pc' = "bootErase" /\ step' = 1
    <3>1. AgreeInv'
      BY <2>1, <2>3 DEF JobsInv, AgreeInv, Agrees, persistent
    <3>2. EraseInv' /\ CreateInv' /\ ChangeInv' /\ SaveInv'
      BY <2>3 DEF EraseInv, CreateInv, ChangeInv, SaveInv, Working, EraseOrder
    <3> QED
      BY <2>2, <3>1, <3>2 DEF JobsInv
  <2>4. CASE Agrees(a) /\ NextAccount
    <3>1. Agrees(a)' /\ \A b \in Accounts : page'[b] = page[b] /\ pwHash'[b] = pwHash[b]
      BY <2>1, <2>4 DEF Agrees, persistent
    <3> QED
      BY <2>1, <2>2, <2>4, <3>1, NextAccountAgrees
  <2> QED
    BY <2>1, <2>2, <2>3, <2>4
<1>2. CASE BootErase
  <2>1. /\ pc = "bootErase" /\ Erase(a, EraseOrder[step]) /\ UNCHANGED << xpub, ram, nonce >>
        /\ step \in 1 .. Len(EraseOrder)
        /\ step > 1 => page[a]["iv"] = Blank
        /\ step > 9 => pwHash[a] = NoPassword
        /\ \/ step < Len(EraseOrder) /\ pc' = "bootErase" /\ step' = step + 1 /\ job' = job
           \/ step = Len(EraseOrder) /\ NextAccount
    BY <1>2 DEF BootErase, Goto, JobsInv, EraseInv
  <2>2. /\ page'[a]["iv"] = Blank
        /\ step >= 9 => pwHash'[a] = NoPassword
        /\ \A b \in Accounts \ {a} : page'[b] = page[b] /\ pwHash'[b] = pwHash[b]
    BY <2>1, EraseProgress
  <2>3. WholeInv' /\ InfoInv'
    BY <2>1, EraseWhole, EraseFirst
  <2>4. CASE step < Len(EraseOrder)
    <3>1. pc' = "bootErase" /\ step' = step + 1 /\ job' = job
      BY <2>1, <2>4
    <3>2. AgreeInv'
      BY <2>1, <2>2, <3>1 DEF JobsInv, AgreeInv, Agrees, Accounts
    <3>3. EraseInv'
      BY <2>1, <2>2, <2>4, <3>1 DEF EraseInv, EraseOrder
    <3>4. CreateInv' /\ ChangeInv' /\ SaveInv'
      BY <3>1 DEF CreateInv, ChangeInv, SaveInv, Working
    <3> QED
      BY <2>3, <3>2, <3>3, <3>4 DEF JobsInv
  <2>5. CASE step = Len(EraseOrder)
    <3>1. Agrees(a)'
      BY <2>2, <2>5 DEF Agrees, EraseOrder
    <3> QED
      BY <2>1, <2>2, <2>3, <2>5, <3>1, NextAccountAgrees
  <2> QED
    BY <2>1, <2>4, <2>5
<1> QED
  BY <1>1, <1>2 DEF Boot

(* The pages are written one by one, each once. *)
LEMMA PageOrder ==
    /\ \A i \in 1 .. Len(SaveOrder) : SaveOrder[i] \in SecretPages
    /\ \A p \in SecretPages : \E i \in 1 .. Len(SaveOrder) : SaveOrder[i] = p
    /\ \A i, j \in 1 .. Len(SaveOrder) : SaveOrder[i] = SaveOrder[j] => i = j
    /\ SaveOrder[1] = "auth" /\ SaveOrder[5] = "iv" /\ SaveOrder[11] = "hmac"
    /\ Len(SaveOrder) = 11
<1>1. /\ Len(SaveOrder) = 11
      /\ SaveOrder[1] = "auth" /\ SaveOrder[5] = "iv" /\ SaveOrder[11] = "hmac"
  BY DEF SaveOrder
<1>2. \A i \in 1 .. 11 : SaveOrder[i] \in SecretPages
  BY <1>1 DEF SecretPages
<1>3. \A p \in SecretPages : \E i \in 1 .. 11 : SaveOrder[i] = p
  BY <1>1 DEF SecretPages
<1>4. \A i, j \in 1 .. 11 : SaveOrder[i] = SaveOrder[j] => i = j
  BY DEF SaveOrder
<1> QED
  BY <1>1, <1>2, <1>3, <1>4

LEMMA SavedData ==
    ASSUME WalletInv, pc \in {"save", "param", "hash"}
    PROVE  Saved \in Data /\ Saved # Blank
<1> USE DEF WalletInv, Inv, TypeInv
<1>1. /\ job.acct \in Accounts /\ job.new \in Passwords
      /\ job.kind = "create" \/ pc = "save" \/ (pc = "hash" /\ job.kind = "change")
  <2>1. job.acct \in Accounts /\ pc \in Working
    BY JobAccount DEF Working
  <2>2. job.kind \in {"create", "change"} /\ job.new \in Passwords
    BY <2>1 DEF JobOK
  <2>3. job.kind = "change" => pc # "param"
    BY <2>1 DEF JobsInv, ChangeInv
  <2> QED
    BY <2>1, <2>2, <2>3
<1>2. job.secret \in Secrets
  <2>1. CASE job.kind = "create" \/ pc = "save"
    BY <2>1 DEF JobOK
  <2>2. CASE pc = "hash" /\ job.kind = "change"
    <3>1. page[job.acct]["iv"] \in Data /\ page[job.acct]["iv"].secret = job.secret
      BY <1>1, <2>2, PagesKnown DEF JobsInv, ChangeInv, Unlockable, TypeOK, Working
    <3> QED
      BY <3>1 DEF Data
  <2> QED
    BY <1>1, <2>1, <2>2
<1>3. Saved \in Data
  BY <1>1, <1>2 DEF Saved, Data, TypeOK
<1> QED
  BY <1>3, KeystoreAssumption DEF Data

(* One page of the job's account is written. *)
LEMMA SavePageEffect ==
    ASSUME WalletInv, SavePage, NEW a \in Accounts, a = job.acct
    PROVE  /\ pc = "save" /\ step \in 1 .. 11 /\ Saved' = Saved
           /\ page'[a][SaveOrder[step]] = Saved
           /\ \A p \in SecretPages \ {SaveOrder[step]} : page'[a][p] = page[a][p]
           /\ \A b \in Accounts \ {a} : page'[b] = page[b]
           /\ UNCHANGED << pwHash, param, xpub, cur, job, nonce >>
           /\ \A i \in 1 .. step : page'[a][SaveOrder[i]] = Saved
           /\ torn' \subseteq torn \cup {a} /\ torn \subseteq torn'
           /\ job.kind = "change" => a \in torn'
           /\ \/ step < 11 /\ pc' = "save" /\ step' = step + 1 /\ info' = info
              \/ /\ step = 11 /\ job.kind = "create" /\ pc' = "param" /\ info'.owner = job.secret
                 /\ info'.kind = info.kind
              \/ step = 11 /\ job.kind = "change" /\ pc' = "hash" /\ info' = info
<1> USE DEF WalletInv, Inv, TypeInv
<1>1. /\ pc = "save" /\ step \in 1 .. 11 /\ UNCHANGED << pwHash, param, xpub, cur, job, nonce >>
      /\ page' = [page EXCEPT ![a][SaveOrder[step]] = Saved]
  BY PageOrder DEF SavePage, JobsInv, SaveInv, Saved
<1>2. SaveOrder[step] \in SecretPages
  BY <1>1, PageOrder
<1>3. /\ page'[a][SaveOrder[step]] = Saved
      /\ \A p \in SecretPages \ {SaveOrder[step]} : page'[a][p] = page[a][p]
      /\ \A b \in Accounts \ {a} : page'[b] = page[b]
  BY <1>1, <1>2 DEF TypeOK
<1>4. \A i \in 1 .. step : page'[a][SaveOrder[i]] = Saved
  <2> SUFFICES ASSUME NEW i \in 1 .. step PROVE page'[a][SaveOrder[i]] = Saved
    OBVIOUS
  <2>1. CASE i = step
    BY <1>3, <2>1
  <2>2. CASE i < step
    <3>1. SaveOrder[i] \in SecretPages \ {SaveOrder[step]}
      BY <1>1, <2>2, PageOrder
    <3>2. page[a][SaveOrder[i]] = Saved
      BY <1>1, <2>2, PageOrder DEF JobsInv, SaveInv
    <3> QED
      BY <1>3, <3>1, <3>2
  <2> QED
    BY <1>1, <2>1, <2>2
<1>5. Saved' = Saved
  BY <1>1 DEF Saved
<1>6. /\ torn' \subseteq torn \cup {a} /\ torn \subseteq torn'
      /\ job.kind = "change" => a \in torn'
  BY DEF SavePage
<1>7. \/ step < 11 /\ pc' = "save" /\ step' = step + 1 /\ info' = info
      \/ /\ step = 11 /\ job.kind = "create" /\ pc' = "param" /\ info'.owner = job.secret
         /\ info'.kind = info.kind
      \/ step = 11 /\ job.kind = "change" /\ pc' = "hash" /\ info' = info
  BY <1>1, PageOrder DEF SavePage, Goto, TypeOK, Info, JobOK, Working
<1> QED
  BY <1>1, <1>3, <1>4, <1>5, <1>6, <1>7

LEMMA SavePageWhole ==
    ASSUME WalletInv, SavePage
    PROVE  WholeInv' /\ InfoInv' /\ JobsInv'
<1> USE DEF WalletInv, Inv, TypeInv
<1> PICK a \in Accounts : a = job.acct
  BY JobAccount
<1>1. /\ pc = "save" /\ step \in 1 .. 11 /\ Saved' = Saved
      /\ page'[a][SaveOrder[step]] = Saved
      /\ \A p \in SecretPages \ {SaveOrder[step]} : page'[a][p] = page[a][p]
      /\ \A b \in Accounts \ {a} : page'[b] = page[b]
      /\ UNCHANGED << pwHash, param, xpub, cur, job, nonce >>
      /\ \A i \in 1 .. step : page'[a][SaveOrder[i]] = Saved
      /\ torn' \subseteq torn \cup {a} /\ torn \subseteq torn'
      /\ job.kind = "change" => a \in torn'
      /\ \/ step < 11 /\ pc' = "save" /\ step' = step + 1 /\ info' = info
         \/ /\ step = 11 /\ job.kind = "create" /\ pc' = "param" /\ info'.owner = job.secret
            /\ info'.kind = info.kind
         \/ step = 11 /\ job.kind = "change" /\ pc' = "hash" /\ info' = info
  BY SavePageEffect
<1>2. Saved # Blank /\ Saved.secret = job.secret /\ job.kind \in {"create", "change"}
  BY <1>1, SavedData DEF Saved, JobOK, Working
<1>3. job.kind = "create" => pwHash[a] = NoPassword /\ cur = a
  BY <1>1 DEF JobsInv, CreateInv, Working
<1>4. job.kind = "change" => Unlockable(a) /\ page[a]["iv"].secret = job.secret
  BY <1>1 DEF JobsInv, ChangeInv, Working
<1>5. /\ page'[a]["iv"] # Blank <=> (step = 5 \/ page[a]["iv"] # Blank)
      /\ job.kind = "change" => page'[a]["iv"] # Blank /\ page'[a]["iv"].secret = job.secret
  BY <1>1, <1>2, <1>4, PageOrder, PagesKnown DEF Unlockable
<1>6. Whole(a)'
  <2>1. CASE job.kind = "create"
    BY <1>1, <1>3, <2>1 DEF Whole, Unlockable
  <2>2. CASE job.kind = "change"
    <3>1. Holds(a, job.secret)
      BY <1>4, <2>2 DEF WholeInv, Whole
    <3>2. Holds(a, job.secret)'
      BY <1>1, <1>2, <3>1 DEF Holds
    <3> QED
      BY <1>1, <1>5, <2>2, <3>2 DEF Whole
  <2> QED
    BY <1>2, <2>1, <2>2
<1>7. \A b \in Accounts \ {a} : Whole(b)'
  BY <1>1, WholeKept DEF WholeInv
<1>8. InfoInv'
  <2>1. CASE job.kind = "create"
    BY <1>1, <1>3, <2>1 DEF InfoInv, Unlockable
  <2>2. CASE job.kind = "change"
    BY <1>1, <1>4, <1>5, <2>2 DEF InfoInv, Unlockable
  <2> QED
    BY <1>2, <2>1, <2>2
<1>9. AgreeInv'
  BY <1>1 DEF JobsInv, AgreeInv, Agrees
<1>10. CreateInv'
  BY <1>1, <1>3, <1>5 DEF JobsInv, CreateInv, Working
<1>11. ChangeInv'
  BY <1>1, <1>2, <1>4, <1>5 DEF JobsInv, ChangeInv, Unlockable, Working
<1>12. SaveInv'
  BY <1>1, PageOrder DEF SaveInv
<1>13. EraseInv'
  BY <1>1 DEF EraseInv
<1> QED
  BY <1>6, <1>7, <1>8, <1>9, <1>10, <1>11, <1>12, <1>13 DEF WholeInv, JobsInv

(* All pages are of one save, which its password opens. *)
LEMMA SavedOpens ==
    ASSUME WalletInv, pc = "hash", NEW a \in Accounts, a = job.acct
    PROVE  /\ \A p \in SecretPages : page[a][p] = Saved
           /\ CanLoad(a, job.new)
           /\ \A w \in Passwords \cup {NoPassword} : CanLoad(a, w) => w = job.new
<1> USE DEF WalletInv, Inv, TypeInv
<1>1. \A p \in SecretPages : page[a][p] = Saved
  BY PageOrder DEF JobsInv, SaveInv
<1>2. Saved # Blank /\ Saved.password = job.new
  BY SavedData DEF Saved
<1> QED
  BY <1>1, <1>2, PagesKnown DEF CanLoad

LEMMA WriteHashWhole ==
    ASSUME WalletInv, WriteHash
    PROVE  WholeInv' /\ InfoInv' /\ JobsInv'
<1> USE DEF WalletInv, Inv, TypeInv
<1> PICK a \in Accounts : a = job.acct
  BY JobAccount
<1>1. /\ pc = "hash" /\ UNCHANGED << page, param, xpub, cur, nonce >>
      /\ pwHash' = [pwHash EXCEPT ![a] = job.new]
      /\ torn' = torn \ {a}
      /\ job.new \in Passwords /\ job.kind \in {"create", "change"}
      /\ info'.owner = info.owner /\ info'.kind = info.kind
      /\ \/ job.kind = "create" /\ pc' = "info" /\ job' = job
         \/ job.kind = "change" /\ pc' = "idle"
  BY DEF WriteHash, Finish, Goto, JobOK, Working, TypeOK, Info
<1>2. /\ \A p \in SecretPages : page[a][p] = Saved
      /\ CanLoad(a, job.new) /\ Saved # Blank /\ Saved.secret = job.secret
  BY <1>1, SavedOpens, SavedData DEF Saved
<1>3. pwHash'[a] = job.new /\ \A b \in Accounts \ {a} : pwHash'[b] = pwHash[b]
  BY <1>1 DEF TypeOK
<1>4. page[a]["iv"] # Blank /\ page[a]["iv"].secret = job.secret
  BY <1>2, PagesKnown
<1>5. /\ param[a].owner = job.secret /\ param[a].kind = KindOf[job.secret]
      /\ xpub[a] \in {job.secret, NoSecret}
  <2>1. CASE job.kind = "create"
    BY <1>1, <2>1 DEF JobsInv, CreateInv, Working
  <2>2. CASE job.kind = "change"
    BY <1>1, <1>4, <2>2 DEF JobsInv, ChangeInv, WholeInv, Whole, Holds, Working
  <2> QED
    BY <1>1, <2>1, <2>2
<1>6. Whole(a)'
  <2>1. Holds(a, job.secret)
    BY <1>2, <1>5 DEF Holds
  <2>2. Holds(a, page[a]["iv"].secret)'
    BY <1>1, <1>4, <2>1 DEF Holds
  <2>3. CanLoad(a, pwHash[a])'
    BY <1>1, <1>2, <1>3 DEF CanLoad
  <2> QED
    BY <2>2, <2>3 DEF Whole
<1>7. \A b \in Accounts \ {a} : Whole(b)'
  BY <1>1, <1>3, WholeKept DEF WholeInv
<1>8. InfoInv'
  <2>1. CASE cur = a
    <3>1. CASE job.kind = "create"
      BY <1>1, <1>4, <2>1, <3>1 DEF JobsInv, CreateInv, Working, InfoInv
    <3>2. CASE job.kind = "change"
      BY <1>1, <2>1, <3>2 DEF JobsInv, ChangeInv, Working, InfoInv, Unlockable
    <3> QED
      BY <1>1, <3>1, <3>2
  <2>2. CASE cur # a
    BY <1>1, <1>3, <2>2 DEF InfoInv, Unlockable
  <2> QED
    BY <2>1, <2>2
<1>9. AgreeInv'
  <2>1. Agrees(a)'
    BY <1>1, <1>3, <1>4, KeystoreAssumption DEF Agrees
  <2>2. \A b \in Accounts \ {a} : Agrees(b)'
    BY <1>1, <1>3 DEF JobsInv, AgreeInv, Agrees
  <2> QED
    BY <2>1, <2>2 DEF AgreeInv
<1>10. CreateInv' /\ ChangeInv' /\ EraseInv' /\ SaveInv'
  BY <1>1 DEF JobsInv, CreateInv, ChangeInv, EraseInv, SaveInv, Working
<1> QED
  BY <1>6, <1>7, <1>8, <1>9, <1>10 DEF WholeInv, JobsInv

LEMMA WalletStep == WalletInv /\ [Next]_vars => WalletInv'
<1> SUFFICES ASSUME WalletInv, [Next]_vars PROVE WalletInv'
  OBVIOUS
<1>1. Inv'
  BY NextTypeInv, UniqueStep DEF WalletInv, Inv
<1>2. CASE UNCHANGED vars
  <2>1. UNCHANGED << persistent, ram, pc, step, job, nonce, torn >>
    BY <1>2 DEF vars
  <2>2. WholeInv' /\ InfoInv'
    BY <2>1, NothingWritten DEF WalletInv, InfoInv, Unlockable, persistent, ram
  <2>3. JobsInv'
    BY <2>1 DEF WalletInv, JobsInv, AgreeInv, Agrees, EraseInv, CreateInv, ChangeInv, Unlockable,
                CanLoad, SaveInv, Saved, Working, persistent, ram
  <2> QED
    BY <1>1, <2>2, <2>3 DEF WalletInv
<1>3. CASE Next
  <2>1. WholeInv' /\ InfoInv' /\ JobsInv'
    BY <1>3, StartWhole, SessionWhole, ErasePageWhole, DestroyEndWhole, ParamWhole, CheckPasswordWhole,
       LoadSecretWhole, SavePageWhole, WriteHashWhole, GenerateWhole, LoginNewWhole, AteccFailsWhole,
       CrashWhole, BootWhole DEF Next, JobStep
  <2> QED
    BY <1>1, <2>1 DEF WalletInv
<1> QED
  BY <1>2, <1>3

LEMMA WalletInductive == Spec => []WalletInv
BY WalletInit, WalletStep, PTL DEF Spec

(* Outside a job every account that answers to a password opens under it:   *)
(* the hash is written after all pages, and the boot erases what a cut-off  *)
(* job left (AccountsDataCheck).                                            *)
THEOREM WalletsStayRecoverable == Spec => []WalletsRecoverable
<1>1. WalletInv => WalletsRecoverable
  BY DEF WalletInv, JobsInv, AgreeInv, Agrees, WholeInv, Whole, Unlockable, WalletsRecoverable
<1> QED
  BY <1>1, WalletInductive, PTL

(* GetBlankAccountIndex and VerifyPassword never disagree on an account     *)
(* between jobs: SaveAccountSecret, DestroyAccount, AccountsDataCheck.      *)
THEOREM SlotsAlwaysAgree == Spec => []SlotsAgree
<1>1. WalletInv => SlotsAgree
  BY DEF WalletInv, JobsInv, AgreeInv, Agrees, SlotsAgree
<1> QED
  BY <1>1, WalletInductive, PTL

(* AccountPublicInfoSwitch and DeleteAccountPublicInfo never leave the keys *)
(* of one wallet cached beside the secret of another.                       *)
THEOREM PublicKeysAlwaysMatch == Spec => []PublicKeysMatch
<1>1. WalletInv => PublicKeysMatch
  <2> SUFFICES ASSUME WalletInv, NEW a \in Accounts, pwHash[a] # NoPassword, CanLoad(a, pwHash[a])
               PROVE  xpub[a] \in {Loaded(a), NoSecret}
    BY DEF PublicKeysMatch
  <2> QED
    BY LoadedHeld DEF WalletInv, WholeInv, Whole, Holds, Unlockable
<1> QED
  BY <1>1, WalletInductive, PTL

(* SaveCurrentAccountInfo never leaves the parameters of one wallet beside  *)
(* the secret of another, also when it saves what a login read before.      *)
THEOREM ParamAlwaysMatches == Spec => []ParamMatches
<1>1. WalletInv => ParamMatches
  <2> SUFFICES ASSUME WalletInv, NEW a \in Accounts, pwHash[a] # NoPassword, CanLoad(a, pwHash[a])
               PROVE  param[a].owner = Loaded(a) /\ param[a].kind = KindOf[Loaded(a)]
    BY DEF ParamMatches
  <2> QED
    BY LoadedHeld DEF WalletInv, WholeInv, Whole, Holds, Unlockable
<1> QED
  BY <1>1, WalletInductive, PTL

-----------------------------------------------------------------------------
(* The pages implement the store.                                          *)

(* The random values of a save are new: no page holds them yet. *)
FreshInv ==
    /\ \A a \in Accounts, p \in SecretPages :
           page[a][p] # Blank => page[a][p].nonce <= nonce
    /\ pc = "save" =>
           \A i \in step .. Len(SaveOrder) :
               LET d == page[job.acct][SaveOrder[i]] IN d # Blank => d.nonce < nonce

StoreInv == WalletInv /\ FreshInv

(* What the steps do to the pages, by what they do to the wallets. *)
LEMMA StepKinds ==
    ASSUME WalletInv, [Next]_vars
    PROVE  \/ /\ UNCHANGED << page, pwHash >>
              /\ nonce' \in {nonce, nonce + 1}
              /\ pc' = "save" => \/ step' = 1 /\ nonce' = nonce + 1
                                 \/ UNCHANGED << pc, step, job, nonce >>
           \/ /\ ErasePage \/ BootErase
              /\ Erase(job.acct, EraseOrder[step]) /\ nonce' = nonce /\ pc' # "save"
              /\ step \in 1 .. Len(EraseOrder)
              /\ step > 1 => page[job.acct]["iv"] = Blank
              /\ step > 9 => pwHash[job.acct] = NoPassword
           \/ SavePage
           \/ WriteHash
<1> USE DEF WalletInv, Inv, TypeInv
<1>1. CASE UNCHANGED vars
  BY <1>1 DEF vars, persistent
<1>2. CASE StartJob
  BY <1>2 DEF StartJob, ImportWallet, ForgetPassword, DeleteWallet, ChangePassword, Start, persistent
<1>3. CASE Session
  BY <1>3 DEF Session, Login, LogoutCurrentAccount, SaveCurrentAccountInfo, persistent
<1>4. CASE Crash
  BY <1>4 DEF Crash, persistent
<1>5. CASE BootCheck
  BY <1>5 DEF BootCheck, NextAccount, Finish, Goto, persistent
<1>6. CASE ErasePage \/ BootErase
  BY <1>6 DEF ErasePage, BootErase, NextAccount, Finish, Goto, JobsInv, EraseInv
<1>7. CASE DestroyEnd \/ WriteName \/ WriteParam \/ WriteInfo \/ GeneratePublicInfo
           \/ LoginNewAccount \/ AteccFails
  BY <1>7 DEF DestroyEnd, WriteName, WriteParam, WriteInfo, GeneratePublicInfo, LoginNewAccount,
              AteccFails, Finish, Goto, persistent
<1>8. CASE CheckPassword
  BY <1>8 DEF CheckPassword, Finish, Goto, persistent
<1>9. CASE LoadSecret
  BY <1>9 DEF LoadSecret, Finish, Goto, persistent
<1> QED
  BY <1>1, <1>2, <1>3, <1>4, <1>5, <1>6, <1>7, <1>8, <1>9 DEF Next, JobStep, Boot

LEMMA FreshStep ==
    ASSUME StoreInv, [Next]_vars
    PROVE  FreshInv'
<1> USE DEF StoreInv
<1> PICK a \in Accounts : a = job.acct
  BY JobAccount DEF WalletInv, Inv, TypeInv
<1>0. /\ TypeOK /\ nonce \in Nat
      /\ \A b \in Accounts, p \in SecretPages : page[b][p] # Blank => page[b][p].nonce \in Nat
  BY DEF WalletInv, Inv, TypeInv, TypeOK, Data
<1>1. ASSUME \A b \in Accounts, p \in SecretPages : page'[b][p] \in {page[b][p], Blank},
             nonce' \in {nonce, nonce + 1},
             pc' = "save" => \/ step' = 1 /\ nonce' = nonce + 1
                             \/ UNCHANGED << page, pc, step, job, nonce >>
      PROVE  FreshInv'
  <2>1. \A b \in Accounts, p \in SecretPages : page'[b][p] # Blank => page'[b][p].nonce <= nonce'
    BY <1>0, <1>1 DEF FreshInv
  <2>2. CASE pc' = "save" /\ step' = 1 /\ nonce' = nonce + 1
    <3>1. job'.acct \in Accounts
      BY NextTypeInv DEF WalletInv, Inv, TypeInv, TypeOK, Job
    <3>2. \A p \in SecretPages : page'[job'.acct][p] # Blank => page'[job'.acct][p].nonce < nonce'
      BY <1>0, <1>1, <2>2, <3>1 DEF FreshInv
    <3> QED
      BY <2>1, <2>2, <3>2, PageOrder DEF FreshInv
  <2>3. CASE pc' # "save"
    BY <2>1, <2>3 DEF FreshInv
  <2>4. CASE UNCHANGED << page, pc, step, job, nonce >>
    BY <2>4 DEF FreshInv
  <2> QED
    BY <1>1, <2>2, <2>3, <2>4
<1>2. CASE UNCHANGED page /\ nonce' \in {nonce, nonce + 1}
           /\ (pc' = "save" => \/ step' = 1 /\ nonce' = nonce + 1
                               \/ UNCHANGED << pc, step, job, nonce >>)
  BY <1>1, <1>2
<1>3. CASE Erase(a, EraseOrder[step]) /\ nonce' = nonce /\ pc' # "save"
  <2>1. \A b \in Accounts, p \in SecretPages : page'[b][p] \in {page[b][p], Blank}
    BY <1>0, <1>3 DEF Erase, TypeOK
  <2> QED
    BY <1>1, <1>3, <2>1
<1>4. CASE SavePage
  <2>1. /\ pc = "save" /\ step \in 1 .. 11
        /\ page'[a][SaveOrder[step]] = Saved
        /\ \A p \in SecretPages \ {SaveOrder[step]} : page'[a][p] = page[a][p]
        /\ \A b \in Accounts \ {a} : page'[b] = page[b]
        /\ nonce' = nonce /\ job' = job
        /\ \/ pc' = "save" /\ step' = step + 1
           \/ pc' # "save"
    BY <1>4, SavePageEffect
  <2>2. Saved.nonce = nonce
    BY DEF Saved
  <2>3. \A b \in Accounts, p \in SecretPages : page'[b][p] # Blank => page'[b][p].nonce <= nonce'
    BY <1>0, <2>1, <2>2 DEF FreshInv
  <2>4. CASE pc' = "save"
    <3> SUFFICES ASSUME NEW i \in step + 1 .. 11, page'[a][SaveOrder[i]] # Blank
                 PROVE  page'[a][SaveOrder[i]].nonce < nonce
      BY <2>1, <2>3, <2>4, PageOrder DEF FreshInv
    <3>1. i \in step .. 11 /\ i \in 1 .. 11 /\ i # step
      BY <2>1
    <3>2. SaveOrder[i] \in SecretPages \ {SaveOrder[step]}
      BY <2>1, <3>1, PageOrder
    <3> QED
      BY <2>1, <3>1, <3>2, PageOrder DEF FreshInv
  <2>5. CASE pc' # "save"
    BY <2>3, <2>5 DEF FreshInv
  <2> QED
    BY <2>4, <2>5
<1>5. CASE WriteHash
  BY <1>1, <1>5 DEF WriteHash, Finish, Goto
<1> QED
  BY <1>2, <1>3, <1>4, <1>5, StepKinds

LEMMA StoreInductive == Spec => []StoreInv
<1>1. Init => StoreInv
  BY WalletInit, PagesKnown DEF Init, StoreInv, FreshInv
<1>2. StoreInv /\ [Next]_vars => StoreInv'
  BY WalletStep, FreshStep DEF StoreInv
<1> QED
  BY <1>1, <1>2, PTL DEF Spec

(* The wallet of one account, as AccountStore sees it. *)
Wallet(a) ==
    IF pwHash[a] = NoPassword \/ page[a]["iv"] = Blank
    THEN Blank
    ELSE [secret |-> page[a]["iv"].secret, password |-> pwHash[a], open |-> CanLoad(a, pwHash[a])]

LEMMA WalletsOf ==
    /\ AbstractWallet = [a \in Accounts |-> Wallet(a)]
    /\ AbstractWallet' = [a \in Accounts |-> Wallet(a)']
BY DEF AbstractWallet, Wallet

LEMMA WalletsKept ==
    ASSUME \A a \in Accounts : Wallet(a)' = Wallet(a)
    PROVE  UNCHANGED AbstractWallet
BY WalletsOf

LEMMA OneWallet ==
    ASSUME NEW a \in Accounts, NEW v, Wallet(a)' = v,
           \A b \in Accounts \ {a} : Wallet(b)' = Wallet(b)
    PROVE  AbstractWallet' = [AbstractWallet EXCEPT ![a] = v]
BY WalletsOf

LEMMA WalletKept ==
    ASSUME NEW a \in Accounts, page'[a] = page[a], pwHash'[a] = pwHash[a]
    PROVE  Wallet(a)' = Wallet(a)
BY DEF Wallet, CanLoad

LEMMA WalletFields ==
    ASSUME TypeOK, NEW a \in Accounts, Unlockable(a)
    PROVE  /\ Wallet(a) # Blank
           /\ Wallet(a) = [secret |-> page[a]["iv"].secret, password |-> pwHash[a],
                           open |-> CanLoad(a, pwHash[a])]
           /\ page[a]["iv"].secret \in Secrets /\ pwHash[a] \in Passwords
<1>1. page[a]["iv"] \in Data /\ pwHash[a] \in Passwords
  BY PagesKnown DEF TypeOK, Unlockable
<1>2. CanLoad(a, pwHash[a]) \in BOOLEAN
  BY DEF CanLoad
<1> QED
  BY <1>1, <1>2, KeystoreAssumption DEF Wallet, Unlockable, Data

(* The erasure of the IV removes the wallet; the other erasures find none. *)
LEMMA EraseImplements ==
    ASSUME TypeOK, NEW a \in Accounts, step \in 1 .. Len(EraseOrder), Erase(a, EraseOrder[step]),
           step > 1 => page[a]["iv"] = Blank, step > 9 => pwHash[a] = NoPassword
    PROVE  [Store!Next]_AbstractWallet
<1>1. /\ page'[a]["iv"] = Blank
      /\ \A b \in Accounts \ {a} : page'[b] = page[b] /\ pwHash'[b] = pwHash[b]
  BY EraseProgress
<1>2. Wallet(a)' = Blank /\ \A b \in Accounts \ {a} : Wallet(b)' = Wallet(b)
  BY <1>1, WalletKept DEF Wallet
<1>3. CASE Wallet(a) = Blank
  BY <1>2, <1>3, WalletsKept
<1>4. CASE Wallet(a) # Blank
  <2>1. AbstractWallet' = [AbstractWallet EXCEPT ![a] = Blank] /\ AbstractWallet[a] # Blank
    BY <1>2, <1>4, OneWallet, WalletsOf
  <2>2. Store!Remove(a)
    BY <2>1 DEF Store!Remove
  <2> QED
    BY <2>2 DEF Store!Next
<1> QED
  BY <1>3, <1>4

(* The password the job writes is free in the store, by Reserved. *)
LEMMA ReservedFree ==
    ASSUME WalletInv, pc \in {"save", "hash"}, NEW a \in Accounts, a = job.acct
    PROVE  Store!Free(a, job.new)
<1> SUFFICES ASSUME NEW b \in Accounts \ {a}, AbstractWallet[b] # Blank
             PROVE  AbstractWallet[b].password # job.new
  BY DEF Store!Free
<1>1. AbstractWallet[b] = Wallet(b)
  BY WalletsOf
<1>2. AbstractWallet[b].password = pwHash[b]
  BY <1>1 DEF Wallet
<1>3. pwHash[b] # job.new
  BY DEF WalletInv, Inv, Reserved
<1> QED
  BY <1>2, <1>3

(* Closing a wallet, and opening it under a password that is free. *)
LEMMA Closes ==
    ASSUME TypeOK, NEW a \in Accounts, Unlockable(a), CanLoad(a, pwHash[a]),
           Unlockable(a)', page'[a]["iv"].secret = page[a]["iv"].secret, pwHash'[a] = pwHash[a],
           CanLoad(a, pwHash[a])' = FALSE,
           \A b \in Accounts \ {a} : page'[b] = page[b] /\ pwHash'[b] = pwHash[b]
    PROVE  Store!Next
<1>1. \A b \in Accounts \ {a} : Wallet(b)' = Wallet(b)
  BY WalletKept
<1>2. Wallet(a)' = [Wallet(a) EXCEPT !.open = FALSE]
  <2> PICK r, x, y, z, no : /\ r = Wallet(a) /\ no = FALSE
                            /\ x = page[a]["iv"].secret /\ y = pwHash[a] /\ z = CanLoad(a, pwHash[a])
    OBVIOUS
  <2>1. Wallet(a)' = [secret |-> x, password |-> y, open |-> no]
    BY Zenon DEF Wallet, Unlockable
  <2>2. r = [secret |-> x, password |-> y, open |-> z]
    BY WalletFields, Zenon
  <2>3. [r EXCEPT !.open = no] = [secret |-> x, password |-> y, open |-> no]
    BY <2>2
  <2> QED
    BY <2>1, <2>3, Zenon
<1>3. AbstractWallet[a] = Wallet(a) /\ Wallet(a).open = TRUE /\ Wallet(a) # Blank
  BY WalletsOf, WalletFields
<1>4. AbstractWallet' = [AbstractWallet EXCEPT ![a] = [Wallet(a) EXCEPT !.open = FALSE]]
  BY <1>1, <1>2, OneWallet
<1>5. Store!BeginChange(a)
  BY <1>3, <1>4 DEF Store!BeginChange
<1> QED
  BY <1>5 DEF Store!Next

LEMMA Opens ==
    ASSUME TypeOK, NEW a \in Accounts, Unlockable(a), ~CanLoad(a, pwHash[a]),
           Unlockable(a)', page'[a]["iv"].secret = page[a]["iv"].secret,
           CanLoad(a, pwHash[a])' = TRUE, pwHash'[a] \in Passwords, Store!Free(a, pwHash'[a]),
           \A b \in Accounts \ {a} : page'[b] = page[b] /\ pwHash'[b] = pwHash[b]
    PROVE  Store!Next
<1>1. \A b \in Accounts \ {a} : Wallet(b)' = Wallet(b)
  BY WalletKept
<1>2. Wallet(a)' = [Wallet(a) EXCEPT !.open = TRUE, !.password = pwHash'[a]]
  <2> PICK r, x, y, z, yes, w : /\ r = Wallet(a) /\ yes = TRUE /\ w = pwHash'[a]
                                /\ x = page[a]["iv"].secret /\ y = pwHash[a]
                                /\ z = CanLoad(a, pwHash[a])
    OBVIOUS
  <2>1. Wallet(a)' = [secret |-> x, password |-> w, open |-> yes]
    BY Zenon DEF Wallet, Unlockable
  <2>2. r = [secret |-> x, password |-> y, open |-> z]
    BY WalletFields, Zenon
  <2>3. [r EXCEPT !.open = yes, !.password = w] = [secret |-> x, password |-> w, open |-> yes]
    <3> DEFINE Fields == {"secret", "password", "open"}
    <3> PICK s, t : /\ t = [r EXCEPT !.open = yes, !.password = w]
                    /\ s = [secret |-> x, password |-> w, open |-> yes]
      OBVIOUS
    <3>1. s = [f \in Fields |-> s[f]]
      OBVIOUS
    <3>2. t = [f \in Fields |-> t[f]]
      BY <2>2
    <3>3. s["secret"] = t["secret"] /\ s["password"] = t["password"] /\ s["open"] = t["open"]
      BY <2>2
    <3> QED
      BY <3>1, <3>2, <3>3
  <2> QED
    BY <2>1, <2>3, Zenon
<1>3. AbstractWallet[a] = Wallet(a) /\ Wallet(a).open = FALSE /\ Wallet(a) # Blank
  BY WalletsOf, WalletFields DEF CanLoad
<1>4. AbstractWallet' = [AbstractWallet EXCEPT ![a] = [Wallet(a) EXCEPT !.open = TRUE,
                                                                       !.password = pwHash'[a]]]
  BY <1>1, <1>2, OneWallet
<1>5. Store!EndChange(a, pwHash'[a])
  BY <1>3, <1>4, WalletsOf DEF Store!EndChange
<1> QED
  BY <1>5 DEF Store!Next

(* A save leaves the wallet as it is, closes it with its first page that    *)
(* does not fit the others, and may open it with its last.                  *)
LEMMA SavePageImplements ==
    ASSUME StoreInv, SavePage
    PROVE  [Store!Next]_AbstractWallet
<1> USE DEF StoreInv, WalletInv, Inv, TypeInv
<1> PICK a \in Accounts : a = job.acct
  BY JobAccount
<1>1. /\ pc = "save" /\ step \in 1 .. 11
      /\ page'[a][SaveOrder[step]] = Saved
      /\ \A p \in SecretPages \ {SaveOrder[step]} : page'[a][p] = page[a][p]
      /\ \A b \in Accounts \ {a} : page'[b] = page[b]
      /\ UNCHANGED << pwHash, job >>
      /\ \A i \in 1 .. step : page'[a][SaveOrder[i]] = Saved
  BY SavePageEffect
<1>2. \A b \in Accounts \ {a} : Wallet(b)' = Wallet(b)
  BY <1>1, WalletKept
<1>3. CASE job.kind = "create"
  <2>1. pwHash[a] = NoPassword /\ pwHash'[a] = NoPassword
    BY <1>1, <1>3 DEF JobsInv, CreateInv, Working
  <2>2. Wallet(a)' = Wallet(a)
    BY <2>1 DEF Wallet
  <2> QED
    BY <1>2, <2>2, WalletsKept
<1>4. CASE job.kind = "change"
  <2> DEFINE w == pwHash[a]
  <2>1. /\ Unlockable(a) /\ page[a]["iv"].secret = job.secret
        /\ step = 1 => CanLoad(a, job.old)
    BY <1>1, <1>4 DEF JobsInv, ChangeInv, Working
  <2>2. /\ Saved # Blank /\ Saved.nonce = nonce /\ Saved.password = job.new
        /\ Saved.secret = job.secret
    BY <1>1, SavedData DEF Saved
  <2>3. Unlockable(a)' /\ page'[a]["iv"].secret = page[a]["iv"].secret
    BY <1>1, <2>1, <2>2, PagesKnown DEF Unlockable
  <2>4. step < 11 /\ CanLoad(a, w)' => step = 1 /\ CanLoad(a, w)
    <3> SUFFICES ASSUME step < 11, CanLoad(a, w)' PROVE step = 1 /\ CanLoad(a, w)
      OBVIOUS
    <3>1. /\ page'[a]["hmac"] = page[a]["hmac"] /\ page[a]["hmac"] # Blank
          /\ page[a]["hmac"].nonce < nonce
      <4>1. page'[a]["hmac"] = page[a]["hmac"]
        BY <1>1, PageOrder, PagesKnown
      <4>2. page[a]["hmac"] # Blank
        BY <4>1 DEF CanLoad
      <4> QED
        BY <1>1, <4>1, <4>2, PageOrder DEF FreshInv
    <3>2. page[a]["hmac"] # Saved
      BY <2>2, <3>1 DEF TypeOK
    <3>3. step = 1
      <4>1. SaveOrder[step] \in SecretPages \ {"auth"} => FALSE
        BY <1>1, <3>1, <3>2 DEF CanLoad
      <4>2. SaveOrder[step] = "auth"
        BY <1>1, <4>1, PageOrder
      <4> QED
        BY <1>1, <4>2, PageOrder
    <3>4. page[a]["hmac"].password = w /\ CanLoad(a, job.old)
      BY <1>1, <2>1, <3>1, <3>3 DEF CanLoad
    <3>5. job.old = w
      BY <3>4 DEF CanLoad
    <3> QED
      BY <3>3, <3>4, <3>5
  <2>5. step = 11 => ~CanLoad(a, w)
    <3> SUFFICES ASSUME step = 11, CanLoad(a, w) PROVE FALSE
      OBVIOUS
    <3>1. page[a][SaveOrder[5]] = Saved
      BY <1>1, PageOrder DEF JobsInv, SaveInv
    <3>2. page[a]["iv"] = page[a]["hmac"] /\ page[a]["hmac"] # Blank
      BY PagesKnown DEF CanLoad
    <3>3. page[a]["hmac"].nonce < nonce
      BY <1>1, <3>2, PageOrder DEF FreshInv
    <3> QED
      BY <2>2, <3>1, <3>2, <3>3, PageOrder DEF TypeOK
  <2>6. step = 11 /\ CanLoad(a, w)' => w = job.new
    BY <1>1, <2>2, PageOrder DEF CanLoad
  <2>7. CanLoad(a, w) \in BOOLEAN /\ CanLoad(a, w)' \in BOOLEAN /\ w' = w
    BY <1>1 DEF CanLoad
  <2>8. CASE CanLoad(a, w)' = CanLoad(a, w)
    <3>1. Wallet(a)' = Wallet(a)
      BY <1>1, <2>1, <2>3, <2>8 DEF Wallet, Unlockable
    <3> QED
      BY <1>2, <3>1, WalletsKept
  <2>9. CASE CanLoad(a, w) /\ ~CanLoad(a, w)'
    BY <1>1, <2>1, <2>3, <2>7, <2>9, Closes
  <2>10. CASE ~CanLoad(a, w) /\ CanLoad(a, w)'
    <3>1. w = job.new /\ w \in Passwords
      BY <1>1, <2>1, <2>4, <2>6, <2>10, WalletFields
    <3>2. Store!Free(a, w)
      BY <1>1, <3>1, ReservedFree
    <3> QED
      BY <1>1, <2>1, <2>3, <2>7, <2>10, <3>1, <3>2, Opens
  <2> QED
    BY <2>7, <2>8, <2>9, <2>10
<1> QED
  BY <1>1, <1>3, <1>4 DEF JobOK, Working

(* The hash makes a new wallet, or a changed one open under it. *)
LEMMA WriteHashImplements ==
    ASSUME StoreInv, WriteHash
    PROVE  [Store!Next]_AbstractWallet
<1> USE DEF StoreInv, WalletInv, Inv, TypeInv
<1> PICK a \in Accounts : a = job.acct
  BY JobAccount
<1>1. /\ pc = "hash" /\ UNCHANGED page
      /\ pwHash' = [pwHash EXCEPT ![a] = job.new]
      /\ job.new \in Passwords /\ job.kind \in {"create", "change"}
  BY DEF WriteHash, JobOK, Working
<1>2. pwHash'[a] = job.new /\ \A b \in Accounts \ {a} : pwHash'[b] = pwHash[b]
  BY <1>1 DEF TypeOK
<1>3. /\ page[a]["iv"] = Saved /\ Saved # Blank /\ Saved.secret = job.secret
      /\ CanLoad(a, job.new) /\ Saved \in Data
      /\ \A x \in Passwords \cup {NoPassword} : CanLoad(a, x) => x = job.new
  BY <1>1, SavedOpens, SavedData, PagesKnown DEF Saved
<1>4. Unlockable(a)' /\ CanLoad(a, pwHash[a])' = TRUE
  BY <1>1, <1>2, <1>3, KeystoreAssumption DEF Unlockable, CanLoad
<1>5. \A b \in Accounts \ {a} : Wallet(b)' = Wallet(b)
  BY <1>1, <1>2, WalletKept
<1>6. Store!Free(a, job.new)
  BY <1>1, ReservedFree
<1>7. CASE job.kind = "create"
  <2>1. pwHash[a] = NoPassword
    BY <1>1, <1>7 DEF JobsInv, CreateInv, Working
  <2>2. AbstractWallet[a] = Blank
    BY <2>1, WalletsOf DEF Wallet
  <2>3. Wallet(a)' = [secret |-> job.secret, password |-> job.new, open |-> TRUE]
    BY <1>1, <1>2, <1>3, <1>4 DEF Wallet, Unlockable
  <2>4. AbstractWallet' = [AbstractWallet EXCEPT ![a] =
                              [secret |-> job.secret, password |-> job.new, open |-> TRUE]]
    BY <1>5, <2>3, OneWallet
  <2>5. Store!Create(a, job.secret, job.new) /\ job.secret \in Secrets
    BY <1>3, <1>6, <2>2, <2>4 DEF Store!Create, Data
  <2> QED
    BY <1>1, <2>5 DEF Store!Next
<1>8. CASE job.kind = "change"
  <2>1. Unlockable(a)
    BY <1>1, <1>8 DEF JobsInv, ChangeInv, Working
  <2>2. CASE CanLoad(a, pwHash[a])
    <3>1. pwHash[a] = job.new
      BY <1>3, <2>2 DEF TypeOK
    <3>2. Wallet(a)' = Wallet(a)
      BY <1>1, <1>2, <3>1, WalletKept
    <3> QED
      BY <1>5, <3>2, WalletsKept
  <2>3. CASE ~CanLoad(a, pwHash[a])
    BY <1>1, <1>2, <1>4, <1>6, <2>1, <2>3, Opens
  <2> QED
    BY <2>2, <2>3
<1> QED
  BY <1>1, <1>7, <1>8

(* The write order of SaveAccountSecret, DestroyAccount and ChangePassword  *)
(* makes the pages a store of wallets, through power losses and errors: a   *)
(* wallet appears and vanishes in one step, never changes its secret, and   *)
(* is open again only under a password that no other account answers to.    *)
THEOREM PagesImplementStore == Spec => ImplementsStore
<1>1. Init => Store!Init
  BY DEF Init, Store!Init, AbstractWallet
<1>2. StoreInv /\ [Next]_vars => [Store!Next]_AbstractWallet
  <2> SUFFICES ASSUME StoreInv, [Next]_vars PROVE [Store!Next]_AbstractWallet
    OBVIOUS
  <2> PICK a \in Accounts : a = job.acct
    BY JobAccount DEF StoreInv, WalletInv, Inv, TypeInv
  <2>1. CASE UNCHANGED << page, pwHash >>
    BY <2>1, WalletKept, WalletsKept
  <2>2. CASE /\ Erase(a, EraseOrder[step]) /\ step \in 1 .. Len(EraseOrder)
             /\ step > 1 => page[a]["iv"] = Blank
             /\ step > 9 => pwHash[a] = NoPassword
    BY <2>2, EraseImplements DEF StoreInv, WalletInv, Inv, TypeInv
  <2> QED
    BY <2>1, <2>2, StepKinds, SavePageImplements, WriteHashImplements DEF StoreInv
<1> QED
  BY <1>1, <1>2, StoreInductive, PTL DEF Spec, ImplementsStore, Store!Spec
=============================================================================
