-------------------------- MODULE PublicInfoProofs --------------------------
(***************************************************************************)
(* Whose keys are in RAM and in flash, for any number of accounts,         *)
(* secrets, passphrases and versions, with power losses at every step.     *)
(*                                                                         *)
(* Three invariants, each over the ones before it.  IInv: where a save     *)
(* stands between its erasure, the hash, the size and the JSON.  KeysInv:  *)
(* the types, what a job has in hand, and the keys of a passphrase.  Both  *)
(* bear ATECC608B errors at every step.  WholeInv: whose wallet is current *)
(* while no job runs and at each step of one; that one needs a device      *)
(* without such errors, as a job that fails half-way leaves the account    *)
(* current with whatever it had.                                           *)
(***************************************************************************)
EXTENDS PublicInfo, TLAPS

-----------------------------------------------------------------------------
(***************************************************************************)
(* Keys in flash match the hash page.                                      *)
(***************************************************************************)

Shape ==
    /\ DOMAIN flash = Accounts
    /\ DOMAIN hash = Accounts
    /\ job.acct \in Accounts

(* Where the save stands: from its erasure to the size the flash of its    *)
(* account is blank, and from the hash page on the hash is that of the     *)
(* keys in RAM.                                                            *)
SaveInv ==
    /\ pc \in {"clear", "hash", "size"} => flash[job.acct] = Blank
    /\ pc \in {"size", "json"} => hash[job.acct] = ramKeys

IInv == Shape /\ SaveInv /\ KeysVerify

USE DEF Start, Goto, Finish, Shape, SaveInv, Unlocked

(* Neither blank nor cut-off flash is a set of keys. *)
LEMMA NotKeys == Blank \notin KeySet /\ Torn \notin KeySet
  BY PublicInfoAssumption

(* The accounts are numbered from 0, and there is one. *)
LEMMA ZeroIsAccount == 0 \in Accounts
  BY PublicInfoAssumption DEF Accounts

LEMMA InitIInv == Init => IInv
  <1> SUFFICES ASSUME Init PROVE IInv
    OBVIOUS
  <1>1. Shape
    BY ZeroIsAccount DEF Init, NoJob, NewJob
  <1>2. SaveInv
    BY DEF Init
  <1>3. KeysVerify
    BY DEF Init, KeysVerify
  <1> QED
    BY <1>1, <1>2, <1>3 DEF IInv

(* A job starts at a step before any erasure, and names an account. *)
LEMMA StartJobIInv == IInv /\ StartJob => IInv'
  <1> SUFFICES ASSUME IInv, StartJob PROVE IInv'
    OBVIOUS
  <1> USE DEF IInv, persistent, keys, KeysVerify
  <1>1. ASSUME NEW a \in Accounts, NEW s \in Secrets,
               ImportWallet(a, s) \/ ForgetPassword(a, s)
        PROVE  IInv'
    BY <1>1 DEF ImportWallet, ForgetPassword, NewJob
  <1>2. CASE DeleteWallet
    BY <1>2 DEF DeleteWallet, NewJob
  <1>3. ASSUME NEW a \in Accounts, EnterPassword(a) PROVE IInv'
    BY <1>3 DEF EnterPassword, NewJob
  <1>4. ASSUME NEW p, WritePassphrase(p) PROVE IInv'
    BY <1>4 DEF WritePassphrase, NewJob
  <1>5. CASE SetupRsa
    BY <1>5 DEF SetupRsa, NewJob
  <1> QED
    BY <1>1, <1>2, <1>3, <1>4, <1>5 DEF StartJob

(* A session action touches neither the keys nor the job. *)
LEMMA SessionIInv == IInv /\ Session => IInv'
  BY DEF IInv, KeysVerify, Session, Lock, FingerprintUnlock,
         SaveCurrentAccountInfo, persistent, keys

LEMMA JobStepIInv == IInv /\ JobStep => IInv'
  <1> SUFFICES ASSUME IInv, JobStep PROVE IInv'
    OBVIOUS
  <1> USE NotKeys DEF IInv, persistent, keys, KeysVerify
  <1>1. CASE DestroyPages
    BY <1>1 DEF DestroyPages
  <1>2. CASE DeleteAccountPublicInfo
    BY <1>2 DEF DeleteAccountPublicInfo
  <1>3. CASE DestroyEnd
    BY <1>3, ZeroIsAccount DEF DestroyEnd, NoJob, NewJob
  <1>4. CASE SaveNewEntropy
    BY <1>4 DEF SaveNewEntropy
  <1>5. CASE Login
    BY <1>5 DEF Login, LoginChoosesKeys
  <1>6. CASE SetPassphrase
    BY <1>6 DEF SetPassphrase
  <1>7. CASE TempAccountPublicInfo
    BY <1>7 DEF TempAccountPublicInfo
  <1>8. CASE AccountPublicInfoSwitch
    BY <1>8 DEF AccountPublicInfoSwitch
  <1>9. CASE DeriveKeys
    BY <1>9 DEF DeriveKeys
  <1>10. CASE EraseFlash
    BY <1>10 DEF EraseFlash
  <1>11. CASE WriteHash
    BY <1>11 DEF WriteHash
  <1>12. CASE WriteSize
    BY <1>12 DEF WriteSize
  <1>13. CASE WriteJson
    BY <1>13 DEF WriteJson
  <1>14. CASE JobDone
    <2>1. flash' = flash /\ hash' = hash /\ pc' \in {"login", "idle"}
      BY <1>14 DEF JobDone
    <2>2. CASE job.kind \in {"create", "forget"}
      <3>1. job' = [job EXCEPT !.kind =
                        IF @ = "create" THEN "login" ELSE "logout"]
        BY <1>14, <2>2 DEF JobDone
      <3>2. job'.acct = job.acct
        BY <3>1
      <3> QED
        BY <2>1, <3>2
    <2>3. CASE job.kind \notin {"create", "forget"}
      <3>1. job' = NoJob
        BY <1>14, <2>3 DEF JobDone
      <3> QED
        BY <2>1, <3>1, ZeroIsAccount DEF NoJob, NewJob
    <2> QED
      BY <2>2, <2>3
  <1>15. CASE JobFailed
    BY <1>15, ZeroIsAccount DEF JobFailed, NoJob, NewJob
  <1>16. CASE AteccFails
    BY <1>16, ZeroIsAccount DEF AteccFails, NoJob, NewJob
  <1>17. CASE EmsUnread
    BY <1>17 DEF EmsUnread
  <1> QED
    BY <1>1, <1>2, <1>3, <1>4, <1>5, <1>6, <1>7, <1>8, <1>9, <1>10, <1>11,
       <1>12, <1>13, <1>14, <1>15, <1>16, <1>17 DEF JobStep

(* A power loss forgets the job and leaves flash and hash as they are. *)
LEMMA CrashIInv == IInv /\ Crash => IInv'
  BY ZeroIsAccount DEF IInv, KeysVerify, Crash, NoJob, NewJob

LEMMA NextIInv == IInv /\ [Next]_vars => IInv'
  <1>1. IInv /\ UNCHANGED vars => IInv'
    BY DEF IInv, KeysVerify, vars, persistent, keys
  <1> QED
    BY <1>1, StartJobIInv, SessionIInv, JobStepIInv, CrashIInv DEF Next

(* AccountPublicSavePublicInfo and DestroyAccount: whatever the step at    *)
(* which a save or an erasure is cut off, complete keys in flash pass      *)
(* VerifyWalletDataHash, so only a JSON written in part can lock an        *)
(* account out.                                                            *)
THEOREM KeysAlwaysVerify == Spec => []KeysVerify
  <1>1. IInv => KeysVerify
    BY DEF IInv
  <1> QED
    BY <1>1, InitIInv, NextIInv, PTL DEF Spec

-----------------------------------------------------------------------------
(***************************************************************************)
(* The types, and what a job has in hand when it writes.                   *)
(***************************************************************************)

(* The steps at which a job works on a wallet that is there. *)
Working == {"login", "switch", "seed", "erase", "hash", "size", "json",
            "passphrase", "temp", "done"}

(* A job that writes a wallet has a secret, one that derives keys has a    *)
(* wallet, and one that saves keys has them.                               *)
WorkInv ==
    /\ pc \in {"destroy", "flash", "clear"} /\ job.kind # "delete"
           => job.secret \in Secrets
    /\ pc = "save" => job.secret \in Secrets
    /\ pc \in Working => wallet[job.acct] # NoSecret
    /\ pc \in {"erase", "hash", "size", "json"} => ramKeys \in KeySet

TypeInv == TypeOK /\ WorkInv

LEMMA NewJobType ==
    ASSUME NEW k \in {"create", "forget", "delete", "login", "logout",
                      "passphrase", "rsa"},
           NEW a \in Accounts, NEW s \in Secrets \cup {NoSecret},
           NEW p \in Passphrases \cup {NoPassphrase}
    PROVE  NewJob(k, a, s, p) \in Job
  BY DEF NewJob, Job

LEMMA NoJobType == NoJob \in Job
  BY NewJobType, ZeroIsAccount DEF NoJob

LEMMA OwnKeysType ==
    ASSUME TypeOK, NEW a \in Accounts, wallet[a] # NoSecret
    PROVE  OwnKeys(a) \in KeySet
  BY DEF TypeOK, OwnKeys, KeySet

LEMMA GarbledKeysType ==
    ASSUME TypeOK, NEW a \in Accounts
    PROVE  GarbledKeys(a) \in KeySet
  <1>1. GarbledKeys(a) = [secret |-> Garbage, passphrase |-> passphrase[a],
                          version |-> version]
    BY DEF GarbledKeys, OwnKeys
  <1> QED
    BY <1>1 DEF TypeOK, KeySet

LEMMA DerivedType ==
    ASSUME TypeOK, NEW a \in Accounts, wallet[a] # NoSecret
    PROVE  Derived(a) \in KeySet
  BY OwnKeysType, GarbledKeysType DEF Derived

LEMMA InitTypeInv == Init => TypeInv
  <1> SUFFICES ASSUME Init PROVE TypeInv
    OBVIOUS
  <1>1. PICK s \in Secrets, old \in BOOLEAN :
          /\ wallet = [a \in Accounts |->
                        IF old /\ a = 0 THEN s ELSE NoSecret]
          /\ flash = [a \in Accounts |->
                        IF old /\ a = 0
                        THEN [secret |-> s, passphrase |-> NoPassphrase,
                              version |-> 0]
                        ELSE Blank]
    BY DEF Init
  <1>2. [secret |-> s, passphrase |-> NoPassphrase, version |-> 0] \in KeySet
    BY PublicInfoAssumption DEF KeySet
  <1>3. flash \in [Accounts -> KeySet \cup {Blank, Torn}]
    BY <1>1, <1>2
  <1>4. wallet \in [Accounts -> Secrets \cup {NoSecret}]
    BY <1>1
  <1>5. locked \in BOOLEAN
    BY Zenon DEF Init, NoWallet
  <1>8. version \in 0 .. MaxVersion /\ creates \in 0 .. MaxCreates
    BY PublicInfoAssumption DEF Init
  <1>9. /\ hash \in [Accounts -> KeySet \cup {ZeroHash}]
        /\ passphrase \in [Accounts -> Passphrases \cup {NoPassphrase}]
        /\ param \in [Accounts -> Secrets \cup {NoSecret}]
    BY <1>4 DEF Init
  <1>10. job \in Job
    BY NoJobType DEF Init
  <1>11. /\ cur = Logout /\ last = Logout /\ info = NoSecret
         /\ ramKeys = NoKeys /\ tempIndex = Logout /\ isTemp = FALSE
         /\ firstUnlock = TRUE /\ pc = "idle"
    BY DEF Init
  <1>6. TypeOK
    BY <1>3, <1>4, <1>5, <1>8, <1>9, <1>10, <1>11 DEF TypeOK
  <1>7. WorkInv
    BY DEF Init, WorkInv, Working
  <1> QED
    BY <1>6, <1>7 DEF TypeInv

LEMMA StartJobTypeInv == TypeInv /\ StartJob => TypeInv'
  <1> SUFFICES ASSUME TypeInv, StartJob PROVE TypeInv'
    OBVIOUS
  <1> USE DEF TypeInv, persistent, keys, session
  <1>1. /\ UNCHANGED << persistent, keys, session >>
        /\ creates' \in 0 .. MaxCreates
        /\ job' \in Job
        /\ \/ /\ pc' = "destroy"
              /\ job'.kind # "delete" => job'.secret \in Secrets
           \/ /\ pc' \in {"login", "passphrase", "switch"}
              /\ wallet[job'.acct] # NoSecret
    <2>1. ASSUME NEW a \in Accounts, NEW s \in Secrets,
                 ImportWallet(a, s) \/ ForgetPassword(a, s)
          PROVE  <1>1
      BY <2>1, NewJobType, PublicInfoAssumption
         DEF ImportWallet, ForgetPassword, NewJob, TypeOK
    <2>2. CASE DeleteWallet
      BY <2>2, NewJobType DEF DeleteWallet, NewJob, TypeOK
    <2>3. ASSUME NEW a \in Accounts, EnterPassword(a) PROVE <1>1
      BY <2>3, NewJobType DEF EnterPassword, NewJob, TypeOK
    <2>4. ASSUME NEW p \in Passphrases \cup {NoPassphrase}, WritePassphrase(p)
          PROVE <1>1
      BY <2>4, NewJobType DEF WritePassphrase, NewJob, TypeOK
    <2>5. CASE SetupRsa
      BY <2>5, NewJobType DEF SetupRsa, NewJob, TypeOK
    <2> QED
      BY <2>1, <2>2, <2>3, <2>4, <2>5 DEF StartJob
  <1>2. TypeOK'
    BY <1>1 DEF TypeOK
  <1>3. WorkInv'
    BY <1>1 DEF WorkInv, Working
  <1> QED
    BY <1>2, <1>3

LEMMA SessionTypeInv == TypeInv /\ Session => TypeInv'
  <1> SUFFICES ASSUME TypeInv, Session PROVE TypeInv'
    OBVIOUS
  <1>1. TypeOK'
    BY DEF TypeInv, TypeOK, Session, Lock, FingerprintUnlock,
           SaveCurrentAccountInfo, persistent, keys, session
  <1>2. WorkInv'
    BY DEF TypeInv, WorkInv, Working, Session, Lock, FingerprintUnlock,
           SaveCurrentAccountInfo, persistent, keys
  <1> QED
    BY <1>1, <1>2 DEF TypeInv

LEMMA JobStepTypeInv == TypeInv /\ JobStep => TypeInv'
  <1> SUFFICES ASSUME TypeInv, JobStep PROVE TypeInv'
    OBVIOUS
  <1> USE DEF TypeInv, persistent, keys, session
  <1>0. job.acct \in Accounts /\ job.kind # "save"
    BY DEF TypeOK, Job
  <1>1. CASE DestroyPages
    BY <1>1, <1>0 DEF DestroyPages, TypeOK, WorkInv, Working
  <1>2. CASE DeleteAccountPublicInfo
    BY <1>2, <1>0
       DEF DeleteAccountPublicInfo, TypeOK, WorkInv, Working, NoKeys
  <1>3. CASE DestroyEnd
    <2>1. TypeOK'
      BY <1>3, <1>0, NoJobType DEF DestroyEnd, TypeOK
    <2>2. WorkInv'
      BY <1>3, <1>0 DEF DestroyEnd, WorkInv, Working
    <2> QED
      BY <2>1, <2>2
  <1>4. CASE SaveNewEntropy
    <2>1. job.secret \in Secrets
      BY <1>4 DEF SaveNewEntropy, WorkInv
    <2>2. TypeOK'
      BY <1>4, <1>0, <2>1 DEF SaveNewEntropy, TypeOK
    <2>3. WorkInv'
      BY <1>4, <1>0, <2>1, PublicInfoAssumption
         DEF SaveNewEntropy, WorkInv, Working, TypeOK
    <2> QED
      BY <2>2, <2>3
  <1>5. CASE Login
    BY <1>5, <1>0 DEF Login, LoginChoosesKeys, TypeOK, WorkInv, Working
  <1>6. CASE SetPassphrase
    <2>1. job.passphrase \in Passphrases \cup {NoPassphrase}
      BY DEF TypeOK, Job
    <2> QED
    BY <1>6, <1>0, <2>1 DEF SetPassphrase, TypeOK, WorkInv, Working
  <1>7. CASE TempAccountPublicInfo
    <2>1. Derived(job.acct) \in KeySet
      BY <1>7, <1>0, DerivedType
         DEF TempAccountPublicInfo, WorkInv, Working
    <2> QED
      BY <1>7, <1>0, <2>1
         DEF TempAccountPublicInfo, TypeOK, WorkInv, Working
  <1>8. CASE AccountPublicInfoSwitch
    BY <1>8, <1>0
       DEF AccountPublicInfoSwitch, TypeOK, WorkInv, Working, Good, NoKeys
  <1>9. CASE DeriveKeys
    <2>1. Derived(job.acct) \in KeySet
      BY <1>9, <1>0, DerivedType DEF DeriveKeys, WorkInv, Working
    <2> QED
      BY <1>9, <1>0, <2>1 DEF DeriveKeys, TypeOK, WorkInv, Working
  <1>10. CASE EraseFlash
    BY <1>10, <1>0 DEF EraseFlash, TypeOK, WorkInv, Working
  <1>11. CASE WriteHash
    BY <1>11, <1>0 DEF WriteHash, TypeOK, WorkInv, Working
  <1>12. CASE WriteSize
    BY <1>12, <1>0 DEF WriteSize, TypeOK, WorkInv, Working
  <1>13. CASE WriteJson
    BY <1>13, <1>0 DEF WriteJson, TypeOK, WorkInv, Working
  <1>14. CASE JobDone
    <2>2. CASE job.kind \in {"create", "forget"}
      <3>1. job' = [job EXCEPT !.kind =
                        IF @ = "create" THEN "login" ELSE "logout"]
        BY <1>14, <2>2 DEF JobDone
      <3>2. job'.acct = job.acct /\ job' \in Job
        BY <3>1 DEF TypeOK, Job
      <3>3. TypeOK'
        BY <1>14, <2>2, <3>2 DEF JobDone, TypeOK
      <3>4. WorkInv'
        BY <1>14, <2>2, <3>2 DEF JobDone, WorkInv, Working
      <3> QED
        BY <3>3, <3>4
    <2>3. CASE job.kind \notin {"create", "forget"}
      <3>1. TypeOK'
        BY <1>14, <2>3, NoJobType DEF JobDone, TypeOK
      <3>2. WorkInv'
        BY <1>14, <2>3 DEF JobDone, WorkInv, Working
      <3> QED
        BY <3>1, <3>2
    <2> QED
      BY <2>2, <2>3
  <1>15. CASE JobFailed
    BY <1>15, <1>0, NoJobType DEF JobFailed, TypeOK, WorkInv, Working
  <1>16. CASE AteccFails
    <2>1. pc = "save" => job.secret \in Secrets
      BY DEF WorkInv
    <2> QED
      BY <1>16, <1>0, <2>1, NoJobType
         DEF AteccFails, TypeOK, WorkInv, Working, NoKeys
  <1>17. CASE EmsUnread
    <2>1. GarbledKeys(job.acct) \in KeySet
      BY <1>0, GarbledKeysType
    <2> QED
      BY <1>17, <1>0, <2>1 DEF EmsUnread, TypeOK, WorkInv, Working
  <1> QED
    BY <1>1, <1>2, <1>3, <1>4, <1>5, <1>6, <1>7, <1>8, <1>9, <1>10, <1>11,
       <1>12, <1>13, <1>14, <1>15, <1>16, <1>17 DEF JobStep

LEMMA CrashTypeInv == TypeInv /\ Crash => TypeInv'
  <1> SUFFICES ASSUME TypeInv, Crash PROVE TypeInv'
    OBVIOUS
  <1>1. locked' \in BOOLEAN
    BY Zenon DEF Crash, NoWallet
  <1>2. version' \in 0 .. MaxVersion
    BY PublicInfoAssumption DEF TypeInv, TypeOK, Crash
  <1>3. TypeOK'
    BY <1>1, <1>2, NoJobType DEF TypeInv, TypeOK, Crash, NoKeys
  <1>4. WorkInv'
    BY DEF WorkInv, Working, Crash
  <1> QED
    BY <1>3, <1>4 DEF TypeInv

LEMMA NextTypeInv == TypeInv /\ [Next]_vars => TypeInv'
  <1>1. TypeInv /\ UNCHANGED vars => TypeInv'
    BY DEF TypeInv, TypeOK, WorkInv, vars, persistent, keys, session
  <1> QED
    BY <1>1, StartJobTypeInv, SessionTypeInv, JobStepTypeInv, CrashTypeInv
       DEF Next

(* TypeOK holds under ATECC608B errors and power losses at every step. *)
THEOREM TypesHold == Spec => []TypeOK
  <1>1. TypeInv => TypeOK
    BY DEF TypeInv
  <1> QED
    BY <1>1, InitTypeInv, NextTypeInv, PTL DEF Spec

-----------------------------------------------------------------------------
(***************************************************************************)
(* The keys of a passphrase, with ATECC608B errors.                        *)
(***************************************************************************)

(* The temporary keys are those of the account the index names, or what    *)
(* was taken for them, but while a job replaces them; once an erasure or a *)
(* save has dropped the index it stays dropped.                            *)
TempInv ==
    /\ pc \in {"clear", "save", "seed", "erase", "hash", "size", "json"}
           => tempIndex = Logout
    /\ tempIndex \in Accounts /\ pc \notin {"flash", "switch", "temp"}
           => ramKeys \in {OwnKeys(tempIndex), GarbledKeys(tempIndex)}

(* A job that stores a passphrase derives its keys or has none. *)
PassphraseInv ==
    job.passphrase # NoPassphrase =>
        /\ job.kind = "passphrase" /\ cur = job.acct
        /\ pc \in {"passphrase", "temp", "done", "failed"}
        /\ pc \in {"done", "failed"} =>
               ramKeys \in {NoKeys, OwnKeys(job.acct), GarbledKeys(job.acct)}

KeysInv == TypeInv /\ TempInv /\ PassphraseInv

(* ACCOUNT_INDEX_LOGOUT is no account. *)
LEMMA LogoutIsNoAccount == Logout \notin Accounts
  BY PublicInfoAssumption DEF Logout, Accounts

LEMMA InitKeysInv == Init => KeysInv
  <1> SUFFICES ASSUME Init PROVE KeysInv
    OBVIOUS
  <1>1. TempInv
    BY LogoutIsNoAccount DEF Init, TempInv
  <1>2. PassphraseInv
    BY DEF Init, PassphraseInv, NoJob, NewJob
  <1> QED
    BY <1>1, <1>2, InitTypeInv DEF KeysInv

LEMMA StartJobKeysInv == KeysInv /\ StartJob => TempInv' /\ PassphraseInv'
  <1> SUFFICES ASSUME KeysInv, StartJob PROVE TempInv' /\ PassphraseInv'
    OBVIOUS
  <1> USE DEF KeysInv, persistent, keys, session
  <1>1. /\ UNCHANGED << persistent, keys, session >>
        /\ pc = "idle" /\ pc' \in {"destroy", "login", "passphrase", "switch"}
        /\ job'.passphrase # NoPassphrase =>
               /\ pc' = "passphrase" /\ job'.kind = "passphrase"
               /\ job'.acct = cur
    <2>1. ASSUME NEW a \in Accounts, NEW s \in Secrets,
                 ImportWallet(a, s) \/ ForgetPassword(a, s)
          PROVE  <1>1
      BY <2>1 DEF ImportWallet, ForgetPassword, NewJob
    <2>2. CASE DeleteWallet
      BY <2>2 DEF DeleteWallet, NewJob
    <2>3. ASSUME NEW a \in Accounts, EnterPassword(a) PROVE <1>1
      BY <2>3 DEF EnterPassword, NewJob
    <2>4. ASSUME NEW p, WritePassphrase(p) PROVE <1>1
      BY <2>4 DEF WritePassphrase, NewJob
    <2>5. CASE SetupRsa
      BY <2>5 DEF SetupRsa, NewJob
    <2> QED
      BY <2>1, <2>2, <2>3, <2>4, <2>5 DEF StartJob
  <1> QED
    BY <1>1 DEF TempInv, PassphraseInv, OwnKeys, GarbledKeys

LEMMA SessionKeysInv == KeysInv /\ Session => TempInv' /\ PassphraseInv'
  BY DEF KeysInv, TempInv, PassphraseInv, OwnKeys, GarbledKeys, Session,
         Lock, FingerprintUnlock, SaveCurrentAccountInfo, persistent, keys, session

LEMMA JobStepKeysInv == KeysInv /\ JobStep => TempInv' /\ PassphraseInv'
  <1> SUFFICES ASSUME KeysInv, JobStep PROVE TempInv' /\ PassphraseInv'
    OBVIOUS
  <1> USE LogoutIsNoAccount
      DEF KeysInv, TempInv, PassphraseInv, OwnKeys, GarbledKeys,
          persistent, keys, session
  <1>0. job.acct \in Accounts
    BY DEF TypeInv, TypeOK, Job
  <1>a. NoJob.passphrase = NoPassphrase
    BY DEF NoJob, NewJob
  <1>1. CASE DestroyPages
    BY <1>1, <1>0, <1>a DEF DestroyPages
  <1>2. CASE DeleteAccountPublicInfo
    BY <1>2, <1>0, <1>a DEF DeleteAccountPublicInfo
  <1>3. CASE DestroyEnd
    BY <1>3, <1>0, <1>a DEF DestroyEnd
  <1>4. CASE SaveNewEntropy
    BY <1>4, <1>0, <1>a DEF SaveNewEntropy
  <1>5. CASE Login
    BY <1>5, <1>0, <1>a DEF Login, LoginChoosesKeys
  <1>6. CASE SetPassphrase
    BY <1>6, <1>0, <1>a DEF SetPassphrase
  <1>7. CASE TempAccountPublicInfo
    <2>1. Derived(job.acct) \in {OwnKeys(job.acct), GarbledKeys(job.acct)}
      BY DEF Derived
    <2> QED
      BY <1>7, <1>0, <1>a, <2>1 DEF TempAccountPublicInfo
  <1>8. CASE AccountPublicInfoSwitch
    BY <1>8, <1>0, <1>a DEF AccountPublicInfoSwitch
  <1>9. CASE DeriveKeys
    BY <1>9, <1>0, <1>a DEF DeriveKeys
  <1>10. CASE EraseFlash
    BY <1>10, <1>0, <1>a DEF EraseFlash
  <1>11. CASE WriteHash
    BY <1>11, <1>0, <1>a DEF WriteHash
  <1>12. CASE WriteSize
    BY <1>12, <1>0, <1>a DEF WriteSize
  <1>13. CASE WriteJson
    BY <1>13, <1>0, <1>a DEF WriteJson
  <1>14. CASE JobDone
    <2>1. CASE job.kind \in {"create", "forget"}
      <3>1. job.passphrase = NoPassphrase
        BY <2>1
      <3>2. job'.passphrase = job.passphrase
        BY <1>14, <2>1 DEF JobDone, TypeInv, TypeOK, Job
      <3> QED
        BY <1>14, <2>1, <3>1, <3>2 DEF JobDone
    <2>2. CASE job.kind \notin {"create", "forget"}
      BY <1>14, <2>2, <1>a DEF JobDone
    <2> QED
      BY <2>1, <2>2
  <1>15. CASE JobFailed
    BY <1>15, <1>a DEF JobFailed
  <1>16. CASE AteccFails
    BY <1>16, <1>a DEF AteccFails
  <1>17. CASE EmsUnread
    BY <1>17, <1>0, <1>a DEF EmsUnread
  <1> QED
    BY <1>1, <1>2, <1>3, <1>4, <1>5, <1>6, <1>7, <1>8, <1>9, <1>10, <1>11,
       <1>12, <1>13, <1>14, <1>15, <1>16, <1>17 DEF JobStep

LEMMA CrashKeysInv == Crash => TempInv' /\ PassphraseInv'
  BY LogoutIsNoAccount DEF Crash, TempInv, PassphraseInv, NoJob, NewJob

LEMMA NextKeysInv == KeysInv /\ [Next]_vars => KeysInv'
  <1>1. KeysInv /\ UNCHANGED vars => TempInv' /\ PassphraseInv'
    BY DEF KeysInv, TempInv, PassphraseInv, OwnKeys, GarbledKeys,
           vars, persistent, keys, session
  <1>2. KeysInv /\ [Next]_vars => TypeInv'
    BY NextTypeInv DEF KeysInv
  <1> QED
    BY <1>1, <1>2, StartJobKeysInv, SessionKeysInv, JobStepKeysInv,
       CrashKeysInv DEF Next, KeysInv

LEMMA AlwaysKeysInv == Spec => []KeysInv
  BY InitKeysInv, NextKeysInv, PTL DEF Spec

(* TempAccountPublicInfo and VerifyPasswordAndLogin: whatever jobs, errors *)
(* and power losses came before, a login that finds its account named by   *)
(* g_tempPublicKeyAccountIndex keeps keys that were derived for it under   *)
(* the passphrase it has, if from garbage after an error that              *)
(* GetPassphraseSeed drops; never those of another account.                *)
THEOREM TempKeysAreCurrent == Spec => []TempKeysCurrent
  <1>1. KeysInv => TempKeysCurrent
    BY DEF KeysInv, TempInv, TempKeysCurrent
  <1> QED
    BY <1>1, AlwaysKeysInv, PTL

(* SetPassphrase: when the job ends, the account has the keys of the       *)
(* passphrase it stored, none, or what was taken for them after an error   *)
(* that GetPassphraseSeed drops; never those it had before, though the     *)
(* derivation may have failed.                                             *)
THEOREM PassphraseHasKeysOrNone == Spec => []PassphraseKeysOrNone
  <1>1. KeysInv => PassphraseKeysOrNone
    BY DEF KeysInv, PassphraseInv, PassphraseKeysOrNone
  <1> QED
    BY <1>1, AlwaysKeysInv, PTL

-----------------------------------------------------------------------------
(***************************************************************************)
(* Sessions without ATECC608B errors: which wallet is current, and whose   *)
(* keys and description it has.                                            *)
(***************************************************************************)

(* The steps at which a job gives the current account its keys. *)
Binding == {"switch", "seed", "erase", "hash", "size", "json", "passphrase",
            "temp", "done", "failed"}

(* The last account has a wallet, its description and its keys, unless the *)
(* JSON of its keys was cut off.                                           *)
Live ==
    /\ last \in Accounts /\ wallet[last] # NoSecret /\ info = wallet[last]
    /\ \/ ramKeys = OwnKeys(last)
       \/ ramKeys = NoKeys /\ flash[last] = Torn
    /\ ~isTemp => passphrase[last] = NoPassphrase

(* The last account is the current one, or the one a finger makes current  *)
(* again.                                                                  *)
RestInv ==
    pc = "idle" =>
        /\ Unlocked \/ ~firstUnlock => Live
        /\ Unlocked => cur = last

(* Where a job stands that erases a wallet and may write another. *)
DestroyInv ==
    /\ pc \in {"destroy", "flash", "clear"}
           => job.kind \in {"create", "forget", "delete"}
    /\ pc = "save" =>
           /\ job.kind \in {"create", "forget"}
           /\ flash[job.acct] = Blank
           /\ cur = job.acct /\ passphrase[job.acct] = NoPassphrase

(* Where a job stands that gives a wallet its keys. *)
BindInv ==
    /\ pc = "login" => job.kind \in {"login", "logout"}
    /\ pc \in Binding =>
           /\ job.kind # "delete"
           /\ cur = job.acct
           /\ wallet[job.acct] # NoSecret /\ info = wallet[job.acct]
           /\ job.kind \notin {"create", "forget"} => last = job.acct
    /\ pc \in {"switch", "seed", "erase", "hash", "size", "json"}
           => passphrase[job.acct] = NoPassphrase
    /\ pc \in {"erase", "hash", "size", "json", "done"}
           => ramKeys = OwnKeys(job.acct)
    /\ pc = "temp" => isTemp

(* Where a job stands whose switch failed, or that is about to end. *)
EndInv ==
    /\ pc = "failed" =>
           /\ job.kind \notin {"create", "forget"}
           /\ ramKeys = NoKeys /\ flash[job.acct] = Torn
    /\ pc \in {"done", "failed"} /\ ~isTemp
           => passphrase[job.acct] = NoPassphrase

(* The temporary keys are those of the wallet of the account they name.    *)
OwnTempInv ==
    tempIndex \in Accounts /\ pc \notin {"flash", "switch", "temp"}
        => ramKeys = OwnKeys(tempIndex)

SessionInv ==
    /\ param = wallet
    /\ FlashHoldsBase
    /\ RestInv
    /\ DestroyInv
    /\ BindInv
    /\ EndInv

WholeInv == KeysInv /\ IInv /\ SessionInv /\ OwnTempInv

(* The keys derived for a wallet that is described are its own. *)
LEMMA OwnDerived ==
    ASSUME NEW a, info = wallet[a]
    PROVE  Derived(a) = OwnKeys(a)
  BY DEF Derived, RightInfo

(* The description is the right one wherever keys are derived. *)
LEMMA DescribedWhenDerived ==
    SessionInv /\ pc \in {"seed", "temp"} => info = wallet[job.acct]
  BY DEF SessionInv, BindInv, Binding

(* Two sets of keys with the same fields are the same. *)
LEMMA SameKeys ==
    ASSUME TypeInv, NEW a \in Accounts, wallet[a] # NoSecret, Good(a),
           FlashHoldsBase, passphrase[a] = NoPassphrase
    PROVE  flash[a] = OwnKeys(a)
  <1>1. /\ flash[a].secret = wallet[a] /\ flash[a].passphrase = passphrase[a]
        /\ flash[a].version = version
    BY DEF FlashHoldsBase, Good
  <1>2. flash[a] \in KeySet
    BY DEF Good
  <1> QED
    BY <1>1, <1>2 DEF KeySet, OwnKeys

(* Only a JSON that was cut off is refused. *)
LEMMA RefusedIsTorn ==
    ASSUME TypeInv, IInv, NEW a \in Accounts, Refused(a)
    PROVE  flash[a] = Torn
  BY DEF TypeInv, TypeOK, IInv, KeysVerify, Refused

LEMMA InitSessionInv == Init => SessionInv
  <1> SUFFICES ASSUME Init PROVE SessionInv
    OBVIOUS
  <1>1. param = wallet
    BY DEF Init
  <1>2. FlashHoldsBase
    <2>1. PICK s \in Secrets, old \in BOOLEAN :
            /\ wallet = [a \in Accounts |->
                          IF old /\ a = 0 THEN s ELSE NoSecret]
            /\ flash = [a \in Accounts |->
                          IF old /\ a = 0
                          THEN [secret |-> s, passphrase |-> NoPassphrase,
                                version |-> 0]
                          ELSE Blank]
      BY DEF Init
    <2> QED
      BY <2>1, NotKeys DEF FlashHoldsBase
  <1>3. RestInv /\ DestroyInv /\ BindInv /\ EndInv
    BY LogoutIsNoAccount
       DEF Init, RestInv, DestroyInv, BindInv, EndInv, Binding
  <1> QED
    BY <1>1, <1>2, <1>3 DEF SessionInv

LEMMA StartJobSessionInv == WholeInv /\ StartJob => SessionInv'
  <1> SUFFICES ASSUME WholeInv, StartJob PROVE SessionInv'
    OBVIOUS
  <1> USE DEF persistent, keys, session
  <1>1. UNCHANGED << persistent, keys, session >> /\ pc = "idle"
    BY
       DEF StartJob, ImportWallet, ForgetPassword, DeleteWallet, EnterPassword,
           WritePassphrase, SetupRsa
  <1>2. \/ pc' = "destroy" /\ job'.kind \in {"create", "forget", "delete"}
        \/ pc' = "login" /\ job'.kind = "login"
        \/ /\ Unlocked /\ job'.acct = cur /\ wallet[cur] # NoSecret
           /\ \/ pc' = "passphrase" /\ job'.kind = "passphrase"
              \/ pc' = "switch" /\ job'.kind = "rsa" /\ ~isTemp
    <2>1. ASSUME NEW a \in Accounts, NEW s \in Secrets,
                 ImportWallet(a, s) \/ ForgetPassword(a, s)
          PROVE  <1>2
      BY <2>1 DEF ImportWallet, ForgetPassword, NewJob
    <2>2. CASE DeleteWallet
      BY <2>2 DEF DeleteWallet, NewJob
    <2>3. ASSUME NEW a \in Accounts, EnterPassword(a) PROVE <1>2
      BY <2>3 DEF EnterPassword, NewJob
    <2>4. ASSUME NEW p, WritePassphrase(p) PROVE <1>2
      BY <2>4 DEF WritePassphrase, NewJob
    <2>5. CASE SetupRsa
      BY <2>5 DEF SetupRsa, NewJob
    <2> QED
      BY <2>1, <2>2, <2>3, <2>4, <2>5 DEF StartJob
  <1>3. param' = wallet' /\ FlashHoldsBase'
    BY <1>1 DEF WholeInv, SessionInv, FlashHoldsBase
  <1>4. Unlocked => Live /\ cur = last
    BY <1>1 DEF WholeInv, SessionInv, RestInv
  <1>5. RestInv' /\ DestroyInv' /\ EndInv'
    BY <1>2 DEF RestInv, DestroyInv, EndInv
  <1>6. BindInv'
    BY <1>1, <1>2, <1>4 DEF BindInv, Binding, Live
  <1> QED
    BY <1>3, <1>5, <1>6 DEF SessionInv

LEMMA SessionSessionInv == WholeInv /\ Session => SessionInv'
  <1> SUFFICES ASSUME WholeInv, Session PROVE SessionInv'
    OBVIOUS
  <1> USE DEF persistent, keys, session
  <1>1. /\ UNCHANGED << wallet, flash, hash, version, keys, last, info,
                        passphrase, firstUnlock, pc, job >>
    BY DEF Session, Lock, FingerprintUnlock, SaveCurrentAccountInfo
  <1>2. FlashHoldsBase'
    BY <1>1 DEF WholeInv, SessionInv, FlashHoldsBase
  <1>3. Live' = Live
    BY <1>1 DEF Live, OwnKeys
  <1>4. param' = wallet'
    <2>1. CASE SaveCurrentAccountInfo
      <3>1. info = wallet[cur] /\ cur \in Accounts
        BY <2>1
           DEF SaveCurrentAccountInfo, WholeInv, SessionInv, RestInv, Live
      <3> QED
        BY <2>1, <3>1 DEF SaveCurrentAccountInfo, WholeInv, SessionInv,
                          KeysInv, TypeInv, TypeOK
    <2>2. CASE Lock \/ FingerprintUnlock
      BY <2>2 DEF Lock, FingerprintUnlock, WholeInv, SessionInv
    <2> QED
      BY <2>1, <2>2 DEF Session
  <1>5. SessionInv /\ last \in Accounts \cup {Logout}
    BY DEF WholeInv, KeysInv, TypeInv, TypeOK
  <1>6. RestInv'
    BY <1>1, <1>3, <1>5, LogoutIsNoAccount
       DEF SessionInv, RestInv, Session, Lock, FingerprintUnlock,
           SaveCurrentAccountInfo, Live
  <1>7. DestroyInv'
    BY <1>1, <1>5
       DEF SessionInv, DestroyInv, Session, Lock, FingerprintUnlock,
                      SaveCurrentAccountInfo
  <1>8. BindInv'
    BY <1>1, <1>5 DEF SessionInv, BindInv, Binding, OwnKeys, Session, Lock,
                      FingerprintUnlock, SaveCurrentAccountInfo
  <1>9. EndInv'
    BY <1>1, <1>5 DEF SessionInv, EndInv
  <1> QED
    BY <1>2, <1>4, <1>6, <1>7, <1>8, <1>9 DEF SessionInv

LEMMA JobStepSessionInv ==
    WholeInv /\ JobStep /\ ~AteccFaults => SessionInv'
  <1> SUFFICES ASSUME WholeInv, JobStep, ~AteccFaults PROVE SessionInv'
    OBVIOUS
  <1> USE DEF persistent, keys, session
  <1>0. /\ job.acct \in Accounts
        /\ DOMAIN wallet = Accounts /\ DOMAIN param = Accounts
        /\ DOMAIN flash = Accounts /\ DOMAIN passphrase = Accounts
        /\ wallet \in [Accounts -> Secrets \cup {NoSecret}]
    BY DEF WholeInv, KeysInv, TypeInv, TypeOK, Job
  <1>a. SessionInv /\ TypeInv /\ IInv /\ WorkInv
    BY DEF WholeInv, KeysInv, TypeInv
  <1> DEFINE Progress == RestInv /\ DestroyInv /\ BindInv /\ EndInv
  <1>b. ASSUME (param = wallet)', FlashHoldsBase', Progress'
        PROVE  SessionInv'
    BY <1>b DEF SessionInv
  <1>c. ASSUME UNCHANGED << wallet, flash >>
        PROVE  FlashHoldsBase'
    BY <1>a, <1>c DEF SessionInv, FlashHoldsBase
  <1> USE DEF RestInv, DestroyInv, BindInv, EndInv, Binding
  <1>1. CASE DestroyPages
    <2>1. param' = wallet'
      BY <1>1, <1>0, <1>a DEF DestroyPages, SessionInv
    <2>2. FlashHoldsBase'
      BY <1>1, <1>0, <1>a, NotKeys
         DEF DestroyPages, SessionInv, FlashHoldsBase
    <2>3. Progress'
      BY <1>1, <1>0, <1>a DEF DestroyPages, SessionInv, OwnKeys
    <2> QED
      BY <1>b, <2>1, <2>2, <2>3
  <1>2. CASE DeleteAccountPublicInfo
    <2>1. param' = wallet'
      BY <1>2, <1>0, <1>a DEF DeleteAccountPublicInfo, SessionInv
    <2>2. FlashHoldsBase'
      BY <1>2, <1>0, <1>a, NotKeys
         DEF DeleteAccountPublicInfo, SessionInv, FlashHoldsBase
    <2>3. Progress'
      BY <1>2, <1>0, <1>a DEF DeleteAccountPublicInfo, SessionInv, OwnKeys
    <2> QED
      BY <1>b, <2>1, <2>2, <2>3
  <1>3. CASE DestroyEnd
    <2>1. param' = wallet'
      BY <1>3, <1>0, <1>a DEF DestroyEnd, SessionInv
    <2>2. FlashHoldsBase'
      BY <1>3, <1>c DEF DestroyEnd
    <2>3. Progress'
      <3>1. flash[job.acct] = Blank
        BY <1>3, <1>a DEF DestroyEnd, IInv, SaveInv
      <3>2. CASE job.kind = "delete"
        BY <1>3, <3>2, LogoutIsNoAccount DEF DestroyEnd
      <3>3. CASE job.kind # "delete"
        <4>1. pc' = "save" /\ job' = job /\ cur' = job.acct /\ flash' = flash
          BY <1>3, <3>3 DEF DestroyEnd
        <4>2. job.kind \in {"create", "forget"}
          BY <1>3, <3>3, <1>a DEF DestroyEnd, SessionInv
        <4>3. passphrase'[job.acct] = NoPassphrase
          BY <1>3, <1>0 DEF DestroyEnd
        <4> QED
          BY <3>1, <4>1, <4>2, <4>3
      <3> QED
        BY <3>2, <3>3
    <2> QED
      BY <1>b, <2>1, <2>2, <2>3
  <1>4. CASE SaveNewEntropy
    <2>1. param' = wallet'
      BY <1>4, <1>0, <1>a DEF SaveNewEntropy, SessionInv
    <2>2. FlashHoldsBase'
      BY <1>4, <1>0, <1>a, NotKeys
         DEF SaveNewEntropy, SessionInv, FlashHoldsBase
    <2>3. Progress'
      <3>1. job.secret # NoSecret
        BY <1>4, <1>a, PublicInfoAssumption DEF SaveNewEntropy, WorkInv
      <3>2. job.kind \in {"create", "forget"} /\ cur = job.acct
            /\ passphrase[job.acct] = NoPassphrase
        BY <1>4, <1>a DEF SaveNewEntropy, SessionInv
      <3>3. wallet'[job.acct] = job.secret /\ info' = job.secret
        BY <1>4, <1>0 DEF SaveNewEntropy
      <3>4. UNCHANGED << job, cur, passphrase >> /\ pc' = "switch"
        BY <1>4 DEF SaveNewEntropy
      <3> QED
        BY <3>1, <3>2, <3>3, <3>4
    <2> QED
      BY <1>b, <2>1, <2>2, <2>3
  <1>5. CASE Login
    <2>1. param' = wallet'
      BY <1>5, <1>0, <1>a DEF Login, SessionInv
    <2>2. FlashHoldsBase'
      BY <1>5, <1>c DEF Login
    <2>3. Progress'
      <3>1. /\ pc' \in {"switch", "temp", "done"}
            /\ UNCHANGED << job, wallet, passphrase, version, ramKeys >>
            /\ cur' = job.acct /\ last' = job.acct
            /\ pc' = "switch" => passphrase[job.acct] = NoPassphrase
            /\ pc' \in {"temp", "done"} => isTemp'
        BY <1>5 DEF Login, LoginChoosesKeys
      <3>2. job.kind \in {"login", "logout"} /\ wallet[job.acct] # NoSecret
        BY <1>5, <1>a DEF Login, SessionInv, WorkInv, Working
      <3>3. info' = wallet[job.acct]
        BY <1>5, <1>a DEF Login, SessionInv
      <3>4. pc' = "done" => ramKeys = OwnKeys(job.acct)
        BY <1>5, <1>0
           DEF Login, LoginChoosesKeys, WholeInv, OwnTempInv
      <3>5. OwnKeys(job.acct)' = OwnKeys(job.acct)
        BY <3>1 DEF OwnKeys
      <3> QED
        BY <3>1, <3>2, <3>3, <3>4, <3>5
    <2> QED
      BY <1>b, <2>1, <2>2, <2>3
  <1>6. CASE SetPassphrase
    <2>1. param' = wallet'
      BY <1>6, <1>0, <1>a DEF SetPassphrase, SessionInv
    <2>2. FlashHoldsBase'
      BY <1>6, <1>c DEF SetPassphrase
    <2>3. Progress'
      BY <1>6, <1>0, <1>a DEF SetPassphrase, SessionInv, OwnKeys
    <2> QED
      BY <1>b, <2>1, <2>2, <2>3
  <1>7. CASE TempAccountPublicInfo
    <2>1. param' = wallet'
      BY <1>7, <1>0, <1>a DEF TempAccountPublicInfo, SessionInv
    <2>2. FlashHoldsBase'
      BY <1>7, <1>c DEF TempAccountPublicInfo
    <2>3. Progress'
      <3>1. Derived(job.acct) = OwnKeys(job.acct)
        BY <1>7, <1>a, OwnDerived, DescribedWhenDerived
           DEF TempAccountPublicInfo
      <3> QED
        BY <1>7, <1>0, <1>a, <3>1
           DEF TempAccountPublicInfo, SessionInv, OwnKeys
    <2> QED
      BY <1>b, <2>1, <2>2, <2>3
  <1>8. CASE AccountPublicInfoSwitch
    <2>1. param' = wallet'
      BY <1>8, <1>0, <1>a DEF AccountPublicInfoSwitch, SessionInv
    <2>2. FlashHoldsBase'
      BY <1>8, <1>c DEF AccountPublicInfoSwitch
    <2>3. Progress'
      <3>1. /\ UNCHANGED << job, wallet, flash, passphrase, version, cur, last,
                            info >>
            /\ isTemp' = FALSE
            /\ \/ pc' = "seed"
               \/ pc' = "failed" /\ ~NewKey /\ Refused(job.acct)
                  /\ ramKeys' = NoKeys
               \/ pc' = "done" /\ Good(job.acct) /\ ramKeys' = flash[job.acct]
        BY <1>8 DEF AccountPublicInfoSwitch
      <3>2. /\ job.kind # "delete" /\ cur = job.acct
            /\ wallet[job.acct] # NoSecret /\ info = wallet[job.acct]
            /\ job.kind \notin {"create", "forget"} => last = job.acct
            /\ passphrase[job.acct] = NoPassphrase
        BY <1>8, <1>a DEF AccountPublicInfoSwitch, SessionInv
      <3>3. Refused(job.acct) => flash[job.acct] = Torn
        BY RefusedIsTorn, <1>0, <1>a
      <3>4. Good(job.acct) => flash[job.acct] = OwnKeys(job.acct)
        BY SameKeys, <1>0, <1>a, <3>2 DEF SessionInv
      <3>5. OwnKeys(job.acct)' = OwnKeys(job.acct)
        BY <3>1 DEF OwnKeys
      <3> QED
        BY <3>1, <3>2, <3>3, <3>4, <3>5 DEF NewKey
    <2> QED
      BY <1>b, <2>1, <2>2, <2>3
  <1>9. CASE DeriveKeys
    <2>1. param' = wallet'
      BY <1>9, <1>0, <1>a DEF DeriveKeys, SessionInv
    <2>2. FlashHoldsBase'
      BY <1>9, <1>c DEF DeriveKeys
    <2>3. Progress'
      <3>1. Derived(job.acct) = OwnKeys(job.acct)
        BY <1>9, <1>a, OwnDerived, DescribedWhenDerived DEF DeriveKeys
      <3> QED
        BY <1>9, <1>0, <1>a, <3>1 DEF DeriveKeys, SessionInv, OwnKeys
    <2> QED
      BY <1>b, <2>1, <2>2, <2>3
  <1>10. CASE EraseFlash
    <2>1. param' = wallet'
      BY <1>10, <1>0, <1>a DEF EraseFlash, SessionInv
    <2>2. FlashHoldsBase'
      BY <1>10, <1>0, <1>a, NotKeys
         DEF EraseFlash, SessionInv, FlashHoldsBase
    <2>3. Progress'
      BY <1>10, <1>0, <1>a DEF EraseFlash, SessionInv, OwnKeys
    <2> QED
      BY <1>b, <2>1, <2>2, <2>3
  <1>11. CASE WriteHash
    <2>1. param' = wallet'
      BY <1>11, <1>0, <1>a DEF WriteHash, SessionInv
    <2>2. FlashHoldsBase'
      BY <1>11, <1>c DEF WriteHash
    <2>3. Progress'
      BY <1>11, <1>0, <1>a DEF WriteHash, SessionInv, OwnKeys
    <2> QED
      BY <1>b, <2>1, <2>2, <2>3
  <1>12. CASE WriteSize
    <2>1. param' = wallet'
      BY <1>12, <1>0, <1>a DEF WriteSize, SessionInv
    <2>2. FlashHoldsBase'
      BY <1>12, <1>0, <1>a, NotKeys
         DEF WriteSize, SessionInv, FlashHoldsBase
    <2>3. Progress'
      BY <1>12, <1>0, <1>a DEF WriteSize, SessionInv, OwnKeys
    <2> QED
      BY <1>b, <2>1, <2>2, <2>3
  <1>13. CASE WriteJson
    <2>1. param' = wallet'
      BY <1>13, <1>0, <1>a DEF WriteJson, SessionInv
    <2>2. FlashHoldsBase'
      BY <1>13, <1>0, <1>a, NotKeys
         DEF WriteJson, SessionInv, FlashHoldsBase, OwnKeys
    <2>3. Progress'
      BY <1>13, <1>0, <1>a DEF WriteJson, SessionInv, OwnKeys
    <2> QED
      BY <1>b, <2>1, <2>2, <2>3
  <1>14. CASE JobDone
    <2>1. CASE job.kind \in {"create", "forget"}
      <3>1. /\ UNCHANGED << param, wallet, flash >> /\ pc' = "login"
        BY <1>14, <2>1 DEF JobDone
      <3>2. job'.kind \in {"login", "logout"}
        BY <1>14, <2>1, <1>a DEF JobDone, TypeInv, TypeOK, Job
      <3> QED
        BY <3>1, <3>2, <1>b, <1>c, <1>a DEF SessionInv
    <2>2. CASE job.kind \notin {"create", "forget"}
      <3>1. param' = wallet'
        <4>1. cur = job.acct /\ info = wallet[cur] /\ param = wallet
              /\ wallet' = wallet
          BY <1>14, <1>a DEF JobDone, SessionInv
        <4>2. param' = param \/ param' = [param EXCEPT ![cur] = info]
          BY <1>14, <2>2 DEF JobDone
        <4> QED
          BY <4>1, <4>2, <1>0
      <3>2. FlashHoldsBase'
        BY <1>14, <1>c DEF JobDone
      <3>3. Progress'
        BY <1>14, <2>2, <1>0, <1>a, LogoutIsNoAccount
           DEF JobDone, SessionInv, Live, OwnKeys
      <3> QED
        BY <3>1, <3>2, <3>3, <1>b
    <2> QED
      BY <2>1, <2>2
  <1>15. CASE JobFailed
    <2>1. param' = wallet'
      <3>1. cur = job.acct /\ info = wallet[cur] /\ param = wallet
            /\ wallet' = wallet
        BY <1>15, <1>a DEF JobFailed, SessionInv
      <3>2. param' = param \/ param' = [param EXCEPT ![cur] = info]
        BY <1>15 DEF JobFailed
      <3> QED
        BY <3>1, <3>2, <1>0
    <2>2. FlashHoldsBase'
      BY <1>15, <1>c DEF JobFailed
    <2>3. Progress'
      BY <1>15, <1>0, <1>a, LogoutIsNoAccount
         DEF JobFailed, SessionInv, Live
    <2> QED
      BY <2>1, <2>2, <2>3, <1>b
  <1>16. CASE AteccFails
    BY <1>16 DEF AteccFails
  <1>17. CASE EmsUnread
    BY <1>17 DEF EmsUnread
  <1> QED
    BY <1>1, <1>2, <1>3, <1>4, <1>5, <1>6, <1>7, <1>8, <1>9, <1>10, <1>11,
       <1>12, <1>13, <1>14, <1>15, <1>16, <1>17 DEF JobStep

(* A job that keeps or derives temporary keys has its wallet described.    *)
LEMMA JobStepOwnTempInv ==
    WholeInv /\ JobStep /\ ~AteccFaults => OwnTempInv'
  <1> SUFFICES ASSUME WholeInv, JobStep, ~AteccFaults PROVE OwnTempInv'
    OBVIOUS
  <1> USE LogoutIsNoAccount DEF OwnTempInv, OwnKeys, persistent, keys, session
  <1>0. /\ OwnTempInv /\ job.acct \in Accounts
        /\ pc \in {"clear", "save", "seed", "erase", "hash", "size", "json"}
               => tempIndex = Logout
    BY DEF WholeInv, KeysInv, TempInv, TypeInv, TypeOK, Job
  <1>1. CASE DestroyPages
    BY <1>1, <1>0 DEF DestroyPages
  <1>2. CASE DeleteAccountPublicInfo
    BY <1>2, <1>0 DEF DeleteAccountPublicInfo
  <1>3. CASE DestroyEnd
    BY <1>3, <1>0 DEF DestroyEnd
  <1>4. CASE SaveNewEntropy
    BY <1>4, <1>0 DEF SaveNewEntropy
  <1>5. CASE Login
    BY <1>5, <1>0 DEF Login, LoginChoosesKeys
  <1>6. CASE SetPassphrase
    BY <1>6, <1>0 DEF SetPassphrase
  <1>7. CASE TempAccountPublicInfo
    <2>1. Derived(job.acct) = OwnKeys(job.acct)
      BY <1>7, OwnDerived, DescribedWhenDerived
         DEF TempAccountPublicInfo, WholeInv
    <2> QED
      BY <1>7, <1>0, <2>1 DEF TempAccountPublicInfo
  <1>8. CASE AccountPublicInfoSwitch
    BY <1>8, <1>0 DEF AccountPublicInfoSwitch
  <1>9. CASE DeriveKeys
    BY <1>9, <1>0 DEF DeriveKeys
  <1>10. CASE EraseFlash
    BY <1>10, <1>0 DEF EraseFlash
  <1>11. CASE WriteHash
    BY <1>11, <1>0 DEF WriteHash
  <1>12. CASE WriteSize
    BY <1>12, <1>0 DEF WriteSize
  <1>13. CASE WriteJson
    BY <1>13, <1>0 DEF WriteJson
  <1>14. CASE JobDone
    BY <1>14, <1>0 DEF JobDone
  <1>15. CASE JobFailed
    BY <1>15, <1>0 DEF JobFailed
  <1>16. CASE AteccFails
    BY <1>16, <1>0 DEF AteccFails
  <1>17. CASE EmsUnread
    BY <1>17, <1>0 DEF EmsUnread
  <1> QED
    BY <1>1, <1>2, <1>3, <1>4, <1>5, <1>6, <1>7, <1>8, <1>9, <1>10, <1>11,
       <1>12, <1>13, <1>14, <1>15, <1>16, <1>17 DEF JobStep

LEMMA NextOwnTempInv ==
    ~AteccFaults => (WholeInv /\ [Next]_vars => OwnTempInv')
  <1> SUFFICES ASSUME ~AteccFaults, WholeInv, [Next]_vars PROVE OwnTempInv'
    OBVIOUS
  <1> USE LogoutIsNoAccount DEF OwnTempInv, OwnKeys, persistent, keys, session
  <1>0. OwnTempInv
    BY DEF WholeInv
  <1>1. CASE UNCHANGED vars
    BY <1>0, <1>1 DEF vars
  <1>2. CASE StartJob
    <2>1. pc = "idle" /\ UNCHANGED << persistent, keys, session >>
      BY <1>2
         DEF StartJob, ImportWallet, ForgetPassword, DeleteWallet,
             EnterPassword, WritePassphrase, SetupRsa
    <2> QED
      BY <1>0, <2>1
  <1>3. CASE Session
    BY <1>0, <1>3 DEF Session, Lock, FingerprintUnlock, SaveCurrentAccountInfo
  <1>4. CASE JobStep
    BY <1>4, JobStepOwnTempInv
  <1>5. CASE Crash
    BY <1>5 DEF Crash
  <1> QED
    BY <1>1, <1>2, <1>3, <1>4, <1>5 DEF Next

LEMMA CrashSessionInv == WholeInv /\ Crash => SessionInv'
  <1> SUFFICES ASSUME WholeInv, Crash PROVE SessionInv'
    OBVIOUS
  <1>1. param' = wallet' /\ FlashHoldsBase'
    BY DEF Crash, WholeInv, SessionInv, FlashHoldsBase
  <1>2. RestInv' /\ DestroyInv' /\ BindInv' /\ EndInv'
    BY LogoutIsNoAccount
       DEF Crash, RestInv, DestroyInv, BindInv, EndInv, Binding
  <1> QED
    BY <1>1, <1>2 DEF SessionInv

LEMMA NextWholeInv == ~AteccFaults => (WholeInv /\ [Next]_vars => WholeInv')
  <1> SUFFICES ASSUME ~AteccFaults, WholeInv, [Next]_vars PROVE WholeInv'
    OBVIOUS
  <1>1. KeysInv' /\ IInv' /\ OwnTempInv'
    BY NextKeysInv, NextIInv, NextOwnTempInv DEF WholeInv
  <1>2. CASE UNCHANGED vars
    <2> USE <1>2 DEF WholeInv, SessionInv, vars, persistent, keys, session
    <2>1. param' = wallet' /\ FlashHoldsBase'
      BY DEF FlashHoldsBase
    <2>2. RestInv'
      BY DEF RestInv, Live, OwnKeys
    <2>3. DestroyInv' /\ EndInv'
      BY DEF DestroyInv, EndInv
    <2>4. BindInv'
      BY DEF BindInv, Binding, OwnKeys
    <2> QED
      BY <1>1, <2>1, <2>2, <2>3, <2>4
  <1>3. CASE Next
    <2>1. SessionInv'
      BY <1>3, StartJobSessionInv, SessionSessionInv, JobStepSessionInv,
         CrashSessionInv DEF Next
    <2> QED
      BY <1>1, <2>1 DEF WholeInv
  <1> QED
    BY <1>2, <1>3

LEMMA AlwaysWholeInv == ~AteccFaults => (Spec => []WholeInv)
  <1> SUFFICES ASSUME ~AteccFaults PROVE Spec => []WholeInv
    OBVIOUS
  <1>1. Init => WholeInv
    <2>1. Init => OwnTempInv
      BY LogoutIsNoAccount DEF Init, OwnTempInv
    <2> QED
      BY <2>1, InitKeysInv, InitIInv, InitSessionInv DEF WholeInv
  <1>2. WholeInv /\ [Next]_vars => WholeInv'
    BY NextWholeInv
  <1> QED
    BY <1>1, <1>2, PTL DEF Spec

(* GetCurrentAccountPublicKey, without ATECC608B errors: the one RAM copy  *)
(* answers for the account that is current, under its passphrase, however  *)
(* it was unlocked.                                                        *)
THEOREM RamKeysAlwaysMatch == ~AteccFaults => (Spec => []RamKeysMatch)
  <1> SUFFICES ASSUME ~AteccFaults PROVE Spec => []RamKeysMatch
    OBVIOUS
  <1>1. WholeInv => RamKeysMatch
    BY DEF WholeInv, SessionInv, RestInv, Live, RamKeysMatch, Resting
  <1> QED
    BY <1>1, AlwaysWholeInv, PTL

(* AccountPublicInfoSwitch, without ATECC608B errors: an unlocked wallet   *)
(* has its keys unless its JSON was cut off.                               *)
THEOREM UnlockedKeepsKeys == ~AteccFaults => (Spec => []UnlockedHasKeys)
  <1> SUFFICES ASSUME ~AteccFaults PROVE Spec => []UnlockedHasKeys
    OBVIOUS
  <1>1. WholeInv => UnlockedHasKeys
    <2> SUFFICES ASSUME WholeInv, Resting, wallet[cur] # NoSecret,
                        flash[cur] # Torn
                 PROVE  ramKeys # NoKeys
      BY DEF UnlockedHasKeys
    <2>1. ramKeys = OwnKeys(cur) /\ cur \in Accounts
      BY DEF WholeInv, SessionInv, RestInv, Live, Resting
    <2>2. OwnKeys(cur) \in KeySet
      BY <2>1, OwnKeysType DEF WholeInv, KeysInv, TypeInv
    <2> QED
      BY <2>1, <2>2, NotKeys DEF NoKeys
  <1> QED
    BY <1>1, AlwaysWholeInv, PTL

(* AccountPublicSavePublicInfo, without ATECC608B errors: it saves the     *)
(* keys of the wallet on the account's pages, never those of a passphrase. *)
THEOREM FlashAlwaysHoldsBase == ~AteccFaults => (Spec => []FlashHoldsBase)
  <1> SUFFICES ASSUME ~AteccFaults PROVE Spec => []FlashHoldsBase
    OBVIOUS
  <1>1. WholeInv => FlashHoldsBase
    BY DEF WholeInv, SessionInv
  <1> QED
    BY <1>1, AlwaysWholeInv, PTL

(* SaveCurrentAccountInfo, without ATECC608B errors: the description in    *)
(* RAM and the one on the page are those of the current wallet.            *)
THEOREM InfoAlwaysMatches == ~AteccFaults => (Spec => []InfoMatches)
  <1> SUFFICES ASSUME ~AteccFaults PROVE Spec => []InfoMatches
    OBVIOUS
  <1>1. WholeInv => InfoMatches
    BY DEF WholeInv, SessionInv, RestInv, Live, InfoMatches, Resting
  <1> QED
    BY <1>1, AlwaysWholeInv, PTL
=============================================================================
