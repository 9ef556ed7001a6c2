------------------------------ MODULE Keystore ------------------------------
(***************************************************************************)
(* Wallet accounts kept on the two secure elements: keystore.c,            *)
(* account_manager.c, se_manager.c and the gui_model.c jobs that call      *)
(* them.  An account is eleven secret pages (three ATECC608B slots, eight  *)
(* DS28S60 pages), a password-hash page, a parameter page and the public   *)
(* keys cached in flash.  Every job is a sequence of single-page writes    *)
(* and the device may lose power between any two of them.                  *)
(*                                                                         *)
(* One task runs the jobs one at a time (fetch_sensitive_data_task.c), so  *)
(* there is one job record.  A DS28S60 command that keeps failing ends in  *)
(* an assert that stops the device (drv_ds28s60.c:341-354): it is a Crash, *)
(* before or after the write took effect.  Only the ATECC608B returns      *)
(* errors; CONSTANT AteccFaults turns them on.                             *)
(***************************************************************************)
EXTENDS Naturals, Sequences, FiniteSets

CONSTANTS
    NumAccounts,    \* 3 in the code (the literals 2 and 3)
    Passwords, NoPassword,
    Secrets, NoSecret,
    KindOf,         \* mnemonic type of each secret
    Blank,          \* an erased page
    MaxSaves,       \* bound on the secrets written in one behaviour
    AteccFaults     \* may the ATECC608B return errors?

Accounts == 0 .. NumAccounts - 1
Logout == 255       \* ACCOUNT_INDEX_LOGOUT
Kinds == {"bip39", "slip39", "ton"}

ASSUME KeystoreAssumption ==
    /\ NumAccounts \in 1 .. 255
    /\ NoPassword \notin Passwords
    /\ NoSecret \notin Secrets
    /\ Blank \notin [nonce : Nat, secret : Secrets, password : Passwords]
    /\ Blank \notin [secret : Secrets, password : Passwords, open : BOOLEAN]
    /\ KindOf \in [Secrets -> Kinds]
    /\ MaxSaves \in Nat
    /\ AteccFaults \in BOOLEAN

AteccSlots == {"auth", "rollKdf", "hostKdf"}

(* The order in which SaveAccountSecret writes, key pieces first. *)
SaveOrder == << "auth", "rollKdf", "hostKdf", "keyPiece", "iv", "entropy",
                "seedH32", "seedL32", "ems", "reserved", "hmac" >>

SecretPages == {SaveOrder[i] : i \in 1 .. Len(SaveOrder)}

(* The order in which DestroyAccount and AccountsDataCheck erase the       *)
(* DS28S60 pages.  Pages 10 and 11 hold nothing that is modelled here.     *)
EraseOrder == << "iv", "entropy", "seedH32", "seedL32", "ems", "reserved",
                 "hmac", "keyPiece", "pwHash", "param" >>

(* What one save writes on every page: fresh random key pieces and IV (the *)
(* nonce), and the secret and password they encrypt.                       *)
Data == [nonce : Nat, secret : Secrets, password : Passwords]

(* AccountInfo_t: mnemonic type, the fields derived from the secret        *)
(* (entropyLen, mfp) and the SLIP39 identifier and exponent.               *)
Info == [kind : Kinds, owner : Secrets \cup {NoSecret},
         id : Secrets \cup {NoSecret}]
NoInfo == [kind |-> "bip39", owner |-> NoSecret, id |-> NoSecret]

VARIABLES
    page,       \* page[a][p]: secret page p of account a
    pwHash,     \* pwHash[a]: PAGE_INDEX_PASSWORD_HASH
    param,      \* param[a]: PAGE_INDEX_PARAM
    xpub,       \* xpub[a]: wallet whose public keys the flash caches
    cur,        \* g_currentAccountIndex
    info,       \* g_currentAccountInfo
    pc, step,   \* where the running job is
    job,        \* its arguments
    nonce,      \* random values drawn so far
    torn        \* history: accounts with an unfinished password change

persistent == << page, pwHash, param, xpub >>
ram == << cur, info >>
vars == << persistent, ram, pc, step, job, nonce, torn >>

Job == [kind : {"create", "change", "delete", "boot"},
        acct : Accounts,
        secret : Secrets \cup {NoSecret},
        old : Passwords \cup {NoPassword},
        new : Passwords \cup {NoPassword},
        forget : BOOLEAN]

NewJob(kind, a, s, old, new, forget) ==
    [kind |-> kind, acct |-> a, secret |-> s, old |-> old, new |-> new,
     forget |-> forget]
NoJob == NewJob("boot", 0, NoSecret, NoPassword, NoPassword, FALSE)

Init ==
    /\ page = [a \in Accounts |-> [p \in SecretPages |-> Blank]]
    /\ pwHash = [a \in Accounts |-> NoPassword]
    /\ param = [a \in Accounts |-> NoInfo]
    /\ xpub = [a \in Accounts |-> NoSecret]
    /\ cur = Logout /\ info = NoInfo
    /\ pc = "idle" /\ step = 0 /\ job = NoJob
    /\ nonce = 0 /\ torn = {}

(***************************************************************************)
(* What the code reads off the pages.                                      *)
(***************************************************************************)

(* LoadAccountSecret: the HMAC page verifies only if every page comes from *)
(* the save that wrote it and the key pieces open with this password.      *)
CanLoad(a, pw) ==
    LET d == page[a]["hmac"]
    IN  /\ d # Blank
        /\ d.password = pw
        /\ page[a]["auth"] # Blank
        /\ page[a]["auth"].password = pw
        /\ \A p \in SecretPages \ {"auth"} : page[a][p] = d

Loaded(a) == page[a]["hmac"].secret

(* VerifyPassword: the first account whose hash matches. *)
Verifies(a, pw) ==
    /\ pwHash[a] = pw
    /\ \A b \in Accounts : b < a => pwHash[b] # pw

(* Mutant: the scan stops after the first account. *)
PasswordFreeInFirst(pw, exclude) == pwHash[0] = pw => exclude = 0

(* CheckPasswordExisted: is the password free, but for the excluded index? *)
PasswordFree(pw, exclude) ==
    \A a \in Accounts : Verifies(a, pw) => a = exclude

(* GetBlankAccountIndex: the first account whose IV page is blank. *)
FirstBlank(a) ==
    /\ page[a]["iv"] = Blank
    /\ \A b \in Accounts : b < a => page[b]["iv"] # Blank

(* SpecifiedXPubExist: the first account caching this wallet's keys. *)
XPubExist(a, s) ==
    /\ xpub[a] = s
    /\ \A b \in Accounts : b < a => xpub[b] # s

(***************************************************************************)
(* Starting a job.                                                         *)
(***************************************************************************)
Start(j, where) ==
    /\ pc = "idle"
    /\ pc' = where /\ step' = 1 /\ job' = j

(* Model*WriteEntropyAndSeed, Model*CalWriteEntropyAndSeed: a new wallet   *)
(* in the first blank account, refused if its keys are already cached.     *)
ImportWallet(a, s, pw) ==
    /\ nonce < MaxSaves
    /\ cur # Logout \/ \A b \in Accounts : page[b]["iv"] = Blank
    /\ FirstBlank(a)
    /\ \A b \in Accounts : xpub[b] # s
    /\ Start(NewJob("create", a, s, NoPassword, pw, FALSE), "erase")
    /\ UNCHANGED << persistent, ram, nonce, torn >>

(* The same jobs with "forget": overwrite the account that caches the keys *)
(* of the mnemonic the user typed, under a new password.                   *)
ForgetPassword(a, s, pw) ==
    /\ nonce < MaxSaves
    /\ XPubExist(a, s)
    /\ Start(NewJob("create", a, s, NoPassword, pw, TRUE), "erase")
    /\ UNCHANGED << persistent, ram, nonce, torn >>

(* ModelDelWallet. *)
DeleteWallet ==
    /\ cur \in Accounts
    /\ Start(NewJob("delete", cur, NoSecret, NoPassword, NoPassword, FALSE),
             "erase")
    /\ UNCHANGED << persistent, ram, nonce, torn >>

(* ModelChangeAccountPass: the result of checking the old password is      *)
(* ignored, so any old password reaches ChangePassword.                    *)
ChangePassword(old, new) ==
    /\ nonce < MaxSaves
    /\ cur \in Accounts
    /\ Start(NewJob("change", cur, NoSecret, old, new, FALSE), "check")
    /\ UNCHANGED << persistent, ram, nonce, torn >>

(***************************************************************************)
(* Sessions.                                                               *)
(***************************************************************************)

(* VerifyPasswordAndLogin: on a match the account becomes current and its  *)
(* info is read; AccountPublicInfoSwitch regenerates the cached keys from  *)
(* the secret when the flash holds none.                                   *)
LoginEffect(pw) ==
    \/ /\ \A a \in Accounts : ~Verifies(a, pw)
       /\ UNCHANGED << xpub, ram >>
    \/ \E a \in Accounts :
          /\ Verifies(a, pw)
          /\ cur' = a
          /\ info' = param[a]
          /\ xpub' = IF xpub[a] = NoSecret /\ CanLoad(a, pw)
                     THEN [xpub EXCEPT ![a] = Loaded(a)] ELSE xpub

Login(pw) ==
    /\ pc = "idle"
    /\ LoginEffect(pw)
    /\ UNCHANGED << page, pwHash, param, pc, step, job, nonce, torn >>

(* LogoutCurrentAccount, called when the screen locks.  Jobs disable the   *)
(* screen lock while they run (SetLockScreen(false)).                      *)
LogoutCurrentAccount ==
    /\ pc = "idle"
    /\ cur' = Logout
    /\ UNCHANGED << persistent, info, pc, step, job, nonce, torn >>

(* SetWalletName, SetPasscodeType, SetPassphraseMark, ...: each changes a  *)
(* field that no property is about and saves the whole record.             *)
SaveCurrentAccountInfo ==
    /\ pc = "idle"
    /\ cur \in Accounts
    /\ param' = [param EXCEPT ![cur] = info]
    /\ UNCHANGED << page, pwHash, xpub, ram, pc, step, job, nonce, torn >>

(***************************************************************************)
(* The steps of a job.                                                     *)
(***************************************************************************)
Goto(where, n) == pc' = where /\ step' = n

Finish == Goto("idle", 0) /\ job' = NoJob

Erase(a, p) ==
    /\ page' = IF p \in SecretPages THEN [page EXCEPT ![a][p] = Blank]
                                    ELSE page
    /\ pwHash' = IF p = "pwHash" THEN [pwHash EXCEPT ![a] = NoPassword]
                                 ELSE pwHash
    /\ param' = IF p = "param" THEN [param EXCEPT ![a] = NoInfo] ELSE param
    /\ torn' = torn \ {a}

(* One iteration of the erase loop of DestroyAccount. *)
ErasePage ==
    /\ pc = "erase"
    /\ Erase(job.acct, EraseOrder[step])
    /\ IF step < Len(EraseOrder) THEN Goto("erase", step + 1)
                                 ELSE Goto("erased", 0)
    /\ UNCHANGED << xpub, ram, job, nonce >>

(* Mutant: DeleteAccountPublicInfo is forgotten. *)
DestroyEndKeepsKeys ==
    /\ pc = "erased"
    /\ IF job.kind = "create"
       THEN /\ cur' = job.acct
            /\ info' = [NoInfo EXCEPT !.kind = KindOf[job.secret]]
            /\ Goto("name", 0) /\ job' = job
       ELSE cur' = Logout /\ info' = NoInfo /\ Finish
    /\ UNCHANGED << persistent, nonce, torn >>

(* The rest of DestroyAccount: DeleteAccountPublicInfo, logout.  A create  *)
(* job goes on in CreateNewAccount, CreateNewSlip39Account or              *)
(* CreateNewTonAccount, which make the account current at once.            *)
DestroyEnd ==
    /\ pc = "erased"
    /\ xpub' = [xpub EXCEPT ![job.acct] = NoSecret]
    /\ IF job.kind = "create"
       THEN /\ cur' = job.acct
            /\ info' = [NoInfo EXCEPT !.kind = KindOf[job.secret]]
            /\ Goto("name", 0) /\ job' = job
       ELSE cur' = Logout /\ info' = NoInfo /\ Finish
    /\ UNCHANGED << page, pwHash, param, nonce, torn >>

(* SetWalletName and SetWalletIconIndex. *)
WriteName ==
    /\ pc = "name"
    /\ param' = [param EXCEPT ![cur] = info]
    /\ Goto("check", 0)
    /\ UNCHANGED << page, pwHash, xpub, ram, job, nonce, torn >>

(* CheckPasswordExisted in SaveNewBip39Entropy, SaveNewSlip39Entropy,      *)
(* SaveNewTonMnemonic and ChangePassword.  A refused create leaves the     *)
(* destroyed account current.                                              *)
CheckPassword ==
    /\ pc = "check"
    /\ IF PasswordFree(job.new, IF job.kind = "change" THEN job.acct
                                                       ELSE Logout)
       THEN /\ IF job.kind = "change"
               THEN Goto("load", 0) /\ UNCHANGED nonce
               ELSE Goto("save", 1) /\ nonce' = nonce + 1
            /\ job' = job
       ELSE Finish /\ UNCHANGED nonce
    /\ UNCHANGED << persistent, ram, torn >>

(* Mutant: the result of LoadAccountSecret is ignored. *)
LoadSecretIgnored ==
    /\ pc = "load"
    /\ \E s \in Secrets : job' = [job EXCEPT !.secret = s]
    /\ Goto("save", 1) /\ nonce' = nonce + 1
    /\ UNCHANGED << persistent, ram, torn >>

(* LoadAccountSecret with the old password in ChangePassword. *)
LoadSecret ==
    /\ pc = "load"
    /\ IF CanLoad(job.acct, job.old)
       THEN /\ job' = [job EXCEPT !.secret = Loaded(job.acct)]
            /\ Goto("save", 1) /\ nonce' = nonce + 1
       ELSE Finish /\ UNCHANGED nonce
    /\ UNCHANGED << persistent, ram, torn >>

(* One page write of SaveAccountSecret (SetNewKeyPieceToSE first).  After  *)
(* the last one a new account gets its entropyLen and mfp.                 *)
SavePage ==
    /\ pc = "save"
    /\ page' = [page EXCEPT ![job.acct][SaveOrder[step]] =
                    [nonce |-> nonce, secret |-> job.secret,
                     password |-> job.new]]
    /\ IF step < Len(SaveOrder)
       THEN Goto("save", step + 1) /\ UNCHANGED info
       ELSE IF job.kind = "create"
            THEN info' = [info EXCEPT !.owner = job.secret] /\ Goto("param", 0)
            ELSE Goto("hash", 0) /\ UNCHANGED info
    /\ torn' = IF job.kind = "change" THEN torn \cup {job.acct} ELSE torn
    /\ UNCHANGED << pwHash, param, xpub, cur, job, nonce >>

(* Mutant: the parameters are saved by CreateNewAccount only. *)
WriteParamLater ==
    /\ pc = "param"
    /\ Goto("hash", 0)
    /\ UNCHANGED << persistent, ram, job, nonce, torn >>

(* SaveCurrentAccountInfo at the end of SaveAccountSecret. *)
WriteParam ==
    /\ pc = "param"
    /\ param' = [param EXCEPT ![cur] = info]
    /\ Goto("hash", 0)
    /\ UNCHANGED << page, pwHash, xpub, ram, job, nonce, torn >>

(* The password hash is written last; it is what makes the account one     *)
(* that can be unlocked.  SLIP39 then sets its identifier in RAM.          *)
WriteHash ==
    /\ pc = "hash"
    /\ pwHash' = [pwHash EXCEPT ![job.acct] = job.new]
    /\ IF job.kind = "create"
       THEN /\ info' = IF KindOf[job.secret] = "slip39"
                       THEN [info EXCEPT !.id = job.secret] ELSE info
            /\ Goto("info", 0) /\ job' = job
       ELSE Finish /\ UNCHANGED info
    /\ torn' = torn \ {job.acct}
    /\ UNCHANGED << page, param, xpub, cur, nonce >>

(* SaveCurrentAccountInfo at the end of CreateNewAccount. *)
WriteInfo ==
    /\ pc = "info"
    /\ param' = [param EXCEPT ![cur] = info]
    /\ Goto("xpub", 0)
    /\ UNCHANGED << page, pwHash, xpub, ram, job, nonce, torn >>

(* AccountPublicInfoSwitch(newKey = true). *)
GeneratePublicInfo ==
    /\ pc = "xpub"
    /\ CanLoad(job.acct, job.new)
    /\ xpub' = [xpub EXCEPT ![job.acct] = Loaded(job.acct)]
    /\ Goto("login", 0)
    /\ UNCHANGED << page, pwHash, param, ram, job, nonce, torn >>

(* VerifyPasswordAndLogin after a create; with "forget" the wallet         *)
(* description is restored (SetWalletName) and the account logged out.     *)
LoginNewAccount ==
    /\ pc = "login"
    /\ \E a \in Accounts :
          /\ Verifies(a, job.new)
          /\ info' = param[a]
          /\ cur' = IF job.forget THEN Logout ELSE a
    /\ Finish
    /\ UNCHANGED << persistent, nonce, torn >>

(* The ATECC608B returns an error while the key pieces are written, while  *)
(* they are derived or while they are read back: the job gives up there.   *)
AteccFails ==
    /\ AteccFaults
    /\ \/ pc = "save" /\ step \in 1 .. 4
       \/ pc = "load"
       \/ pc = "xpub"
    /\ Finish
    /\ UNCHANGED << persistent, ram, nonce, torn >>

(***************************************************************************)
(* Power loss and boot.                                                    *)
(***************************************************************************)
Crash ==
    /\ pc' = "boot" /\ step' = 0
    /\ job' = NoJob
    /\ cur' = Logout /\ info' = NoInfo
    /\ UNCHANGED << persistent, nonce, torn >>

(* Mutant: the scan of the accounts stops at the first one. *)
NextAccountNone == Finish

NextAccount ==
    IF job.acct + 1 \in Accounts
    THEN Goto("boot", 0) /\ job' = [job EXCEPT !.acct = @ + 1]
    ELSE Finish

(* Mutant: an erasure that was cut off is not finished. *)
BootCheckIvOnly ==
    /\ pc = "boot"
    /\ IF page[job.acct]["iv"] # Blank /\ pwHash[job.acct] = NoPassword
       THEN Goto("bootErase", 1) /\ job' = job
       ELSE NextAccount
    /\ UNCHANGED << persistent, ram, nonce, torn >>

(* AccountsDataCheck: an account with exactly one of IV and password hash  *)
(* is erased from the DS28S60.                                             *)
BootCheck ==
    /\ pc = "boot"
    /\ IF (page[job.acct]["iv"] = Blank) # (pwHash[job.acct] = NoPassword)
       THEN Goto("bootErase", 1) /\ job' = job
       ELSE NextAccount
    /\ UNCHANGED << persistent, ram, nonce, torn >>

BootErase ==
    /\ pc = "bootErase"
    /\ Erase(job.acct, EraseOrder[step])
    /\ IF step < Len(EraseOrder) THEN Goto("bootErase", step + 1) /\ job' = job
                                 ELSE NextAccount
    /\ UNCHANGED << xpub, ram, nonce >>

(***************************************************************************)
(* The specification.                                                      *)
(***************************************************************************)
StartJob ==
    \/ \E a \in Accounts, s \in Secrets, pw \in Passwords :
          ImportWallet(a, s, pw) \/ ForgetPassword(a, s, pw)
    \/ DeleteWallet
    \/ \E old, new \in Passwords : ChangePassword(old, new)

Session ==
    \/ \E pw \in Passwords : Login(pw)
    \/ LogoutCurrentAccount
    \/ SaveCurrentAccountInfo

JobStep ==
    \/ ErasePage \/ DestroyEnd \/ WriteName \/ CheckPassword \/ LoadSecret
    \/ SavePage \/ WriteParam \/ WriteHash \/ WriteInfo
    \/ GeneratePublicInfo \/ LoginNewAccount \/ AteccFails

Boot == BootCheck \/ BootErase

Next == StartJob \/ Session \/ JobStep \/ Crash \/ Boot

Spec == Init /\ [][Next]_vars

(***************************************************************************)
(* Properties.                                                             *)
(***************************************************************************)

(* The types of the variables; a job that works on an account names it.    *)
TypeOK ==
    /\ page \in [Accounts -> [SecretPages -> Data \cup {Blank}]]
    /\ pwHash \in [Accounts -> Passwords \cup {NoPassword}]
    /\ param \in [Accounts -> Info]
    /\ xpub \in [Accounts -> Secrets \cup {NoSecret}]
    /\ cur \in Accounts \cup {Logout}
    /\ info \in Info
    /\ pc \in {"idle", "erase", "erased", "name", "check", "load", "save",
               "param", "hash", "info", "xpub", "login", "boot", "bootErase"}
    /\ step \in 0 .. Len(SaveOrder)
    /\ job \in Job
    /\ nonce \in Nat
    /\ torn \subseteq Accounts

(* VerifyPassword stops at the first matching hash, so two accounts with   *)
(* one password would leave the second unreachable.                        *)
PasswordsUnique ==
    \A a, b \in Accounts :
        a # b /\ pwHash[a] = pwHash[b] => pwHash[a] = NoPassword

(* Outside a job, a password that unlocks an account also opens its        *)
(* secret, whatever crashed or failed before, unless ChangePassword was    *)
(* cut off in its in-place rewrite.                                        *)
WalletsRecoverable ==
    pc = "idle" =>
        \A a \in Accounts \ torn :
            pwHash[a] # NoPassword => CanLoad(a, pwHash[a])

(* Outside a job the two blankness tests agree: an account that can be     *)
(* unlocked is never offered as blank to CreateNewAccount.                 *)
SlotsAgree ==
    pc = "idle" =>
        \A a \in Accounts :
            (page[a]["iv"] = Blank) = (pwHash[a] = NoPassword)

(* Cached public keys never belong to another wallet than the secret that  *)
(* the account's password opens.                                           *)
PublicKeysMatch ==
    \A a \in Accounts :
        pwHash[a] # NoPassword /\ CanLoad(a, pwHash[a]) =>
            xpub[a] \in {Loaded(a), NoSecret}

(* Outside a job the parameter page describes the secret beside it:        *)
(* entropyLen and mfp come from it and the mnemonic type is its own.       *)
ParamMatches ==
    pc = "idle" =>
        \A a \in Accounts :
            pwHash[a] # NoPassword /\ CanLoad(a, pwHash[a]) =>
                /\ param[a].owner = Loaded(a)
                /\ param[a].kind = KindOf[Loaded(a)]

(***************************************************************************)
(* The pages implement the store of AccountStore: an account holds a       *)
(* wallet from the write of its password hash to the erasure of its IV.    *)
(***************************************************************************)
AbstractWallet ==
    [a \in Accounts |->
        IF pwHash[a] = NoPassword \/ page[a]["iv"] = Blank
        THEN Blank
        ELSE [secret |-> page[a]["iv"].secret,
              password |-> pwHash[a],
              open |-> CanLoad(a, pwHash[a])]]

Store == INSTANCE AccountStore WITH Empty <- Blank, wallet <- AbstractWallet

(* A wallet appears and vanishes in one step, never changes its secret,    *)
(* and reopens only under a password no other account answers to: the      *)
(* write order of SaveAccountSecret, DestroyAccount and ChangePassword.    *)
ImplementsStore == Store!Spec
=============================================================================
