----------------------------- MODULE PublicInfo -----------------------------
(***************************************************************************)
(* Sessions, passphrases and the cache of extended public keys:            *)
(* account_public_info.c with VerifyPasswordAndLogin (account_manager.c),  *)
(* SetPassphrase (keystore.c) and the jobs of gui_model.c that call them.  *)
(*                                                                         *)
(* The public keys of an account without a passphrase are kept in flash,   *)
(* with their hash on a DS28S60 page; those of an account with a           *)
(* passphrase live in RAM only.  One copy in RAM serves the current        *)
(* account.  The secret pages are Keystore's: a wallet appears and         *)
(* vanishes in one step here, which is what AccountStore promises.         *)
(***************************************************************************)
EXTENDS Naturals, FiniteSets

CONSTANTS
    NumAccounts,
    Secrets, NoSecret,
    Slip39Secrets,  \* those of them that are SLIP39 wallets; the rest are BIP39
    Garbage,        \* what is taken for a secret that was not read, or misread:
                    \* anything the memory held
    Passphrases, NoPassphrase,  \* NoPassphrase is the empty string
    MaxVersion,     \* bound on g_xpubInfoVersion
    MaxCreates,     \* bound on the wallets created in one behaviour
    AteccFaults,    \* may the ATECC608B return errors?
    Blank,          \* erased flash: the size word reads 0xFFFFFFFF
    Torn,           \* the size is written, the JSON behind it is not
    ZeroHash        \* the hash page of a destroyed account

Accounts == 0 .. NumAccounts - 1
Logout == 255       \* ACCOUNT_INDEX_LOGOUT and INVALID_ACCOUNT_INDEX

KeySet == [secret : Secrets \cup {Garbage},
           passphrase : Passphrases \cup {NoPassphrase},
           version : 0 .. MaxVersion]
NoKeys == Blank

ASSUME PublicInfoAssumption ==
    /\ NumAccounts \in 1 .. 255
    /\ NoSecret \notin Secrets /\ Garbage \notin Secrets
    /\ Slip39Secrets \subseteq Secrets
    /\ NoPassphrase \notin Passphrases
    /\ MaxVersion \in Nat /\ MaxCreates \in Nat
    /\ AteccFaults \in BOOLEAN
    /\ {Blank, Torn, ZeroHash} \cap KeySet = {}

VARIABLES
    wallet,     \* wallet[a]: the secret on the pages of account a
    param,      \* param[a]: the wallet PAGE_INDEX_PARAM describes
    flash,      \* flash[a]: SPI_FLASH_ADDR_USER1_DATA of account a
    hash,       \* hash[a]: PAGE_WALLET1_PUB_KEY_HASH + a
    version,    \* g_xpubInfoVersion of the firmware that runs
    cur, last,  \* g_currentAccountIndex, g_lastAccountIndex
    info,       \* the wallet g_currentAccountInfo describes
    ramKeys,    \* g_accountPublicInfo
    tempIndex,  \* g_tempPublicKeyAccountIndex
    isTemp,     \* g_isTempAccount
    passphrase, \* g_passphraseInfo
    locked,     \* is the lock screen on top?
    firstUnlock, \* g_firstUnlock
    pc, job,    \* the running job of FetchSensitiveDataTask
    creates

persistent == << wallet, param, flash, hash, version >>
keys == << ramKeys, tempIndex, isTemp >>
session == << cur, last, info, passphrase, locked, firstUnlock >>
vars == << persistent, keys, session, pc, job, creates >>

(* "logout" is the login that follows a "forget" and is undone at once. *)
Job == [kind : {"create", "forget", "delete", "login", "logout", "passphrase",
                "rsa"},
        acct : Accounts,
        secret : Secrets \cup {NoSecret},
        passphrase : Passphrases \cup {NoPassphrase}]

NewJob(kind, a, s, p) ==
    [kind |-> kind, acct |-> a, secret |-> s, passphrase |-> p]
NoJob == NewJob("login", 0, NoSecret, NoPassphrase)

(* The public keys of the wallet of account a under its passphrase, and     *)
(* what is taken for them when its secret was not read, or misread.        *)
OwnKeys(a) ==
    [secret |-> wallet[a], passphrase |-> passphrase[a], version |-> version]
GarbledKeys(a) == [OwnKeys(a) EXCEPT !.secret = Garbage]

(* GetMnemonicType, GetSlip39Id, GetSlip39Ie and GetCurrentAccountEntropyLen *)
(* answer for the wallet that g_currentAccountInfo describes.                *)
RightInfo(a) == info = wallet[a] \/ {info, wallet[a]} \cap Slip39Secrets = {}

(* The keys AccountPublicSavePublicInfo and TempAccountPublicInfo derive:  *)
(* GetAccountSeed mixes in whatever passphrase the account has.            *)
Derived(a) == IF RightInfo(a) THEN OwnKeys(a) ELSE GarbledKeys(a)

NoWallet == \A a \in Accounts : wallet[a] = NoSecret

(* A device straight from the factory, or one whose last firmware saved    *)
(* public keys without a hash, which VerifyWalletDataHash accepts.         *)
Init ==
    /\ version = 0
    /\ \E s \in Secrets, old \in BOOLEAN :
          /\ wallet = [a \in Accounts |->
                        IF old /\ a = 0 THEN s ELSE NoSecret]
          /\ flash = [a \in Accounts |->
                        IF old /\ a = 0
                        THEN [secret |-> s, passphrase |-> NoPassphrase,
                              version |-> 0]
                        ELSE Blank]
    /\ param = wallet
    /\ hash = [a \in Accounts |-> ZeroHash]
    /\ cur = Logout /\ last = Logout /\ info = NoSecret
    /\ ramKeys = NoKeys /\ tempIndex = Logout /\ isTemp = FALSE
    /\ passphrase = [a \in Accounts |-> NoPassphrase]
    /\ locked = ~NoWallet /\ firstUnlock = TRUE
    /\ pc = "idle" /\ job = NoJob /\ creates = 0

Unlocked == ~locked /\ cur \in Accounts

(***************************************************************************)
(* Starting a job.                                                         *)
(***************************************************************************)
Start(j, where) ==
    /\ pc = "idle"
    /\ pc' = where /\ job' = j

(* A new wallet in the first blank account, unless the flash caches its    *)
(* keys already (ModelComparePubkey).                                      *)
ImportWallet(a, s) ==
    /\ creates < MaxCreates
    /\ Unlocked \/ NoWallet
    /\ wallet[a] = NoSecret
    /\ \A b \in Accounts : b < a => wallet[b] # NoSecret
    /\ \A b \in Accounts :
          flash[b] \in KeySet => << flash[b].secret, flash[b].passphrase >>
                                    # << s, NoPassphrase >>
    /\ Start(NewJob("create", a, s, NoPassphrase), "destroy")
    /\ creates' = creates + 1
    /\ UNCHANGED << persistent, keys, session >>

(* "Forget password" on the lock screen: the account that caches the keys  *)
(* of the mnemonic is created anew.                                        *)
ForgetPassword(a, s) ==
    /\ creates < MaxCreates
    /\ locked
    /\ flash[a] \in KeySet
    /\ flash[a].secret = s /\ flash[a].passphrase = NoPassphrase
    /\ Start(NewJob("forget", a, s, NoPassphrase), "destroy")
    /\ creates' = creates + 1
    /\ UNCHANGED << persistent, keys, session >>

DeleteWallet ==
    /\ Unlocked
    /\ Start(NewJob("delete", cur, NoSecret, NoPassphrase), "destroy")
    /\ UNCHANGED << persistent, keys, session, creates >>

(* ModelVerifyAccountPass on the lock screen, with the password of a.      *)
EnterPassword(a) ==
    /\ locked
    /\ wallet[a] # NoSecret
    /\ Start(NewJob("login", a, NoSecret, NoPassphrase), "login")
    /\ UNCHANGED << persistent, keys, session, creates >>

(* ModelVerifyPassSuccess, which also sets the passphrase the account has;  *)
(* ModelWritePassphrase leaves everything alone in that case.               *)
WritePassphrase(p) ==
    /\ Unlocked
    /\ wallet[cur] # NoSecret
    /\ Start(NewJob("passphrase", cur, NoSecret, p), "passphrase")
    /\ UNCHANGED << persistent, keys, session, creates >>

(* Mutant: the screens do not ask GetIsTempAccount. *)
SetupRsaUnguarded ==
    /\ Unlocked
    /\ wallet[cur] # NoSecret
    /\ Start(NewJob("rsa", cur, NoSecret, NoPassphrase), "switch")
    /\ UNCHANGED << persistent, keys, session, creates >>

(* RsaGenerateKeyPair; its screens send a passphrase wallet elsewhere.     *)
SetupRsa ==
    /\ Unlocked
    /\ wallet[cur] # NoSecret
    /\ ~isTemp
    /\ Start(NewJob("rsa", cur, NoSecret, NoPassphrase), "switch")
    /\ UNCHANGED << persistent, keys, session, creates >>

(***************************************************************************)
(* Sessions.                                                               *)
(***************************************************************************)

(* LockScreen, which jobs hold off while they run; a device without a      *)
(* wallet has nothing to lock.                                             *)
Lock ==
    /\ pc = "idle" /\ ~locked /\ ~NoWallet
    /\ locked' = TRUE /\ cur' = Logout
    /\ UNCHANGED << persistent, keys, last, info, passphrase, firstUnlock,
                    pc, job, creates >>

(* SIG_VERIFY_FINGER_PASS: SetCurrentAccountIndex, and nothing is read     *)
(* again.  The finger may match while a password is being verified.        *)
FingerprintUnlock ==
    /\ locked /\ ~firstUnlock
    /\ pc = "idle" \/ job.kind = "login"
    /\ cur' = last
    /\ locked' = FALSE
    /\ UNCHANGED << persistent, keys, last, info, passphrase, firstUnlock,
                    pc, job, creates >>

(* SetWalletName, SetPasscodeType, ...: SaveCurrentAccountInfo.            *)
SaveCurrentAccountInfo ==
    /\ pc = "idle" /\ Unlocked
    /\ param' = [param EXCEPT ![cur] = info]
    /\ UNCHANGED << wallet, flash, hash, version, keys, session, pc, job,
                    creates >>

(***************************************************************************)
(* The steps of a job.  A switch that fails ends a login on the lock       *)
(* screen and a create with the new account current and the last one kept. *)
(***************************************************************************)
Goto(where) == pc' = where /\ job' = job
Finish == pc' = "idle" /\ job' = NoJob

(* DestroyAccount: the pages, then DeleteAccountPublicInfo, then the rest. *)
DestroyPages ==
    /\ pc = "destroy"
    /\ wallet' = [wallet EXCEPT ![job.acct] = NoSecret]
    /\ param' = [param EXCEPT ![job.acct] = NoSecret]
    /\ Goto("flash")
    /\ UNCHANGED << flash, hash, version, keys, session, creates >>

DeleteAccountPublicInfo ==
    /\ pc = "flash"
    /\ flash' = [flash EXCEPT ![job.acct] = Blank]
    /\ ramKeys' = NoKeys /\ tempIndex' = Logout
    /\ Goto("clear")
    /\ UNCHANGED << wallet, param, hash, version, isTemp, session, creates >>

(* ClearAccountPassphrase, SetWalletDataHash, LogoutCurrentAccount.  A new *)
(* account becomes current here; a deletion locks the screen (GuiDelWallet)*)
(* or, when no wallet is left, reboots.                                    *)
DestroyEnd ==
    /\ pc = "clear"
    /\ hash' = [hash EXCEPT ![job.acct] = ZeroHash]
    /\ passphrase' = [passphrase EXCEPT ![job.acct] = NoPassphrase]
    /\ info' = NoSecret
    /\ IF job.kind = "delete"
       THEN /\ Finish
            /\ cur' = Logout /\ locked' = ~NoWallet /\ firstUnlock' = TRUE
            /\ last' = IF NoWallet THEN Logout ELSE last
            /\ isTemp' = (isTemp /\ ~NoWallet)
       ELSE /\ Goto("save")
            /\ cur' = job.acct
            /\ UNCHANGED << locked, firstUnlock, last, isTemp >>
    /\ UNCHANGED << wallet, param, flash, version, ramKeys, tempIndex,
                    creates >>

(* SaveNewBip39Entropy and its siblings, SaveCurrentAccountInfo. *)
SaveNewEntropy ==
    /\ pc = "save"
    /\ wallet' = [wallet EXCEPT ![job.acct] = job.secret]
    /\ param' = [param EXCEPT ![job.acct] = job.secret]
    /\ info' = job.secret
    /\ Goto("switch")
    /\ UNCHANGED << flash, hash, version, keys, cur, last, passphrase, locked,
                    firstUnlock, creates >>

(* Mutant: the keys in RAM are kept whatever account they are of. *)
LoginKeepsAnyKeys ==
    IF passphrase[job.acct] # NoPassphrase
    THEN /\ isTemp' = TRUE
         /\ IF tempIndex # Logout THEN Goto("done") ELSE Goto("temp")
    ELSE Goto("switch") /\ UNCHANGED isTemp

(* The keys of a passphrase are kept when they are the ones in RAM and     *)
(* derived otherwise; without a passphrase the saved keys are read.        *)
LoginChoosesKeys ==
    IF passphrase[job.acct] # NoPassphrase
    THEN /\ isTemp' = TRUE
         /\ IF tempIndex = job.acct THEN Goto("done") ELSE Goto("temp")
    ELSE Goto("switch") /\ UNCHANGED isTemp

(* Mutant: the account's info is not read. *)
LoginReadsNoInfo ==
    /\ pc = "login"
    /\ cur' = job.acct /\ last' = job.acct
    /\ LoginChoosesKeys
    /\ UNCHANGED << persistent, info, ramKeys, tempIndex, passphrase, locked,
                    firstUnlock, creates >>

(* VerifyPasswordAndLogin. *)
Login ==
    /\ pc = "login"
    /\ cur' = job.acct /\ last' = job.acct /\ info' = param[job.acct]
    /\ LoginChoosesKeys
    /\ UNCHANGED << persistent, ramKeys, tempIndex, passphrase, locked,
                    firstUnlock, creates >>

(* Mutant: TempAccountPublicInfo(set = false) keeps the keys in RAM. *)
SetPassphraseKeepsKeys ==
    /\ pc = "passphrase"
    /\ passphrase' = [passphrase EXCEPT ![cur] = job.passphrase]
    /\ IF job.passphrase = NoPassphrase
       THEN Goto("switch") /\ UNCHANGED isTemp
       ELSE /\ Goto(IF tempIndex = cur THEN "done" ELSE "temp")
            /\ isTemp' = TRUE
    /\ UNCHANGED << persistent, ramKeys, tempIndex, cur, last, info, locked,
                    firstUnlock, creates >>

(* SetPassphrase: an empty passphrase returns to the saved keys. *)
SetPassphrase ==
    /\ pc = "passphrase"
    /\ passphrase' = [passphrase EXCEPT ![cur] = job.passphrase]
    /\ IF job.passphrase = NoPassphrase
       THEN Goto("switch") /\ UNCHANGED isTemp
       ELSE Goto("temp") /\ isTemp' = TRUE
    /\ UNCHANGED << persistent, ramKeys, tempIndex, cur, last, info, locked,
                    firstUnlock, creates >>

(* The part of TempAccountPublicInfo that derives. *)
TempAccountPublicInfo ==
    /\ pc = "temp"
    /\ ramKeys' = Derived(job.acct) /\ tempIndex' = job.acct
    /\ Goto("done")
    /\ UNCHANGED << persistent, isTemp, session, creates >>

NewKey == job.kind \in {"create", "forget", "rsa"}

(* What AccountPublicInfoReadFromFlash finds in the flash of account a.    *)
Refused(a) == flash[a] # Blank /\ hash[a] \notin {flash[a], ZeroHash}
Good(a) == flash[a] \in KeySet /\ flash[a].version = version

(* Mutant: blank flash is not regenerated. *)
SwitchNeverRegenerates ==
    /\ pc = "switch"
    /\ isTemp' = FALSE /\ tempIndex' = Logout
    /\ \/ NewKey /\ ramKeys' = NoKeys /\ Goto("seed")
       \/ ~NewKey /\ Refused(job.acct) /\ ramKeys' = NoKeys /\ Goto("failed")
       \/ /\ ~NewKey /\ ~Refused(job.acct)
          /\ ramKeys' = IF Good(job.acct) THEN flash[job.acct] ELSE NoKeys
          /\ Goto("done")
    /\ UNCHANGED << persistent, session, creates >>

(* AccountPublicInfoSwitch: new keys on request; otherwise the flash is    *)
(* read, which asks for new keys when it is blank or holds another version *)
(* and refuses data that does not match the hash.                          *)
AccountPublicInfoSwitch ==
    /\ pc = "switch"
    /\ isTemp' = FALSE /\ tempIndex' = Logout
    /\ \/ /\ NewKey \/ (~Refused(job.acct) /\ ~Good(job.acct))
          /\ ramKeys' = NoKeys /\ Goto("seed")
       \/ ~NewKey /\ Refused(job.acct) /\ ramKeys' = NoKeys /\ Goto("failed")
       \/ /\ ~NewKey /\ ~Refused(job.acct) /\ Good(job.acct)
          /\ ramKeys' = flash[job.acct] /\ Goto("done")
    /\ UNCHANGED << persistent, session, creates >>

(* AccountPublicSavePublicInfo: derive, erase, hash page, size, JSON. *)
DeriveKeys ==
    /\ pc = "seed"
    /\ ramKeys' = Derived(job.acct)
    /\ Goto("erase")
    /\ UNCHANGED << persistent, tempIndex, isTemp, session, creates >>

(* Mutant: the sectors are erased after the hash page is written. *)
EraseFlashLater ==
    /\ pc = "erase"
    /\ Goto("hash")
    /\ UNCHANGED << persistent, keys, session, creates >>

EraseFlash ==
    /\ pc = "erase"
    /\ flash' = [flash EXCEPT ![job.acct] = Blank]
    /\ Goto("hash")
    /\ UNCHANGED << wallet, param, hash, version, keys, session, creates >>

WriteHash ==
    /\ pc = "hash"
    /\ hash' = [hash EXCEPT ![job.acct] = ramKeys]
    /\ Goto("size")
    /\ UNCHANGED << wallet, param, flash, version, keys, session, creates >>

WriteSize ==
    /\ pc = "size"
    /\ flash' = [flash EXCEPT ![job.acct] = Torn]
    /\ Goto("json")
    /\ UNCHANGED << wallet, param, hash, version, keys, session, creates >>

WriteJson ==
    /\ pc = "json"
    /\ flash' = [flash EXCEPT ![job.acct] = ramKeys]
    /\ Goto("done")
    /\ UNCHANGED << wallet, param, hash, version, keys, session, creates >>

(* The end of a job: a created account is logged in to, the login of a     *)
(* forgotten one is undone once its description is saved, a login opens    *)
(* the screen, a passphrase job saves its mark.                            *)
JobDone ==
    /\ pc = "done"
    /\ IF job.kind \in {"create", "forget"}
       THEN /\ pc' = "login"
            /\ job' = [job EXCEPT !.kind =
                            IF @ = "create" THEN "login" ELSE "logout"]
            /\ UNCHANGED << param, cur, locked, firstUnlock >>
       ELSE /\ Finish
            /\ param' = IF job.kind \in {"passphrase", "logout"}
                        THEN [param EXCEPT ![cur] = info] ELSE param
            /\ cur' = IF job.kind = "logout" THEN Logout ELSE cur
            /\ locked' = (locked /\ job.kind # "login")
            /\ firstUnlock' = (firstUnlock /\ ~(locked /\ job.kind = "login"))
    /\ UNCHANGED << wallet, flash, hash, version, keys, last, info,
                    passphrase, creates >>

(* A switch that fails; only a passphrase job saves something after it. *)
JobFailed ==
    /\ pc = "failed"
    /\ Finish
    /\ param' = IF job.kind = "passphrase" THEN [param EXCEPT ![cur] = info]
                                            ELSE param
    /\ UNCHANGED << wallet, flash, hash, version, keys, cur, last, info,
                    passphrase, locked, firstUnlock, creates >>

(* Mutant: GetAccountSeed is asked before FreePublicKeyRam. *)
AteccFailsFirst ==
    /\ AteccFaults
    /\ \/ pc \in {"save", "seed"} /\ Goto("failed")
       \/ pc = "temp" /\ Goto(IF job.kind = "passphrase" THEN "failed" ELSE "done")
       \/ pc = "passphrase" /\ info \notin Slip39Secrets /\ Finish
    /\ UNCHANGED << persistent, keys, session, creates >>

(* The ATECC608B returns an error that is passed on.  Saving a secret gives *)
(* up with the new account current, and described as a SLIP39 wallet if it   *)
(* was to be one; a derivation leaves no keys in RAM, which only a login     *)
(* with a passphrase takes for a success; SetPassphrase of a BIP39 wallet    *)
(* has changed nothing yet when its own derivation fails.                    *)
AteccFails ==
    /\ AteccFaults
    /\ \/ /\ pc \in {"save", "seed"} /\ Goto("failed")
          /\ info' = IF pc = "save" /\ job.secret \in Slip39Secrets
                     THEN job.secret ELSE info
          /\ UNCHANGED << ramKeys, tempIndex >>
       \/ /\ pc = "temp"
          /\ Goto(IF job.kind = "passphrase" THEN "failed" ELSE "done")
          /\ ramKeys' = NoKeys /\ tempIndex' = Logout
          /\ UNCHANGED info
       \/ /\ pc = "passphrase" /\ info \notin Slip39Secrets
          /\ Finish
          /\ UNCHANGED << ramKeys, tempIndex, info >>
    /\ UNCHANGED << persistent, isTemp, cur, last, passphrase, locked,
                    firstUnlock, creates >>

(* GetPassphraseSeed disregards the result of GetAccountSlip39Ems: after an *)
(* error it goes on with an ems that was never written, and reports success. *)
(* (In SetPassphrase itself that spoils no more than the fingerprint.)       *)
EmsUnread ==
    /\ AteccFaults
    /\ info \in Slip39Secrets /\ passphrase[job.acct] # NoPassphrase
    /\ ramKeys' = GarbledKeys(job.acct)
    /\ \/ pc = "temp" /\ Goto("done") /\ tempIndex' = job.acct
       \/ pc = "seed" /\ Goto("erase") /\ UNCHANGED tempIndex
    /\ UNCHANGED << persistent, isTemp, session, creates >>

(* Power loss, or a reboot into the same or the next firmware. *)
Crash ==
    /\ version' \in {v \in {version, version + 1} : v <= MaxVersion}
    /\ cur' = Logout /\ last' = Logout /\ info' = NoSecret
    /\ ramKeys' = NoKeys /\ tempIndex' = Logout /\ isTemp' = FALSE
    /\ passphrase' = [a \in Accounts |-> NoPassphrase]
    /\ locked' = ~NoWallet /\ firstUnlock' = TRUE
    /\ pc' = "idle" /\ job' = NoJob
    /\ UNCHANGED << wallet, param, flash, hash, creates >>

StartJob ==
    \/ \E a \in Accounts, s \in Secrets :
          ImportWallet(a, s) \/ ForgetPassword(a, s)
    \/ DeleteWallet
    \/ \E a \in Accounts : EnterPassword(a)
    \/ \E p \in Passphrases \cup {NoPassphrase} : WritePassphrase(p)
    \/ SetupRsa

Session == Lock \/ FingerprintUnlock \/ SaveCurrentAccountInfo

JobStep ==
    \/ DestroyPages \/ DeleteAccountPublicInfo \/ DestroyEnd
    \/ SaveNewEntropy \/ Login \/ SetPassphrase \/ TempAccountPublicInfo
    \/ AccountPublicInfoSwitch \/ DeriveKeys \/ EraseFlash \/ WriteHash
    \/ WriteSize \/ WriteJson \/ JobDone \/ JobFailed \/ AteccFails
    \/ EmsUnread

Next == StartJob \/ Session \/ JobStep \/ Crash

Spec == Init /\ [][Next]_vars

(***************************************************************************)
(* Properties.                                                             *)
(***************************************************************************)

(* The types of the variables. *)
TypeOK ==
    /\ wallet \in [Accounts -> Secrets \cup {NoSecret}]
    /\ param \in [Accounts -> Secrets \cup {NoSecret}]
    /\ flash \in [Accounts -> KeySet \cup {Blank, Torn}]
    /\ hash \in [Accounts -> KeySet \cup {ZeroHash}]
    /\ version \in 0 .. MaxVersion
    /\ cur \in Accounts \cup {Logout} /\ last \in Accounts \cup {Logout}
    /\ info \in Secrets \cup {NoSecret}
    /\ ramKeys \in KeySet \cup {NoKeys}
    /\ tempIndex \in Accounts \cup {Logout} /\ isTemp \in BOOLEAN
    /\ passphrase \in [Accounts -> Passphrases \cup {NoPassphrase}]
    /\ locked \in BOOLEAN /\ firstUnlock \in BOOLEAN
    /\ pc \in {"idle", "destroy", "flash", "clear", "save", "login", "switch",
               "seed", "erase", "hash", "size", "json", "passphrase", "temp",
               "done", "failed"}
    /\ job \in Job
    /\ creates \in 0 .. MaxCreates

Resting == pc = "idle" /\ Unlocked

(* GetCurrentAccountPublicKey answers from one RAM copy for whichever      *)
(* account is current: outside a job its keys are those of the account's   *)
(* wallet, under its passphrase, by this firmware, however the account was *)
(* unlocked.                                                               *)
RamKeysMatch ==
    Resting /\ ramKeys # NoKeys => ramKeys = OwnKeys(cur)

(* An unlocked wallet has its keys, whatever crash or update came before,  *)
(* unless the write of its saved keys was cut off.                         *)
UnlockedHasKeys ==
    Resting /\ wallet[cur] # NoSecret /\ flash[cur] # Torn
        => ramKeys # NoKeys

(* The flash never keeps the keys of a passphrase, nor those of a wallet   *)
(* the account no longer holds: nothing but the screens' question to       *)
(* GetIsTempAccount keeps RsaGenerateKeyPair from saving the former.       *)
FlashHoldsBase ==
    \A a \in Accounts :
        flash[a] \in KeySet /\ wallet[a] # NoSecret =>
            /\ flash[a].secret = wallet[a]
            /\ flash[a].passphrase = NoPassphrase

(* Complete keys in flash always match the hash page, at every point a     *)
(* crash may stop the save: only a cut-off JSON can lock an account out    *)
(* with ERR_KEYSTORE_EXTEND_PUBLIC_KEY_NOT_MATCH.                          *)
KeysVerify ==
    \A a \in Accounts :
        flash[a] \in KeySet => hash[a] \in {flash[a], ZeroHash}

(* SetPassphrase stores the passphrase before its keys are derived, and a    *)
(* retry after an error is answered by CheckPassphraseSame alone            *)
(* (gui_model.c:948).  So a job that has stored one may not leave behind     *)
(* the keys the wallet had before: it has those of its passphrase or none,   *)
(* or, after an error that keystore.c:666 drops or with the description of   *)
(* another wallet, what was taken for the keys of its passphrase.            *)
PassphraseKeysOrNone ==
    pc \in {"done", "failed"} /\ job.passphrase # NoPassphrase
        => ramKeys \in {NoKeys, OwnKeys(cur), GarbledKeys(cur)}

(* "g_accountPublicInfo stores the current temp public key"                *)
(* (account_public_info.c:1057): while g_tempPublicKeyAccountIndex names   *)
(* an account, the RAM holds the keys of its wallet under the passphrase   *)
(* it has now, so a login may keep them: never those derived for another   *)
(* account, nor for an earlier wallet, passphrase or firmware.  After an   *)
(* error that keystore.c:666 drops, or with the description of another     *)
(* wallet, they are what was taken for the keys of that passphrase.        *)
TempKeysCurrent ==
    pc = "idle" /\ tempIndex \in Accounts
        => ramKeys \in {OwnKeys(tempIndex), GarbledKeys(tempIndex)}

(* g_currentAccountInfo, and the page it is saved to, describe the wallet  *)
(* of the current account (GetMnemonicType: "Get mnemonic type of the      *)
(* current account").                                                      *)
InfoMatches ==
    Resting /\ wallet[cur] # NoSecret =>
        info = wallet[cur] /\ param[cur] = wallet[cur]
=============================================================================
