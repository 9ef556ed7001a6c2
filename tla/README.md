# Keystone 3 firmware: TLA+ models and proofs

The Keystone 3 is an air-gapped hardware wallet: an MH1903 microcontroller with
FreeRTOS, two secure elements (ATECC608B and DS28S60), a serial flash, a
fingerprint module, a touch screen and USB. The specifications here are about
its own protocol: what happens to wallets, passwords and public keys when jobs,
screens and power losses interleave. Transaction parsing and signing (Rust) are
functions of their input and stay outside.

Paths below are relative to `src/` of the repository.

## 1. Inventory

| Component | State | Operations | What makes it correct |
|---|---|---|---|
| `managers/keystore.c` | secret pages, password-hash page; passphrases in RAM | save, load, change password, verify password, set passphrase | a secret can be opened as long as its password unlocks; no two accounts share a password |
| `managers/account_manager.c` | current and last index, account info in RAM and on its page, error counters | create, destroy, log in, log out, boot check | an account is blank or whole; the info describes the current account |
| `managers/se_manager.c`, `hardware_interface/se_interface.c` | page layout of both secure elements, wallet-hash pages | key pieces, page read/write | pages of one save are read together |
| `crypto/account_public_info.c` | public keys: one copy in RAM, a JSON per account in flash | switch, save, read, temporary keys, delete, repeat lookup | the keys shown are those of the current wallet and passphrase; flash never keeps a passphrase's keys |
| `ui/gui_model/gui_model.c` | none of its own | the jobs the screens ask for | save and restore of the lock flag, error paths |
| `tasks/fetch_sensitive_data_task.c` | a message queue | runs one job after another | a job asked for is run and answered |
| `managers/screen_manager.c` | two enable flags, idle tick | lock the screen from a timer or the button | never logs out under a running job; always locks in the end |
| lock view and lock widgets, lock device widgets | lock screen, first unlock, lock times | unlock by password or finger, wait, wipe at the limit | attempts are counted whatever happens; no lock is made shorter by a restart |
| `device_settings.c`, `driver/power_on_self_check.c`, `main.c` | wipe flag | wipe, boot check, resumed wipe | an interrupted operation is finished or undone |
| `managers/fingerprint_process.c` | one waiting command and its finger, finger list, resend counters | send, receive, resend, register, delete, count | the answer is applied to the finger it is about; list, copy and module agree |
| `tasks/data_parser_task.c`, `tasks/usb_task.c`, `webusb_protocol/` parsers | a ring of bytes, a queue of lengths, packets of one request | store, announce, take, reassemble | every frame is taken whole, once and in order; a request is handled with its own packets |
| `webusb_protocol/general/`, connection and transaction views | `g_requestID`, the UR to sign, the parsed request, the stack of views | check, show, confirm, answer | what is signed was shown; one answer for a request |
| `webusb_protocol/services/service_file_trans.c` | file transfer state | append, complete, time out | data is applied once and in order |
| `msg/`, `ram/`, `power_manager.c`, drivers, ... | | | see `components` in `PROJECT.json`, which lists every part with its status and reason |

How they interact. A screen (UI task) fills the secret cache and posts a job with
`AsyncExecute`. The job runs in `FetchSensitiveDataTask`, disables the screen lock
for its duration (`SetLockScreen(false)`), calls the account manager, which calls
the keystore (pages on the secure elements) and `account_public_info` (flash), and
reports with a signal that the UI task turns into the next screen. The screen lock
runs in the timer or button context and logs the account out. A matching finger
arrives from the fingerprint task as a signal to the lock view, which makes the
last account current again. The USB task hands bytes to the data parser task, whose
handlers run in place: they answer the host, sleep between packets, and post a view
to the UI task, which later answers the same host from a global.

What is hard about it: (a) every operation is a sequence of single page writes and
the device has a power button; (b) the ATECC608B reports errors, so a job may give
up halfway, while the DS28S60 driver retries and then asserts; (c) the current
index, the account info, the RAM keys, the temporary-key index and the temporary
flag are separate globals, written on different paths by different tasks; (d) the
repeat check, the boot check and the login each use a different page as their test
of whether an account exists; (e) the wrong-password counter, the lock time and the
wipe flag are in three places that a power loss may separate; (f) the ring of the USB
path is written and read without a lock; (g) one `g_requestID`, one UR and one parsed
request serve two tasks that both sleep while they answer; (h) the fingerprint
module's answers come a second later, to whatever the globals hold then.

`hazards` in `PROJECT.json` lists 40 places where this bites, with the property that
covers each or the reason why none does.

## 2. Modules

### Keystore (`Keystore.tla`, `AccountStore.tla`)

`keystore.c`, `account_manager.c` and `se_manager.c` page by page, called by the jobs of
`gui_model.c`.

* State. `page[a][p]` is a secret page: blank, or the save that wrote it (a nonce
  for its random key pieces and IV, the secret, the password). `pwHash`, `param` and
  `xpub` are the password-hash page, the parameter page and the public keys cached
  in flash. `cur` and `info` are `g_currentAccountIndex` and `g_currentAccountInfo`.
  `pc`, `step` and `job` are the one running job and where it stands. `torn` is a
  history variable, explained below.
* Actions. `ImportWallet`, `ForgetPassword`, `DeleteWallet` and `ChangePassword` start a
  job; `ErasePage` ... `LoginNewAccount` are its steps, one page write each, in the
  order of the code (`EraseOrder`, `SaveOrder`). `Login`, `LogoutCurrentAccount` and
  `SaveCurrentAccountInfo` are sessions. `Crash` may happen in every state and leads to
  `BootCheck` and `BootErase` (`AccountsDataCheck`), which may be cut off too.
  `AteccFails` ends a job where an ATECC608B error is returned to it.
* Loading is by what the HMAC page proves: `CanLoad` asks that all pages come from
  one save and that the key pieces open with the password.
* The module is the interface the jobs call, without the checks that screens make
  first (`gui_enter_passcode.c:134` and `:189` ask `CheckPasswordExisted` too).

`AccountStore` is the promise: an account is empty or holds one wallet; a wallet
appears, vanishes or changes its password in one step, never changes its secret,
and its password is no other account's. Only a password change passes through a
state in which the wallet cannot be opened. `ImplementsStore` is the refinement, with
`AbstractWallet` as its mapping: an account holds a wallet from the write of its
password hash to the erasure of its IV page.

### PublicInfo (`PublicInfo.tla`)

The layer above: sessions, passphrases and the cache of public keys.

* State. A set of keys is the triple [secret, passphrase, version] it was derived
  from. `flash[a]` and `hash[a]` are the JSON of account a and its hash page; `ramKeys`,
  `tempIndex` and `isTemp` are `g_accountPublicInfo`, `g_tempPublicKeyAccountIndex` and
  `g_isTempAccount`; `cur`, `last`, `info` and `param` the indexes, the account info and its
  page; `locked` says that the lock screen is on top. The secret pages are one value,
  `wallet[a]`, which changes in one step: this is what `ImplementsStore` establishes in
  Keystore. ChangePassword does not touch anything in this module and is left out.
* Actions. Jobs: create, forget, delete, login, passphrase and RSA set-up. Their
  steps follow `AccountPublicInfoSwitch` and `AccountPublicSavePublicInfo`: derive,
  erase, hash page, size word, JSON. Sessions: `Lock`, `FingerprintUnlock` (also while a
  password is being verified), `SaveCurrentAccountInfo`. `Crash` is a power loss or a
  reboot into the next firmware, whose keys have another version.
* `Init` is a factory device, or one whose older firmware saved keys without a hash.

  `Slip39Secrets` are the SLIP39 wallets. A derivation reads the wallet the way the account
  info says (`RightInfo`), so after a create that gave up it may misread it; and `EmsUnread` is
  `GetPassphraseSeed`, which drops the error of `GetAccountSlip39Ems` and derives keys from an
  array that was never written, successfully. The set of keys records for which account, passphrase
  and version they were derived, and that the secret was `Garbage`: what that memory holds is
  anything, a stale ems included.

Abstractions. Ton wallets, which have no passphrase, and the
multisig wallets are left out. `GetAccountSeed` failing in the RSA job is an assert
in the code, that is, a `Crash`. A derivation that reports an error from the Rust
library is not modelled.

### FileTrans (`FileTrans.tla`)

The reception of a firmware or an NFT picture over USB
(`webusb_protocol/services/service_file_trans.c`); independent of the two modules
above, except that a locked device refuses a file.

* State. `receiving`, `isNft`, `info`, `offset`, `md5` and `timer` are the globals of the
  service, lost at a restart; `disk` is the two files of the file system, `nftValid` the
  device setting, `nftFlash` the sectors the screen saver shows. `pc` and `sector` say
  where the data-parser task stands in a handler. `host` is the file a host is
  sending and its next chunk. A file is N chunks, an MD5 the sequence it was fed
  with; a chunk records whether it was decrypted.
* Actions. `InfoRefused`, `InfoAccepted` with `StartReceiving`; `ContentChecked` with
  `ContentStored`; `CompleteChecked` with `CompleteVerified`, then `WriteSector`, `WriteEnds`,
  `ReadFails` and `ShowPicture` for a picture. A handler is cut where the timer callback,
  which has a higher priority, may come in. `TimeOut`, `HostLeaves` and `Restart` are the
  environment; a lost reply is part of `AppendChunk`. `Written` is what
  `FatfsFileAppend` leaves in the file when it reports success: the chunk, or, on a full
  volume, less, because `f_write` stops short with `FR_OK` and nobody looks at `writeBytes`.
  The MD5 takes the whole chunk in either case.
* The host is honest: it announces a signed file, sends its chunks in the order of the
  acknowledged offsets and completes after the last one. What a device does with other
  input is not a subject of this module.
* `spoiled` is a history variable: the kinds of file whose last transfer met a time-out
  inside a handler or a read error of the file system. `short` is another: the kinds of
  file whose last transfer met a full volume. Whether a piece of the chunk still fits is not
  told apart.

### LockScreen (`LockScreen.tla`)

`screen_manager.c` and those who switch the lock off for a while: the jobs of `gui_model.c`,
the view of a USB export request, the full-screen QR code, the scan view, and the page
"Generating" that an unlock shows while it makes the public keys anew.

* State. `enable` and `pageEnable` are the two global flags, `tick` the idle time (it stops
  at the last tick before the time-out, since only the comparison counts),
  `loggedIn` whether an account is current, `lockPage` whether the lock page covers the
  display. `jobs` and `messages` are `g_sensitiveQueue` and `g_uiQueue`, `job` the local
  variables of the running job and where it stands. `locking` says that the timer task
  waits inside `LockScreen`. `view` and `exportView` are the view stack, `exportSaved` and
  `fullSaved` the two variables called `g_original_lock_screen`, `loading` whether the
  "Generating" page is up and may not be dismissed.
* Actions. `LockScreenTimerFunc`, `ReleaseHandler` and `Lock` are the timer task; `Take`, `Clear`,
  `PageOff`, `PageOn`, `Verify`, `VerifyCurrent`, `Generate`, `Describe`, `CheckPassphraseSame`,
  `SetPassphrase`, `Told`, `Restore`, `VerifyResult` the background task;
  `HandlePass`, `HandleDone`, `HandleExport`, `GuiShowGenerateXPubLoading`,
  `GuiHideGenerateXPubLoading` the messages to the UI task; `OpenReceive`,
  `GuiFullscreenModeToggle`, `OpenScan`, `GuiTransactionCheckPass`, `OpenPassphrase`,
  `ConfirmPassphrase`, `LeaveView`, `AnswerExport`, `EnterPassword` what a user does;
  `HostTraffic` the USB host and the parser task.
* Grain. A job is cut at every access to shared state, since its task has the lowest
  priority. A UI handler is one step: only the timer task preempts it, and that reads
  nothing the UI writes but the flags. `LockScreen` is cut at `GetExistAccountNum`, which
  waits for the secure element with `osDelay` and lets every task run. The parser task
  checks an export request in one step, and the view comes with a later message.
* Jobs. `unlock` (verify, log in, perhaps generate the public keys), `desc` (read the name of
  the wallet, asked for by the home view), `passphrase` (of the passphrase view), `setting`
  (the passphrase of the settings: verify the password, put `g_lockScreenEnable` back, then
  `SetPassphrase` with the page's flag cleared) and `parse` (`ModelParseTransaction`). The other
  jobs that save and restore `g_lockScreenEnable` do so as `desc` does.
* "Generating". `SIG_START_GENERATE_XPUB` covers the lock page and clears the page's flag,
  `SIG_END_GENERATE_XPUB` sets it. Every error of `AccountPublicSavePublicInfo` and
  `TempAccountPublicInfo` skips the second signal, and either may be lost in a full queue:
  `loading` then stays, and the flag with it.
* History variables. `races` holds `unnested` when a view saved or put back a flag while a job
  held another value, or the early return of `ModelVerifyAccountPass` was taken, and `outran`
  when the device was locked while the answer to a right password was under way.
  `overwritten` says that the page's flag, which is set and cleared without a look at its
  value, was set by one holder while another still counts on it; it ends when nobody holds
  the flag.
* More than the code does: that the "Generating" page covers touches is left out, `g_isShowLoading`
  (never cleared) is either value, a waiting hint left over the lock page may suppress the
  "Generating" page at any time, an export request may be refused at any time, and the check
  job between scan and detail view may pass at any time. Each only adds behaviours.
* Writers of the two flags that are left out: the key derivation view
  (`gui_key_derivation_request_widgets.c:193`, `:209`, which also clears the flag while it shows
  its QR code); `ModelCopySdCardOta` (`gui_model.c:1240`, `:1250`: an error returns with
  the page's flag cleared); the checksum and format jobs (`:176` to `:194`, `:1377`, `:1448`,
  `:1479`); the lock-device view (`gui_lock_device_view.c:19`, `:29`); the registration of a
  finger (`gui_fingerprint_widgets.c:246`, `gui_setting_widgets.c:383`,
  `gui_wallet_setting_widgets.c:566`, `:585`); firmware and picture transfer
  (`gui_firmware_process_widgets.c`, `gui_trans_nft_process_widgets.c`: save and put back);
  `gui_eth.c:1701`, `:1708`; the signing functions of the chains (`gui_chain/`: save, clear
  and put back around each signature); and the wipes (`gui_wipe_device_widgets.c:123`,
  `gui_lock_device_widgets.c:224`, `gui_web_auth_result_widgets.c:145`), which end in a
  restart. The properties say nothing of a run that meets one of them.
* Left out besides: the unlock by a finger (PublicInfo has it), the passphrase quick access, Ton
  wallets, the page after an update, the lock-device page with `g_lockTimeState` (the
  module LockDevice has it), low power, and a second export request sent before the
  first has its view.

### LockDevice (`LockDevice.tla`)

What a wrong password leads to: `VerifyPasswordAndLogin` and `ErrorCount` bookkeeping of
`account_manager.c`, the pages of `gui_lock_device_widgets.c`, `WipeDevice` and the boot.

* State. `info` is the record of errors and lock time in RAM (`g_publicInfo`), `se` its page
  in the secure element. `jobs`, `job` and `answers` are the queue of the background task,
  the running job and the results on their way to the UI. `page`, `active`, `timer` and
  `remaining` are the display, `g_lockDeviceView.isActive`, the LVGL timer and its countdown.
  `wiping` is the next statement of a running wipe, `flag` the magic number in the flash,
  `data` what is still on the device.
* Time. A time stamp is kept as its age. Ages saturate at the longest lock: an
  older stamp, and none, are treated alike. `Tick` moves every age, also those
  of a device that is off.
* Actions. `Verify`, `Persist` and `Answer` are the three places where a power loss finds a
  different count; `SetLastLockDeviceTime` and `StartWipe` are the other jobs, `WipeStep` one
  statement of `WipeDevice`. `HandlePass`, `HandleFail`, `HandleFinger` are signals to the UI task;
  `LockTimeOver` and `FinalOver` the countdowns; the rest is the user. `Crash` is a power loss,
  `Boot` the start with `PowerOnSelfCheck`.
* Grain. The UI task has the higher priority, so it hears an answer before the background
  task takes its next job. A handler of the UI task is one step.
* Abstractions. The battery test of the final page is a free choice. The password that a
  "forget" sets is in Keystore: here `ResetSuccess` ends the lock, and the lock page takes no
  password until the timer's next tick. The loop that erases the flash is one statement,
  followed by the block with the flag, which is its last. The view that opens over
  itself is the page `astray`, after which nothing but a restart happens: it is a
  state that the UI code does not intend. The forget view opens only with no
  verification outstanding. A write to the secure element that fails is not modelled: the
  driver asserts, which is a `Crash`.
* `waited`, `begun` and `races` are history variables.

### UsbReceive (`UsbReceive.tla`, `FrameLine.tla`)

From the bytes of a USB transfer to the handler of a request.

* State. `ring`, `head`, `tail` are the circular buffer, byte by byte; `saved` is the tail that
  `circular_buf_put` has read and not yet written. `queue` is `g_springQueue` with the lengths.
  `busy` says that the parser task sleeps in a handler (`SendEApduResponse` sleeps 10 ms per
  packet); `receiving`, `total` and `packets` are the globals of the two parsers. `requests`, `next`
  and `sent` are the host: it may give up a request at any time and begin another.
* Actions. `Begin` and `GoOn` are transfers; `PutByte`, `DropOldest` and `Announce` the USB task;
  `Take` and `Return` the data parser task. The parser's task has the higher priority, so the
  USB task runs only while it waits or sleeps; its sleep may end between any two
  accesses of the USB task.
* `EApduProtocolParse` is the reassembly, whose count is taken from packet 0 and which has
  no overtime. A later chunk of the internal protocol that begins with 0 is given to
  it with whatever counts the bytes form.
* The ring holds the frames of a full queue but one (`RoomAssumption`), as 2048 bytes do with a
  queue of 32 and frames of 64.
* A chunk that is no frame (`torn`) ends the behaviour: what garbage does is not modelled.
* `FrameLine` is the promise of the path: a line of frames. `IsFrameLine` is the
  refinement, with `sent` as the line.

### UsbRequest (`UsbRequest.tla`)

A request to sign or to connect, from `ProcessURService` to the answer.

* State. `id` is `g_requestID`; `urData`, `hardData` and `response` are the UR of the chain, the
  request of the connection view and what was parsed from it. `call` is where
  `ProcessURService` stands; `messages` is `g_uiQueue`; `stack` the open views; `shown`,
  `confirmed` and `checked` the state of the two views; `answer` the answer the UI task is
  sending. `parses` are the parses of the background task, in order: asked for (`Asked`), done
  (the request whose UR was read), or of memory that was freed since (`Freed`).
* Actions. `Receive` ... `RefusalSent` are the data parser task, `HandleResult` ... `AnswerSent` the
  UI task, the rest the user and the cable. Sending is two actions, because it
  sleeps: whom it answers is read at its beginning, `g_requestID` is reset at its end.
* The view asks for a parse when it opens (`HandleDetail`), the background task reads the UR the
  globals hold by then (`ModelParseTransaction`), and the result goes to whatever transaction
  view is open when it is handled (`Parsed`). Closing a view frees the UR and what was parsed
  from it, and cancels neither the parse nor its result (`GuiTransactionDetailDeInit`).
* All signals of all tasks go through `g_uiQueue`, so that `Post` may find it full
  whatever this module has put there; jobs may be dropped likewise. `lost` records it.
* `mixed` records that the data of a request met the view of the one before: they were set
  while a parse was still under way, or before that view was closed.
* A view that is opened while it is open becomes its own predecessor in
  `gui_framework.c`; the UI part of the model stops there (`twice`).
* The lock is left out: a request finds the device ready or is refused. A failed parse is a
  view that shows nothing, which the user leaves by `Reject`. What reading freed memory
  does is `Parsed` showing anything; that it may end in a fault is not modelled. The 200 ms
  `HandleNormalCall` waits are not counted on, and all requests are for the chain that was
  displayed last (`g_reMapIndex`), whose data `GuiTemplateClosePage` frees.

### Fingerprint (`Fingerprint.tla`)

`fingerprint_process.c` with the settings pages, the list in the secure element and the
module at the other end of the serial line.

* State. `slot` and `index` are `g_delayCmd` and `g_fpIndex`; `awaiting` the commands whose counters
  run, oldest first; `delSave`, `manager`, `chip` the flag, the list and the chip-id state;
  `saved` the list's copy; `up` and `down` the line, `module` and `doing` the module.
* Actions. `Add`, `Cancel`, `Leave`, `Delete`, `CancelRegister` and `PasswordRight` are the settings;
  `RandomRecv` ... `GetChipId` the answers; `FpTimeoutHandle` the resend; `Answer` and `Touch` the
  module; `Lose` and `Reboot` the faults.
* A counter runs out only on an empty line, since a second is longer than any
  exchange; a touch needs the REG command acknowledged.
* After "Try again" the left button of the page only returns (`returning`,
  `gui_setting_widgets.c:738`): `Leave` does not tell the module, which goes on registering.
* `crossed` (the user acted while the module was busy, or left it so) and `missing` (a frame was lost that
  nothing repeats) are history variables.
* Left out: recognising a finger (its effect is in PublicInfo and LockDevice), the AES
  key exchange, low power, the lock page over the settings, a module that restarts on its own, and a message dropped because
  two bits of the task's event are set at once.

### MC modules and configurations

`MCKeystore` gives the test secrets their mnemonic types (one BIP39, one SLIP39) and
the symmetry of passwords; `MCPublicInfo` gives the symmetry of secrets and of
passphrases (of passphrases only, where the secrets are of two kinds). No property tells symmetric values apart. `MCLockDevice` gives the lock times.
The other modules have liveness properties, under which TLC does not support symmetry,
and are checked directly.

## 3. Runs

| Run | Bounds | Shows |
|---|---|---|
| `keystore` | 2 accounts, 2 passwords, 2 secrets, 3 saves, ATECC608B errors | `PasswordsUnique`, `WalletsRecoverable`, `SlotsAgree`, `PublicKeysMatch`, `ParamMatches` and the refinement `ImplementsStore`, with a power loss between any two writes (0.9 million states) |
| `public_info` | 3 accounts, 3 secrets, 1 passphrase, 2 versions, 3 wallets created, no ATECC608B errors | `RamKeysMatch`, `UnlockedHasKeys`, `FlashHoldsBase`, `InfoMatches` (1.2 million states) |
| `public_info_faults` | 2 accounts, 2 secrets, 2 passphrases, ATECC608B errors | `KeysVerify`, `TempKeysCurrent` and `PassphraseKeysOrNone` hold even when jobs give up halfway, one secret BIP39 and one SLIP39 (3.3 million states) |
| `file_trans` | 2 firmwares, 2 pictures, 2 chunks, time-outs inside handlers, read errors, a full volume | `PictureShownIsWhole`, `RebootWithWholeFile`, `HashedIsWritten`, `AssertOnlyAfterPicture`, `FileModeEnds`, with losses, time-outs and power failures anywhere (1.6 million states) |
| `lock_screen` | time-out of 1 tick, 1 queued job, 1 queued message, every outcome of a password | `FlagsRestored`, `UnlockedLoggedIn`, `LockOutsideJobs`, `AutoLock` with all tasks in every order (1.4 million states) |
| `lock_device` | 4 attempts, lock times of 2 and 1 ticks, 2 queued jobs, 2 power losses | `CountDurable`, `LastAttempt`, `WaitServed`, `WipeResumes`, `LockEnds`, `FinalWipes` (0.6 million states) |
| `usb_receive` | frames of 2 bytes, ring of 6 cells, queue of 3 lengths, 3 requests of up to 3 packets, at most 2 of which are allowed | `FramesIntact`, `CleanRequestsWhole`, `PacketsUsedOnce`, `SentRequestsHandled`, and the refinement `IsFrameLine` (0.1 million states) |
| `usb_request` | 3 requests, a queue of 5 messages, any of which may be lost | `SignedIsSeen`, `AnsweredOnce`, `ResponseAlive`, `NeverStuck`, with the parser, the UI and the background task in every order (0.4 million states) |
| `fingerprint` | 3 fingers, 2 user commands, 2 lost frames, 1 power loss, every initial list | `ListMatches`, `NothingForgotten`, `BootConverges` (0.9 million states) |
| `file_trans_assert`, `lock_device_wipe`, `usb_receive_race` | those of the run of the same module | the disagreements of section 4 |

Why the bounds are enough. Accounts interact through the password test, the blank
test, the repeat test and the globals, each of which relates two accounts; two
accounts show every such pair, and `public_info` has a third because the current, the
last and the account under construction may be three different ones. A save is
identified by its nonce: three saves allow a wallet, a second one and the re-write
of either. Two passphrases let one replace another; one version step lets saved
keys become old. The bounds (`MaxSaves`, `MaxCreates`, `MaxVersion`) are guards of the
actions that count. With every bound reached the device can still lock, crash and
log in, so deadlock is checked in every run.

What `WalletsRecoverable` does not promise: `ChangePassword` re-encrypts the pages in
place and writes the password hash last, so a power loss or an ATECC608B error in
between loses the wallet on the device: neither the old nor the new password opens
it. The history variable `torn` holds exactly the accounts in that state, and the
property says that nothing else can lose a wallet. In the same way
`UnlockedHasKeys` excludes one state, flash in which the size word but not the JSON
was written: the next login ends with
`ERR_KEYSTORE_EXTEND_PUBLIC_KEY_NOT_MATCH` and the screen offers to wipe.

With ATECC608B errors, `RamKeysMatch`, `UnlockedHasKeys`, `FlashHoldsBase` and `InfoMatches` fail:
a create that gives up leaves the new index current, the old one last and the rest of
the globals in between (section 4). They are checked without errors. With errors,
`PassphraseKeysOrNone` is what remains of the promise to a user who gave a passphrase: the
keys in RAM are what was derived for the wallet and passphrase he asked for, or there are
none; they are never those he had before. The same is left of the temporary keys
(`TempKeysCurrent`). Neither can promise that the keys are right: an ems that was not read, or a
wallet that is read as one of the other kind, gives `GarbledKeys` (section 4). Without errors
`RamKeysMatch` says that they are.

Every property has a mutant of a mapped definition that breaks it (`mutants` in
`PROJECT.json`): a password test that stops at the first account, a boot check that
looks at the IV page only, a hash page written before the erasure, and so on.

In FileTrans two chunks have a first and a last one, before and after which everything
may happen; a second file of a kind can be announced while the first is on the way or shown.

In LockScreen a time-out of one tick lets a lock begin between any two steps. The queues
hold five messages in the code; with one, every message may be lost, and what is
queued waits while the others run. The safety properties are proved for queues and
time-outs of any size (section 5).

What `FlagsRestored` and `LockOutsideJobs` do not promise is in `Nested`, `PageHeld` and
`overwritten`. Once a view has saved or put back a flag across a job, or an unlock has returned
early (`Nested`), the flags stay as they are. A "Generating" page whose end is never signalled
holds the page's flag for good (`loading`, a part of `PageHeld`), until another holder happens
to set it: `FlagsRestored` says that nothing else modelled leaves that flag cleared, and `AutoLock`
excludes it by `LeftAlone`. A holder that sets the page's flag while another still counts on
it (`overwritten`) lets the device lock under the other; both flags together still keep it
out of a job that works with the account, the passphrase of the settings excepted, which
holds only the page's flag. Writers left out are listed in section 2.

In LockDevice four attempts stand for ten: the first wrong password has no lock, the
second and third have locks of different length, and the fourth wipes. Two power losses allow one
during the resume of a wipe that another had interrupted; a queue of two can be full
while a job runs. Ages saturate, so the clock needs no bound.

In UsbReceive the sizes keep the relation of the code, in which the ring (2048 cells, one
of them always free) holds one byte less than the queue's 32 frames of 64 bytes: three
frames of two bytes do not fit into six cells. A host that is a window of four
frames ahead overflows both; `ahead` records it, and the properties speak of hosts
that are not. Three requests let the rest of one meet a second and the third be clean.

In UsbRequest three requests let one be answered, one be pending and one be refused;
that is also enough for a parse of the first to end in the view of the second. The queue
holds five messages, as in the code; three requests do not fill it, but the signals of
others may, and any message may be lost. In Fingerprint an instance with three user commands (4.8 million states) was
checked as well; it takes too long to be checked each time.

What the history variables exclude. `PictureShownIsWhole` and `RebootWithWholeFile` exclude a time-out
inside a handler, a read error (`spoiled`) and a full volume (`short`). `LastAttempt` and `WaitServed` exclude the orders in `Races`:
two passwords given before the first is answered, a power loss between the answer and
the write of the lock time, a lock that begins before the stamp of the one before is
cleared, and a reset by the seed phrase. `AnsweredOnce`, `SignedIsSeen` and `ResponseAlive` exclude
a host that asks again before it has an answer, and a view that answers a request that
came later (`Orderly`). `SignedIsSeen` excludes `mixed` besides: without it TLC shows a request
rejected while it is being parsed, the next one's view with the result of the first, and
the second signed. `NeverStuck` excludes `lost` and `mixed`: a message or a job that is dropped is
not given again. `ListMatches` and `BootConverges` exclude `crossed` and `missing`. Each
exclusion is needed: TLC violates the property when it is left out.

Fairness. `FileModeEnds`: a host that has left does not keep
the device in file mode. It assumes `WF(Handler)`, the data-parser task goes on with a
frame it has begun (FreeRTOS runs a ready task), and `WF(TimeOut)`, a started one-shot
timer expires. Nothing is assumed of the host.
`AutoLock`: from the moment nobody touches the device, sends it USB traffic or leaves a
request or a full-screen code open (`LeftAlone`), it logs out, shows the lock page and
stays so. It assumes weak fairness of the periodic timer's callback, of the lock it has
begun, of the background task and of the UI task: each waits for its queue and is run
by the kernel when there is something in it. Nothing is assumed of users and hosts.
`LockEnds` and `FinalWipes` assume that the background task, the UI task, a running wipe,
the LVGL timers and the clock go on, and that a device that was switched off is switched
on again; users owe nothing. `SentRequestsHandled` assumes that the USB task and the parser
task run and that a handler returns from its sleep; the host may stop anywhere.
`NeverStuck` assumes that both tasks and the background parser run and that an answer is sent
in the end; it asks nothing of the user, who may leave a view open for ever.
`BootConverges` assumes that received frames are handled, that the timer runs and that the
module answers what reaches it; frames may be lost within the bound `MaxLosses`.
Keystore and PublicInfo claim no
liveness: they are about what may happen to stored data, and a user may always stop.

## 4. Disagreements found

Three runs show that the code does what a text of the repository says it does not.

* `file_trans_assert`: `ServiceNftFileTransInfo` sets `g_isNftFile` (`service_file_trans.c:492`)
  before the file may be refused, and a firmware's Info does not clear it. A firmware
  sent next is stored without decryption, its MD5 does not match, and the handler ends
  in `ASSERT(false)` (`:402`). `AssertOnlyAfterPicture` says that, without a race, there is no
  other way to it.
* `lock_device_wipe`: the wipe that the boot starts because of the error count
  (`power_on_self_check.c:58`) does not set the flag, and its second statement erases the count.
  A power loss after it leaves a device that boots with accounts, although "All the data
  on this device will be erased after wiped" (`lv_i18n.c:866`). `WipeResumes` is what
  holds: with the flag, nothing stops a wipe.
* `usb_receive_race`: with a full ring `circular_buf_put` writes the reader's index from a
  value it read before ("For thread safety, do not use put - use try_put.",
  `circular_buffer.c:94`); the parser is sent back and handles packets twice.
  `PacketsUsedOnce` says that it takes a host that is as many frames ahead as the queue holds.

Seen while modelling: behaviours that no text of the repository contradicts, and that the
properties exclude by name. They are places where a change of the code deserves care.

* `user_fatfs.c:236`: on a full volume `f_write` writes less than it was given and returns `FR_OK`;
  the MD5 is that of the chunks received, so `Complete` declares a picture valid, or restarts the
  device into its loader, over a file that lacks bytes (`HashedIsWritten` says that it is then shorter than what was hashed).
* `account_manager.c:161`: the SLIP39 identifier is saved after the password hash; a power
  loss in between leaves a wallet that unlocks with identifier 0.
* `account_manager.c:522`: a power loss in `DestroyAccount` leaves the public keys of a deleted
  wallet in flash, and its phrase is refused as already used. The converse happens
  too: between the password hash and the cached keys, the phrase is accepted a second time.
* `account_manager.c:268`: after a create cut short by an ATECC608B error, a fingerprint
  unlock returns to the old account with the new one's account info, which the next
  save writes over the old one's. In the same state the RSA set-up saves keys derived
  with a passphrase to flash.
* `gui_model.c:948`: when the keys of a new passphrase cannot be derived, a second attempt
  with the same passphrase is answered with success, though there are no keys.
* `keystore.c:666`: `GetPassphraseSeed` does not look at the result of `GetAccountSlip39Ems`. When
  the ATECC608B fails, a SLIP39 wallet is given a passphrase and keys that come of an
  array that was never written, and success is reported.
* `account_public_info.c:872` to `:982`: every error on the way skips `SIG_END_GENERATE_XPUB`, so that
  `gui_lock_widgets.c:487` is not undone: the page "Generating" stays, and "Auto Lock" has no
  effect until another view sets the flag. For temporary keys `VerifyPasswordAndLogin` drops the
  error, and the lock page is hidden with the flag still cleared.
* `screen_manager.c:103`: `LockScreen` tests the flags, waits for the secure element, and logs
  out whatever has begun since. A passphrase job in between finds index 255 and stops
  in `ASSERT(accountIndex <= 2)` (`keystore.c:381`). `LockOutsideJobs` is what holds.
* `service_export_address.c:136`: the device may lock between the check of an export
  request and the opening of its view, which is then over the lock page.
* `gui_usb_transport_widgets.c:136`, `gui_fullscreen_mode.c:27`: a view that is opened while a job
  holds the lock flag saves the cleared value and puts it back when it is closed;
  "Auto Lock" has no effect from then on.
* `eapdu_protocol_parser.c:139`: a packet whose index was received already is dropped
  unread; after a request that was given up it may be another request's.
* `gui_lock_device_widgets.c:264`: a lock that begins while the stamp of the one before has not
  been cleared is shortened by it.
* `gui_model.c:1079`: the keyboard accepts a second password while the first is being
  verified; both are counted, and on the last attempt the assertion on the count fails.
* `service_resolve_ur.c:100` to `:109`: `GotoFailPage` asks for the result page, and so does the
  sender after it has answered; a UI task that has not opened the first when the second
  is posted opens the view twice, and it becomes its own predecessor in the view list.
* `service_resolve_ur.c:114`: the refusal of a request that came while another is pending
  resets `g_requestID`, so that the pending one is not answered any more.
* `gui_model.c:1298`: closing a transaction view does not cancel the parse it asked for, nor the
  result on its way. A view opened by the next request takes it
  (`gui_transaction_detail_widgets.c:207`) and shows the older transaction until its own result
  comes, while the data to sign are the new ones.
* `gui_analyze.c:1190`: closing a transaction view frees the UR of its chain (`gui_btc.c:797`). If the
  next request has set its own by then, as it may while the page of a result lies over that
  view, its view opens on freed data.
* `service_resolve_ur.c:160`: when `UI_MSG_PREPARE_RECEIVE_UR_USB` finds the queue full it is dropped;
  `g_requestID` stays set, no view opens and no answer is given, until the refusal of
  the next request, or the cable pulled, resets it.

## 5. Proofs

TLAPS checks theorems of every component modelled, each for all values of the
constants that its assumptions admit. The assumptions are named in the modules, TLC evaluates them in the
runs, and they say no more than that bounds are numbers, that special values differ from
ordinary ones and, in LockDevice and UsbReceive, what the code's own constants satisfy (falling
lock times below the limit; room in the ring). Every safety property that a passing run checks
is the subject of a theorem. Where a property names a history variable
(`spoiled`, `short`, `torn`, `races`, `overwritten`, `ahead`, `rude`, `stray`, `crossed`, `missing`), or excludes the ATECC608B's errors, the theorem has the
same hypothesis; sections 2 and 3 say what happens without it.

* `KeystoreProofs` (`KeystoreAssumption`: up to 255 accounts, any passwords and secrets).
  * `TypeCorrect`: `TypeOK` with `JobOK`, which says what arguments a job has
    at each step: a page is written from `job.secret`, so its type needs that a
    "save" step has a real secret and a real password.
  * `PasswordsStayUnique`: uniqueness is not inductive, because
    `CheckPasswordExisted` and the write of the hash are many steps apart. `Reserved` is the
    missing part: from the check to the write no other account has the new password.
    It is kept because there is one job at a time and the boot check only erases.
    `FreeMeansUnused` is the lemma that the scan of `CheckPasswordExisted`, which stops at the
    first match, still means that no other account has the password.
  * `WalletsStayRecoverable`, `SlotsAlwaysAgree`, `PublicKeysAlwaysMatch`, `ParamAlwaysMatches`: all four follow
    from `WalletInv`. `WholeInv` says that an account whose password opens it is made of
    one secret, page by page, with its parameters and cached keys; what makes it inductive is, for each step
    of a job, which pages are already of the current save or already erased
    (`EraseInv`, `CreateInv`, `ChangeInv`, `SaveInv`), that the record in RAM a later save writes
    is that of the current account (`InfoInv`), and where the two tests for a
    blank account may differ (`AgreeInv`). The boot check restores `AgreeInv` after a crash.
  * `PagesImplementStore`: every step of Keystore is a step of AccountStore or a stutter. `FreshInv`
    adds that the random value of a save is on no page yet, so that a page written by an
    interrupted save cannot pass for one of the next.
* `PublicInfoProofs` (`PublicInfoAssumption`), in three layers. `KeysAlwaysVerify`: complete keys in flash pass the hash
  check; `SaveInv` says where a save stands: blank flash from the erasure
  to the size word, and from the hash page on a hash that is that of the keys in
  RAM. Blank and cut-off flash are not sets of keys (`NotKeys`), so the property is
  vacuous for the account exactly while it is being written. `TypesHold`, `TempKeysAreCurrent` and
  `PassphraseHasKeysOrNone` bear errors of the ATECC608B at any step: `WorkInv` says what a job has in
  hand, `TempInv` and `PassphraseInv` for whom the temporary keys were derived. `RamKeysAlwaysMatch`, `UnlockedKeepsKeys`,
  `FlashAlwaysHoldsBase` and `InfoAlwaysMatches` have the hypothesis `~AteccFaults`, as the run
  `PublicInfo.cfg` has: a job that fails half-way leaves the account current with whatever it had, as section 3 says. `WholeInv` relates the session, the
  keys in RAM (`OwnTempInv`: without errors they are the wallet's own) and those in flash while no job runs, and says for each step of a job what it has
  changed so far and that the rest still stands.
* `FileTransProofs`, `PictureWhole`, `RebootWhole`, `Md5OfFile`: for every number of files and chunks
  and with every kind of fault allowed. The invariant adds to the properties: `Announced`
  (the host's file is the announced one while it is served), `Busy` (from Complete on
  nothing is received), `Hashed` (what was hashed is what is on
  disk, also within the handlers, or more than that after a short write) and `Copied` (the sectors before `sector` are those of
  the announced picture, and no valid picture is shown meanwhile). `Hashed` is what
  makes the comparison of the MD5 say something about the file, and `Copied` what makes
  `ShowPicture` safe. `AssertsOnlyAfterPicture` is the other half, that the comparison fails in
  no case but the known one: `FedSoFar` says which chunks were hashed at each offset, also when the reply to
  the last one was lost, and that a picture is never received without its flag.
* `LockScreenProofs`, `FlagsGivenBack`, `LocksOutsideJobs`, `UnlockedShown`, `TypesOfLockScreen`: for
  queues of any positive size, any time-out (`QueueAssumption`, `TimeOutAssumption`) and
  every subset of outcomes. None of the properties is inductive. `FlagInv` relates each
  saved value to who holds the flag: while nesting is intact, a job past its save holds
  a value that is true unless an export view is shown, and the view holds a true one; the page's
  flag is set unless somebody holds it, and is cleared while somebody does unless it was `overwritten`; `OneExport` says
  that no second request is on its way while one is shown (or the view would save its
  own cleared flag); `PageInv` says that a "pass" in the queue, or a job about to post it,
  belongs to a logged-in account or to a lock that outran it.
* `LockDeviceProofs`, `CountWrittenFirst`, `WipeAlwaysResumes`, `LastAttemptIsLast`, `LocksAreServed`,
  `TypesOfLockDevice`: for any limit above the number of lock times, any falling lock
  times, any positive queue and any number of power losses (`ErrorsAssumption`,
  `LockTimeAssumption`, `BoundAssumption`). `Order` says how the tasks hand over to each other and
  where the count in RAM and the count in the secure element agree; it is what makes
  the answer of a verification the durable count. `WipeInv` says where a wipe begun with the flag
  stands: the flag is there and the statements before the current one are done. `OneAtATime`
  (one verification is asked for, under way or answered), `TimerRuns` (the countdown
  runs under a page that waits for it) and `BelowLimit` (a page that takes a password is
  below the limit) carry `LastAttempt`; they hold until two verifications overlap, which
  the property excludes by name. For `WaitServed`, `Served` says that a page on which a
  password may follow belongs to a lock that was waited for, and `Stamps` that every time stamp
  on its way to the secure element makes a boot believe in no more time than has passed.
* `UsbReceiveProofs`, `FramesStayIntact`, `ReceivePathIsFrameLine`, `PacketsAreUsedOnce`, `CleanRequestsStayWhole`,
  `TypesOfUsbReceive`: for any number of requests and any lengths of frame, queue
  and ring for which `RoomAssumption` holds: the ring has room for the frames of a full
  queue but one (31 frames of 64 bytes in 2048). While the host is less than a queue ahead, there are places `off` in the
  ring where the frames of the queue end (`RingInv`); between two of them is room for just
  the frames between them, and their bytes are in the cells before them. The USB task and
  the parser's take turns between any two accesses, so `off` is chosen anew at every step.
  That gives the intact frames and the refinement of FrameLine, and with it the
  packets in the parser's table: `OrderInv` (they come in the host's order), `PacketsInv` (each was sent and
  is used once) and `CleanInv` (where a request that met no other stands in the
  table). The types hold without the hypothesis: no row is written beyond `MaxTotal`.
* `UsbRequestProofs`, `WhatIsSignedWasSeen`, `EachIsAnsweredOnce`, `ResponseStaysAlive`, `TypesOfUsbRequest`: for any queue
  of the UI task and any number of requests, for a host that waits for its answers (`Orderly`,
  as in the properties). Two tasks share `g_requestID`, the globals of the chains and the stack of
  views, without a lock. `RequestInv` says who may be at work on the pending request: the data parser
  task (`CallInv`), a message on its way (`ComingInv`), the view on top (`ViewInv`) or an answer being sent
  (`AnswerInv`), never two of them; and how views may lie on each other
  (`StackInv`). There is a lemma for each action and one for what opening and closing a view changes.
  `SeenInv` rests on it and adds `DataInv`, which holds as long as nothing is `mixed`: there is at most
  one parse, none before the data of a request are set, and what a view shows, what is parsed for it and what the
  globals hold are one request; so an answer has what was seen.
* `FingerprintProofs`, `NothingIsForgotten`, `ListAlwaysMatches`: for any number of requests, lost frames and
  power failures (`BoundAssumption`), in two layers. `LineInv` says, while the user waits (`~crossed`), that one command at
  a time is on the line (`Alone`: on its way up, or answered by an acknowledgement before a result), that a command that
  waits for its random number has the line to itself, and its counter runs: that gives `NothingForgotten`, also when
  results are lost. `PhaseInv` adds `~missing` and names the phases an operation goes through, with what
  list, copy and module have to do with each other in each: `Counting` after a boot (they differ by the
  one operation the power failure cut off, so that equal numbers mean equal lists, which is why comparing the numbers is
  enough), `Settled`, `Registered`, `Keyboard` (the module has one finger more, `index`),
  `Undoing`, `Deleted` (the module has one less, and the result is on its way) and `Wiping`. `ListMatches` does not hold
  by itself from step to step; the phases do, with one lemma for each action. Theorems `LineStays` and `PhaseStays` state the
  two layers.

Only model-checked: the liveness properties `FileModeEnds` of FileTrans, `AutoLock` of LockScreen,
`LockEnds` and `FinalWipes` of LockDevice, `SentRequestsHandled` of UsbReceive, `NeverStuck` of
UsbRequest and `BootConverges` of Fingerprint: the prover does not handle liveness under
fairness, nor ENABLED.

## 6. Plan

Done: Keystore with AccountStore; PublicInfo, which rests on it; FileTrans; LockScreen;
LockDevice; UsbReceive with FrameLine and UsbRequest, which rests on it; Fingerprint. Proved: every
safety property of the passing runs, and both refinements.

Theorems worth proving next: the bound of Fingerprint's queue in `TypeOK` (a counter is in it once),
and an abstract specification of the fingers, added and removed in one step, that Fingerprint implements.

Worth modelling later: the flags that let a finger sign and the recognise command; the
multisig wallet manager, whose hash-then-flash save resembles that of PublicInfo; the PSRAM
heap as a pure algorithm; LockScreen composed with UsbRequest.

Not modelled, and why: cryptography and per-coin derivation (values), transaction
parsing and signing (pure functions in Rust), layout and text of screens,
peripherals, file systems, vendored and generated code. The list with a reason for
each is `components` in `PROJECT.json`.

Coverage. Most of the C files are fonts, translations, widgets, per-coin screens, drivers
and tests, which keep no state of the protocols above; the share of all lines that the
models map stays small for that reason, and it is the managers, the tasks and the USB
protocol that it consists of.
