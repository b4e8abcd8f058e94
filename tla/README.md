# Verification of Pico FIDO2 (RP2040-GEEK)

TLA+ models of the firmware in `src/` (the CTAP 2.1 / U2F / OATH / OTP
authenticator) and `pico-keys-sdk/src/` (USB, APDU, flash), the TLC
configurations that check them, and TLAPS proofs about them.  Every definition
is translated from the C code; `PROJECT.json` maps each to its lines.

## 1. Inventory

The firmware runs on two cores.  Core 0 runs the main loop
(`main.c:321`): `usb_task` polls the HID and CCID interfaces, assembles
messages, starts core 1 and answers the host; `do_flash` writes cached flash
pages; a pressed button is reported to the OTP application, and so are the keyboard's
feature reports.  Core 1 runs one thread, `cbor_thread` or `apdu_thread`, which takes a
command from `usb_to_card_q`, runs it to its end and puts `EV_EXEC_FINISHED` into
`card_to_usb_q`.  The two share the queues, the message and response buffers,
the file table and the page cache with its mutex.

| component | state | operations | interacts with | hard parts | correct when |
|---|---|---|---|---|---|
| page cache `low_flash.c` | 4 slots, `ready_pages`, `flash_available`, `locked_out`, `mtx_flash` | `flash_read`, `flash_program_block`, `low_flash_available`, `do_flash`, `low_flash_init_core1` | file system above, chip below, both cores | reset of core 1 inside the mutex, lockout, power cut between erase and program | readers see every write, no sector twice, commits happen, no mutex is orphaned |
| USB task, queues, button `usb.c`, `main.c` | `card_locked_itf`, two queues, `cancel_button`, timeout | `usb_task`, `card_start`, `card_exit`, `wait_button` | transports, core 1 | core 1 reset by a new command, nested `usb_task`, two interfaces | one answer per command, for who asked |
| CTAPHID `hid.c` | `msg_packet`, `last_cmd`, `last_seq`, `last_req`, timers, `lock` | one handler per frame, a timeout, the answer | USB task | interleaved channels, late frames, cancel | frames never mixed, every request answered |
| CCID `ccid.c`, APDU `apdu.c` | header buffers, chain, remaining response | power on/off, transfer, chaining, GET RESPONSE | USB task, applets | command for the wrong thread, interrupted chain | |
| file system `flash.c`, `file.c` | linked list on flash, file table, up to 128 dynamic files | allocate, clear, write, scan, new, delete | page cache | core 0 rescans while core 1 runs, no room, torn commits | list well formed, files disjoint |
| client PIN `cbor_client_pin.c`, `cbor_config.c`, `cbor_reset.c` | `EF_PIN`, `EF_MINPINLEN`, `EF_AUTHTOKEN`, `paut`, `new_pin_mismatches` | set, change, token, setMinPINLength, reset | all commands that use the token | abort and power cut between writes | bounded guesses, sound tokens, enforced minimum |
| credentials `credential.c`, `cbor_cred_mgmt.c` | `EF_CRED+i`, `EF_RP+i` with a `uint8_t` count | store, enumerate, delete, update | files | two files per credential, limits, stale enumeration | counts agree with credentials |
| assertions `cbor_make_credential.c`, `cbor_get_assertion.c`, U2F | list and request kept for the next assertion, sign counter | make, get, getNext | credentials, token, button | stale list | counter grows, list fresh |
| large blobs | expected length and offset, buffer, file | get, set by fragments | token, files | restarted sequences | a stored blob is one writer's and whole |
| key device `fido.c`, `cbor_vendor.c`, `cbor_config.c` | key, encrypted key, decrypted copy, session | lock, unlock, backup, restore | all key derivation | flags that outlive keys | a locked device uses no key |
| OATH, OTP, management | slots, access code, counters | APDU commands; for OTP also a keyboard report and the button, on core 0 | files, cache | chained answers, counters, writes on core 0 | |

Crypto, ASN.1, EAC, RNG, known-app tables, getInfo are computation without
shared state; `mbedtls` and `tinycbor` are vendored; `usb/emulation` is a
single-threaded test build.  `PROJECT.json` lists every component with its
status, and under `hazards` what in this code is hard to test.

## 2. Plan

In order of importance: the cache and its two cores, the PIN and its token, the
frames, the file system, the way of a command through the queues, the
credentials.  These exist, each with its runs and its proofs:

1. `PageStore` (abstract), `PageCache`, `PageCacheProofs`, `PageStoreProofs`
2. `PinGuard` (abstract), `ClientPin`, `ClientPinProofs`
3. `CtapHid`, `CtapHidProofs`
4. `FileMap` (abstract), `FlashFiles`, `FlashFilesProofs`
5. `Commands` (abstract), `CardLink`, `CardLinkProofs`
6. `Accounts` (abstract), `Credentials`, `CredentialsProofs`, `EnumerationProofs`

They compose by contract, not by INSTANCE, since each alone has about as many
states as can be visited: `FlashFiles` takes the bytes it stores as `PageStore`
gives them, `Credentials` and `ClientPin` their files as `FileMap` gives them, and
`CardLink` the end of a command as `CtapHid` and `PageCache` have it (`Finish`).

Left: the large blobs (a register written in fragments), the lock of the key
device, OATH and OTP (section 9 says why these were left).

## 3. Modules

### PageStore, PageCache

`PageStore` is what callers of the cache rely on: `mem` changes at once with a
write, `durable` sector by sector through an erase and a program, and a power cut
puts `mem` back to `durable`.  `PageCache` is `low_flash.c` and its two users.

| model | code |
|---|---|
| `flash_pages[k].page/address/ready`, `ready_pages`, `flash_available`, `locked_out`, `mtx_flash` | the variables of those names |
| `pc0` = usb, ccid, flash, scan, erased | core 0: before `usb_task` or at its HID part; at its CCID part; in `tud_task` and about to call `do_flash`; in its loop at slot `r`; between erase and program |
| `pc0` = rescan, report, button | core 0 writes files: in `init_fido` for a CTAPHID_INIT; in `otp_hid_set_report_cb`; in `otp_button_pressed` |
| `pc1` = off, boot, idle, run, and the calls init, program, available, read | core 1: before its first start; `card_init_core1`; waiting for a command; in a command; inside the mutex |
| `ptr` | the last pointer `flash_read` gave to the running command |
| `cmd` | whether the host's command runs, is done, or there is none |
| `asked0` | auxiliary: a commit was asked for on core 0 since `do_flash` looked last |

A call of core 1 is two steps (enter the mutex, do the work and leave), because
`card_start` may reset core 1 in between; that leaves `mtx_flash` at `"core1"`, as
`multicore_reset_core1` does.  Calls of core 0 are one step: nothing resets core 0.  Erase and program are two steps, because the power may go.
`Settled` states that a frame is at least a millisecond after the one before
(full-speed USB), by when core 1 is through `low_flash_init_core1`.  `HostWaits`
chooses between a host that sends no command before the last is answered and one
that does.  Content is one value per offset; addresses are sectors.  The `erase`
flag is left out since `flash_erase_page` has no caller.

What the model shows beyond its properties (`LockoutDeadlock`): when core 0 itself
asks for a commit and starts a command in one turn of the main loop, `do_flash` takes
the mutex while core 1 boots, waits for its lockout, and core 1 waits for the mutex
before it can answer.  A press of the button counted just before a command is served
does it, and so do a CTAPHID_INIT followed by a CCID command in the same `usb_task`, or
a command followed by the last keyboard report of an OTP frame in the same `tud_task`.
Only the power ends it, and the cached pages are lost.  `NoLockoutDeadlock` and
`CommitHappens` say that nothing else leads there.  A commit asked for before core 1
was first started is dropped by `do_flash`, which clears the flag: the pages wait for
the next request; `CommitHappens` speaks of the time after the first start.

### PinGuard, ClientPin

`PinGuard` is what the rest relies on: an attempt costs a retry; only the right PIN
gives retries back, lets the PIN be changed and puts a token that the host holds in
use; a reset takes the PIN, and the power what was not kept.  A reset does not close
the token: `cbor_reset` empties the file list first and draws a token only when it has
made a key and a certificate, and until then `paut.data` points to the bytes of the old
one.  Cut short in between by a new command, the old token stays in use with no PIN set,
until something draws one (any CTAPHID_INIT does) or another file takes the place.
`ClientPin` is how the code does all this, write by write.

`ef_pin`, `ef_minpin`, `ef_authtoken` are the files as the cache has them, `chip`
as the chip has them; `auth` (what `paut.data` shows), `paut`, `new_pin_mismatches`,
`hkey_init` are RAM.  `pc` says between which two writes of which command core 1 is.
The ghosts `held`, `grant`, `wrong`, `budget` record what the host was given and how many
wrong PINs were compared, `apart` and `torn` whether the power went between two files of
one `do_flash`; no guard reads them, except that a host can only authenticate with a
token it was given (`Authentic`, the HMAC check of `verify`).

| model | code |
|---|---|
| `StartAttempt`, `Mismatch`, `Undecryptable`, `Match`, `Restore` | `cbor_client_pin.c:424-513, 535-607` |
| `WriteNewPin`, `ClearForce`, `RenewToken` | changePIN `:515-533` |
| `IssueToken` | `:608-626` |
| `SetMinPin` | `cbor_config.c:192-222` |
| `MakeCredential`, `GetAssertion`, `Presence` | what those commands do to the token |
| `StartReset`, `Reset`, `TenSeconds` | `cbor_reset.c`, as far as the empty list |
| `ScanFiles`, `Rescan` | the token in `scan_files`: on core 1 after a reset, on core 0 for a CTAPHID_INIT |
| `Reuse` | another file is written to where `paut.data` still points |
| `Abort` | `card_start` for a new command |
| `Commit`, `PowerCut` | `do_flash`, power on |

Abstractions: a PIN's hash is the PIN; `new_pin_mismatches` stops at 3;
`needs_power_cycle` is only reported by getPINRetries and left out;
`user_present` is never true in this code; a refusal that writes nothing is no
step; the minPINLength RP list is left out.  `Commit` writes a file at a time, an
erased file list first.  A minimum length is compared as the 64 bits that came and
stored as one byte: 260 is accepted over 8 and stored as 4, so `MinPinEnforced` speaks
of the minimum in the file.  Two short windows are one step each: a token is in its file
and under the pointer at once, and the list and the file table are emptied at once.
`paut.data` is the file's token, not the bytes at an address: a cache slot that is
reused under the pointer is not seen (`PointerFresh` covers the pointers of one command
only).  The preview command 0x41 of the credential management does not ask for a
permission (`cbor_cred_mgmt.c:129`) and changes nothing that is modelled here;
`TokenSound` says nothing of it.  `GuessBudget` counts from what the power left: a
retry that had not reached the chip is there again after a power cut.

### CtapHid

One step is one call of `usb_task` that sees a frame, a timeout or the end of a
command; frames are at least a millisecond apart.  `msg_packet` holds the parts of
the message under way, each tagged with its client and request, so a mixture is
visible.  `recent` is "less than 100 ms since `last_cmd_time`", `timer` is
`last_packet_time`, `locked` is `board_millis() < lock`, `stuck` is a frame that
was looked at and not cleared from `rx_buffer`.  MSG, CBOR and the vendor commands
are "CBOR": core 1 runs them.  UUID, VERSION and ADMIN behave as WINK.  `Deliver`
is the handler, split by the path a frame takes: `Refuse`, `Stray`, `Ignore`,
`Immediate`, `Accumulate`, `InvalidCommand`, `Echo`, `Dispatch`.

The clients are external, modelled as python-fido2 (the tests) behaves: all the
frames of a request, then the answer; one that dies (`Abandon`) is followed by one
that begins with INIT.  INIT gives every client the cid 0x01000000 in this code;
the model gives each client a channel, as the tests do that set their own.  Left
out: keepalives, the frames of a long answer, the answer's contents, the keyboard,
a command that needs no core 1 (GET RESPONSE).

### FileMap, FlashFiles

`FileMap` is what callers of the file system rely on: a map from file identifiers to
contents, where a write that fits replaces the content at once, and any other first
takes the file out of the map and puts it back if there is room.  `FlashFiles` is
`flash.c` and the part of `file.c` below it.

| model | code |
|---|---|
| `next`, `prev`, `fid`, `content` | the header of a node and its `len` bytes, by address |
| `data` | `file_t.data`: the node a file of the table has |
| `known` | `dynamic_file[0..dynamic_files-1]` |
| `Unlink`, `Wipe` | `flash_clear_file`: the link of the node before, then the rest |
| `Walk`, `Link`, `Fill` | `allocate_free_addr` one turn of its loop at a time, and the stores after it in `flash_write_data_to_file_offset` |
| `Rescan`, `ScanNode` | `scan_flash`, `scan_region`, one node at a time |
| `Write`, `Delete`, `Format` | `flash_write_data_to_file`, `delete_file`, `initialize_flash(true)` |

A step ends wherever a reader could meet the links, so the properties hold in the
middle of an operation too.  `home` is auxiliary: the node of a file that is in the
list.  Left out: meta data (`EF_META` is in no file table of this repository), the
persistent pool (it has no file), writes at an offset (no caller), a list torn by a
power cut between two sectors, by a reset of core 1 between two stores or by a store
that `low_flash.c:218` refuses, and a scan on core 0 while core 1 is in an operation.

Contents have any length.  Most callers write 2048 bytes at the most, but
`cbor_vendor.c:124` and `:309` write what the host sends.  More than a sector is
refused; a sector less its header (4084 bytes) fits as any other.  In between,
`allocate_free_addr` compares the size without the header: with exactly a sector,
the header ends in the sector below and all is well; with 4085 to 4095 bytes the
header may straddle the two sectors, where `flash_program_block` writes a field past
its slot (lengths that part it between two fields would do no harm, the model takes
them as the others); and in the lowest sector of the pool the node begins
below `start_data_pool`, where no scan finds it.  A place of the last two kinds
`Spills`: the model ends there (`Spilled`), and its properties say how far the
program is right.  The first needs a host that writes such a content, the second also
a pool full to its last sector.

### Commands, CardLink

`Commands` is what hosts that wait rely on: a request is asked, taken up by core 1
once, ended once and answered to who asked, before there is another one; a client
that was told that the button is waited for may give it up and ask anew, and the old
request is then dropped.  `CardLink` is the way of a request from a packet to its
answer: `usb_to_card_q`, the thread that core 1 runs, the button dialogue that core 0
opens for it, `card_to_usb_q`, and `card_locked_itf`, which says whose the answer is.

| model | code |
|---|---|
| `HidCbor`, `HidMsg`, `HidCancel`, `HidGetResponse` | `driver_process_usb_packet_hid`, and `apdu_process` where it needs no core 1 |
| `CcidPowerOn`, `CcidPowerOff`, `CcidXfr` | `driver_process_usb_packet_ccid` |
| `CardStart`, `HandOver` | `card_start`; the end of `usb_event_handle` |
| `Answer`, `OpenDialog`, `CloseDialog` | `usb_task` and `wait_button` on core 0 |
| `Take`, `AskForButton`, `HearButton`, `Finish` | `cbor_thread`, `apdu_thread`, `wait_button_pressed` on core 1 |

`wait_button` calls `usb_task` from its loop, so a packet may come, and a further
dialogue be opened, inside it: `dialogs` counts the calls.  `HostWaits` states how
the hosts behave (`WaitsFor`): no request before the last one, of either interface,
is answered; the reader powers its card on again after the other interface was
used; and a HID client that was told that the button is waited for, and cancelled,
may go on at once.  Nothing in the code keeps a host to it.  Where one does not,
the model (with `HostWaits` FALSE) shows a transfer over CCID taken by `cbor_thread`,
which runs the last CBOR command again; a button event that outlives its command
and runs another again; dialogues inside each other; and, from transfers after a
power off, a full queue.  A CANCEL before the dialogue is lost: `wait_button` clears
the flag when it starts.

### Accounts, Credentials

`Accounts` is a set of pairs of a relying party and a user that changes by one pair
at a time, which may take the place of one pair like it, or by a reset.
`Credentials` are the files that stand for it.

| model | code |
|---|---|
| `creds`, `rps` | the files `EF_CRED+i` and `EF_RP+i` |
| `StoreOver`, `StoreNew`, `CountUp` | `credential_store`: the search, the credential, the count |
| `Delete`, `CountDown` | `cbor_cred_mgmt` 0x06: the credential, the count |
| `RpsBegin`, `RpsNext`, `CredsBegin`, `CredsNext` | `cbor_cred_mgmt` 0x02 to 0x05, with the counters and `rpIdHashx` |
| `GetAssertion`, `GetNextAssertion`, `Expire` | the list `credsx`, `credentialCounter`, the 30 seconds |
| `Abort`, `Reset`, `PowerCut` | `card_start` between two writes, `cbor_reset`, power on |

`Alike` is the comparison of user ids, `memcmp` over the shorter length: user "12"
takes the place of user "1".  It is reflexive and symmetric (`AlikeAssumption`), and
transitive where ids have one length (`AlikeIsTransitive`).  Where they have not, one
relying party may get two credentials for one user: with "12" and "13" stored, "1"
takes the place of "12", and then a new "13" that of "1" (section 7).  The
enumerations and the list of getNextAssertion are therefore told apart by slots, not
by users.  `torn` is auxiliary: a second write was
lost, or a first one found no room.  The walks (`rpWalk`, `credWalk`, `listWalk`) are
auxiliary too: what one client was told and what was due when it began; a command
that writes ends them, not the counters of the code.  What the model shows beyond
its properties: an enumeration that goes on after a deletion may skip or repeat;
after an error in 0x05 `rpIdHashx` points to memory that was given back (`Freed`:
the next call may tell any relying party's); a getAssertion with one credential,
or without user presence, leaves the list of an earlier one in place, also across
a reset, although its answer without presence tells a number of credentials.
Left out: what a credential contains, its creation time (the list comes in any
order, since the clock starts anew with the power), lists longer than
`MAX_CREDENTIAL_COUNT_IN_LIST` (16), the sign counter, a reset of core 1 while the
list is built, an abort whose first write is then undone by a power cut, and the
heap (entries that are filtered out leave copies in `creds` which share pointers).

## 4. Runs

| run | question | instance |
|---|---|---|
| `cache_one_command` | `TypeOK`, `MutexOwnerAlive`, `NoLockoutDeadlock`, `CommitHappens` with a host that waits | 2 slots, 2 sectors, 1 offset, fair |
| `cache_any_host` | `ReadyPrefix`, `DistinctSectors`, `FlushedAll`, `PageFound`, `PointerFresh`, and `ImplementsStore` (refinement) with any host | 2 slots, 2 sectors, 2 offsets |
| `pin_tokens` | `TypeOK`, `TokenSound`, `MinPinEnforced`, host waits | 2 PINs, 2 RPs, 1 retry, 4 tokens, minima 0, 6 and 260 |
| `pin_attempts` | `GuessBudget`, `ImplementsGuard` (refinement) with aborts | 2 PINs, 2 retries, 4 tokens |
| `pin_after_reset` | violated: `BlockedAfterThree` | 2 PINs, 4 retries, 3 tokens |
| `hid_one_client` | `AnswerIsMine`, `EveryRequestAnswered` for a prompt client | 1 client, 9 requests, fair |
| `hid_two_clients` | `TypeOK`, `Reassembled`, `TransactionKept` | 2 clients, messages of 1 to 3 frames, cancel, death, lateness |
| `hid_late_frame` | violated: `InitAnswered` | 1 late client, fair |
| `files` | `TypeOK`, `ListIntact`, `BackLinks`, `ExtentsSound`, `TableMatches`, `ImplementsMap` (refinement), `OperationEnds` | 4 files, 1 static, 2 dynamic entries, 3 sectors of 5 cells, contents of 0, 1, 2, 5 and 6 cells, fair |
| `card_link` | `TypeOK`, `AnswersAsker`, `OneDialog`, `QueuesSuffice`, `RequestAnswered`, `ImplementsCommands` (refinement), hosts wait | queues of 4, 2 dialogues deep, fair |
| `credentials` | `TypeOK`, `OneCredentialPerUser`, `CountsMatch`, `RpsComplete`, `CredsComplete`, `AssertionsComplete`, `ImplementsAccounts` (refinement), with aborts and power cuts | 2 RPs, 4 users of whom 2 are alike, 3 slots, 4 files, symmetric |
| `credentials_prefix` | violated: `SameUserOverwrites` | 1 RP, users "1", "12" and "13", 2 slots |

Why the bounds suffice.  With two slots and two sectors every relation between
slots occurs: both free, one dirty, both dirty (the refusal), a slot released and
reused for the other sector; two offsets show that a write keeps the rest of its
sector.  The proofs hold for any number.  One retry lets a PIN be blocked, two lengths
let the minimum pass the PIN, and a minimum of 260 is one that does not fit its byte;
`pin_attempts` takes two retries so that a wrong PIN is followed by a right one or by
the block, and `pin_after_reset` four, so that three mismatches in a row come first.
Four tokens allow the first start, an issue and a change or a reset in one behaviour;
once they are exhausted no token is drawn in that behaviour.
Three frames give a message a middle, so that a late, a foreign and an excess
continuation all occur.  `MaxInbox` bounds answers nobody reads; the device does
not wait for them either.

In `files`, headers of one cell and sectors of five let a file fit the rest of a
sector exactly, be one cell too long for it, and fill a gap that a deleted file
left; `End` lies inside the upper sector, as the sentinel of the data pool does.  Three
dynamic files for two entries fill the table, and a file goes from present to
too long and back.  In `card_link` the hosts wait, so there is one request and at
most one button event under way and a queue of 4 is never full; that is
the property `QueuesSuffice`, not an effect of the bound: the model has the
refusal of a full queue.  In `credentials` three slots give lists of three, hence a
`getNextAssertion` that is neither the first nor the last; a table of 4 is full
with three credentials and one relying party, so that either file may be the one
that finds no room.  `client` lets one walk of one kind go on at a time, which
loses nothing the properties see: the three kinds share no variable but the files.

`CHECK_DEADLOCK FALSE` is given in `CtapHidLate.cfg` alone: the run shows that the
system stops.

## 5. Fairness

`PageCache`, `CtapHid`, `FlashFiles` and `CardLink` have a `FairSpec`; `ClientPin`
and `Credentials` need none.  In `PageCache`, the main loop has no
exit, so `Poll`, `FlashEnter` and the steps of `do_flash` are taken; strong
fairness where the mutex may be busy when the loop comes by and core 1 frees it
again and again.  `AskCommit`: a callback on core 0 writes a handful of files.  Core 1 holds
the mutex for microseconds (`Leave...`) and ends its command (`Finish`), since
parsing terminates and `wait_button` gives up after 15 s.  Nothing forces new
commands, rescans, reports, presses, writes or power cuts.  In `CtapHid`, core 0 polls the timer
(`Timeout`, `Quiet`), core 1 ends its command, and a client sends the rest of what
it began and reads its answer; it is never forced to ask.
In `FlashFiles` an operation that has begun goes on (`Step`): it is a loop of one
thread.  In `CardLink` core 1 ends its command (`Core1`), and core 0 takes an
event, opens the dialogue it is asked for and closes it: `wait_button` ends after
15 s at the latest and polls `usb_task` in the meantime.  No host is forced to send,
to cancel or to read.

## 6. Proofs

`PageCacheProofs` proves, for every set of sectors, offsets and bytes and any
number of slots:

- `TypeCorrect`, `OneSlotPerSector`, `SlotsInOrder`, `DoFlashEmptiesCache`,
  `RareErrorNever` for every host, from `CacheAssumption` alone;
- `MutexNeverOrphaned` and `LockoutNeverDeadlocks` under the assumption
  `HostWaits`.

`DistinctSectors` alone is not inductive.  The argument is `CacheInv`: the dirty
slots form the interval from `r` (1 outside `do_flash`) of length `ready_pages`, and
no sector is dirty twice.  Since `find_free_page` takes the first slot that is free
or holds the sector, it takes a held one, if there is one, before the first free
slot, and otherwise the slot right after the interval (`RoomMeansPage`,
`PageFoundAt`, `ProgramBlockKeeps`); `do_flash` shortens the interval at its lower
end (`Core0Keeps`); a reset of core 1 leaves the cache alone, and a power cut
empties it.  `WaitInv` links `cmd`, `pc1` and `mtx_flash`: with a waiting host,
`card_start` finds core 1 idle; what a command asked for has been committed or
dropped before the next one starts; and when core 0 is in the loop of `do_flash`
core 1 is past its start, or the commit is one of core 0's own.

`PageStoreProofs` proves, for every host and from the same assumption:

- `CacheIsStore`: `PageCache` implements `PageStore`.  `ViewFound` says what readers
  see of a sector: the one slot that holds it (`CacheInv`), or else the chip.  So a
  commit of core 0 is unseen, and so is the moment at which the sector is erased,
  since the slot still holds it; an accepted write is seen at once (`StepIsStoreStep`);
- `PointersStayFresh`, from `PtrInv`: until the next write a pointer into the chip is
  to a sector that no slot holds, and one into a slot is to the slot that holds its
  sector, or to a slot which a commit left with the bytes it wrote.

`ClientPinProofs` proves, for every set of PINs (of any lengths), permissions and
relying parties and any number of retries and tokens:

- `TypeCorrect`, `GuessesBounded`, `BlockedIsFinal` and the refinement `PinIsGuarded`
  from `PinAssumption` alone: commands may be aborted, also a reset between the empty
  list and the new token, and commits torn;
- `TokensSound` under the assumption `HostWaits`: while changePIN has yet to draw a
  token, the one of the old PIN is still the current one, and an abort there would
  leave it so.  Commits may be torn;
- `MinimumEnforced` from `PinAssumption` alone.  Its exception is in the property: a
  power cut between the two files of one `do_flash` leaves a PIN and a minimum of
  different times (`torn`), and changePIN unmarks the old PIN if its minimum came first.

`TypeInv` adds to the types which command core 1 runs at each place (`CurInv`).
`BudgetInv` adds to `GuessBudget` that the count is zero when changePIN is about to
write the full number of retries.  `TokenInv` adds that tokens given out are among
those drawn, so that the next one is held by nobody, that the pointer shows the token in
the file (`AuthInv`), that a token which is not in use has no permissions, and it
excludes the states in which changePIN or a reset has not yet replaced the token.
`MarkInv` says of the files in the cache and of those on the
chip that a PIN too short is marked, or commits were torn, and of changePIN that the PIN it is about to
write, or has written and is about to unmark, is long enough.  Actions that touch
none of this are dealt with together (`BudgetUntouched`, `TokenUntouched`,
`MarkUntouched`).  `PinIsGuarded` maps a step of `ClientPin` to one of `PinGuard` by
the place of core 1: the comparison itself is a stutter, and the PIN is shown when
its retries come back.  `GuardInv` says that the PIN core 1 gives them back to is
then still the one it compared, and with `AuthInv` that tokens given out were drawn, so
that a new token closes the old one (`DrawCloses`), as scan_files does or leaves the
pointer where it is (`ScanCloses`).  `PinBlockedIsFinal`, which needs no
invariant, is the part of it about a PIN without retries.

`CtapHidProofs` proves, for any clients, requests and inboxes:

- `TypeCorrect` and `OthersLeaveItAlone` from `HidAssumption` alone;
- `CommandsAreWhole` under `ResyncOnOwn`, that a client begins anew on its own
  channel.  On the broadcast channel it may be refused, by a lock or by a message
  under way, while its old message is still open, and its next request would go on
  with it;
- `AnswersAreMine` under `OneClient`: one client, never late, which cancels nothing
  and does not die.  Requests carry one bit, so a second late answer could not be
  told from the next one.

`HidInv` relates the device's message to its sender: parts are of one request in
order (`Sound`), and the sender is about to send the next one or will begin anew
(`Sends`).  `NextIsAccepted` is then that the frame which is taken next continues
the message.  `SoloInv` says where the request of the only client is: not begun,
under way, with core 1, complete and waiting for the timer, or answered.

`FlashFilesProofs` proves, for every set of files and contents, any table and
any extent of the pool, from `FlashAssumption` alone (contents have any length), all
safety properties of the module and that it implements `FileMap` (`FlashIsMap`).
`Inv` adds to the four invariants what holds in the middle of an operation:
`TableSound` (the table and `home` agree on every file but the one at hand, and the
dynamic files are counted), `ScanSound` (a file the scan has not come to is below
where it is), `CallSound` (the file at hand is out of the list; `Walk` stands at a
node of the list, and the place it found lies between two neighbours).  Without
the last, `Link` could put a node over another.  The heart is `GapSound` and `EndSound`: the place `Walk` ends at overlaps no
extent, and `SpillSound` that a place spills only for a content that does not fit in
a sector with its header.  `SectorFacts` say what is needed of sectors; all else about
sizes is linear.

`CardLinkProofs` proves, for queues of any size, every safety property of `CardLink`
under the assumption `HostWaits`.  `Inv` says that a request is in one place
(`Phase`): nowhere, in the queue to core 1, in the thread, at the button, on its way
back; that a client which goes on after a cancellation leaves nobody asking for the
button; and, in `Short`, that either queue has one event at most.  `OnePlace` is its invariance; the
properties follow from it by cases.  `LinkCarriesCommands` is the refinement of
`Commands`.  The stage of a request is read off core 1, `card_to_usb_q` and `runs`
(`StageIs`), so a request that core 1 took up again after its end, its answer or its
drop would be a step back that `Commands` has not; `NeverRunTwice` is the part of it
that needs no stages.  Two facts are added to `Inv` (`Place`): one interface waits
at most, and a request that runs, is over or was given up has been taken up, which
tells one that was dropped from one that waits.

`CredentialsProofs` proves, for every set of relying parties and users, any relation
`Alike` that is reflexive and symmetric (`AlikeAssumption`) and any number of slots:

- `NeverTwoCredentials`, with the slots' types as the strengthening (`Inv`), under
  the hypothesis `AlikeIsTransitive`.  It is needed: `credentials_prefix` refutes
  even the weaker `SameUserOverwrites` without it;
- `SlotsImplementAccounts`: a write to a slot is a registration, a deletion or a
  stutter of `Accounts` (`StepImplements`).  When an account is in two slots, its
  first deletion is the stutter (`AccountsApart`);
- `EveryAssertionOnce`, from `ListSound`: what was told, what is left and the
  counter form an order of the credentials that were due.  An order of a finite
  set names each member once, so nothing is told twice and all at the end;
- `CountsAreRight`, where counts never pass what a file holds (`TABLE <= COUNTS`:
  128 files, counts of 8 bits).  `CountsInv` says how far a count is from the
  number of credentials between the two writes (one behind in `countUp`, one
  ahead in `countDown`), and that the table bounds both kinds of files together.

`EnumerationProofs` proves, under the same assumptions, `TypeCorrect`, `EveryRpOnce`
and `EveryCredOnce`.  A walk has told the values at the first slots of a set, in the
order of the loops (`InOrder`), and its counter is one ahead (`RpWalkSound`,
`CredWalkSound`); it ends with the first write, so the set stays.  Where the values
differ from slot to slot nothing is told twice, and all is when as many were told
as there are slots (`Walked`).  They do: credentials are told by their slots, and a
relying party has one file even after a write was lost (`OneFilePerRp`).  While there
is more to tell, the hash that was kept is that of the relying party, not memory that
was given back.

All invariants and action properties of the runs that pass, and all five
refinements, are so proved for every value of the constants.  Only model-checked are
the liveness properties (TLAPS does not reason about fairness or ENABLED here), and
that the three properties of section 7 fail.

## 7. Where code and documents disagree

- `BlockedAfterThree`: `new_pin_mismatches` survives a reset, so the first wrong
  PIN after reset and setPIN may be answered PIN_AUTH_BLOCKED, where
  `tests/pico-fido/test_010_pin.py:240` expects PIN_INVALID.
- `InitAnswered`: a continuation without a message is never cleared from
  `rx_buffer` (`hid.c:335`), and nothing after it is processed;
  `tests/pico-fido/test_055_hid.py:50` expects an INIT to be answered.
- `SameUserOverwrites`: a credential for a stored user id may overwrite that of
  another id which begins alike and leave two for the one (`credential.c:293`), where
  `tests/pico-fido/test_022_discoverable.py:207` expects it to overwrite its own.
- No run: a command of another channel kills the one that runs (`hid.c:490, 511`; the
  resets of core 1 in `CardLink` and `CtapHid`), where `src/README.md:93` says that the
  device is busy.

## 8. Reading the modules

Operators whose comment begins with "Fault:" are deliberate mistakes, one beside the
definition it would replace (`PROJECT.json`, `mutants`): with it in place TLC finds
the named property violated, which shows that the property depends on the code.
The `MC...` modules give the constants of the runs their values.

## 9. Not modelled

- Large blobs: an offset and a length in RAM and one file, written by one client in
  order.  What could go wrong below is that of `PageCache` and `FlashFiles`.
- The lock of the key device and the backup: key material in RAM and two flags; what
  they let through depends on decryption, which a model would have to assume.
- U2F, OATH, OTP and management: sequential commands over files.  Their way to
  core 1, their dialogue and their files are those of `CardLink` and `FlashFiles`, and
  what OTP writes on core 0 is in `PageCache`; what is left is parsing, counters and
  HMACs.
- getInfo and selection change no state but the dialogue's.
- The frames of the CCID bulk pipe, command chaining, keepalives, what is typed on
  the keyboard and the LED: they have no state that another part reads.
- Cryptography, ASN.1, EAC, the random pool: computation, whose correctness is not
  one of states.
- The emulation and the port to ESP32: other builds, in which the two cores are
  threads of an operating system.
- mbedtls and tinycbor: vendored libraries, and nearly all lines of C in this
  repository; the share of the lines the models stand for is small for that
  reason alone.
