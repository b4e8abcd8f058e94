----------------------------- MODULE PageCache -----------------------------
(***************************************************************************)
(* The write-back page cache of pico-keys-sdk/src/fs/low_flash.c and the   *)
(* two processor cores that share it.  Core 0 runs the main loop: it polls *)
(* USB, starts and restarts core 1, commits the cached pages (do_flash),   *)
(* and writes files itself: when a CTAPHID_INIT rescans the flash, when the*)
(* OTP application gets a keyboard report, and when its button is pressed. *)
(* Core 1 runs one command at a time and reads and writes through the      *)
(* cache.                                                                  *)
(*                                                                         *)
(* A call of core 1 that takes mtx_flash is two steps, so that core 0 may  *)
(* reset core 1 while it is inside.  flash_erase_page has no caller in the *)
(* repository and is left out, and with it the "erase" flag of a page.     *)
(***************************************************************************)
EXTENDS Integers

CONSTANTS Sectors, Offsets, Bytes, Erased,
          TOTAL_FLASH_PAGES,  \* slots of the cache
          NoSector,           \* address of a slot never used (memset to 0)
          HostWaits           \* no new command until the last one is answered

ASSUME CacheAssumption == /\ TOTAL_FLASH_PAGES \in Nat \ {0}
                          /\ Erased \in Bytes
                          /\ NoSector \notin Sectors
                          /\ HostWaits \in BOOLEAN

VARIABLES
  flash,            \* contents of the chip
  flash_pages,      \* the slots: page buffer, address, ready
  ready_pages,      \* the program's count of slots to commit
  flash_available,  \* a writer asked for a commit
  asked0,           \* core 0 itself did, since do_flash looked last (not in the code)
  locked_out,       \* core 1 has once announced itself as lockout victim
  mtx_flash,        \* owner of the mutex: "free", "core0" or "core1"
  pc0, r,           \* where core 0 is, and the slot do_flash is at
  pc1, req,         \* where core 1 is, and the arguments of its call
  cmd,              \* life of the host's command: none, running, finished
  ptr               \* the last pointer flash_read gave to core 1

cacheVars == <<flash_pages, ready_pages>>
askVars == <<flash_available, asked0>>
core0Vars == <<pc0, r>>
core1Vars == <<pc1, req>>
vars == <<flash, flash_pages, ready_pages, flash_available, asked0, locked_out,
          mtx_flash, pc0, r, pc1, req, cmd, ptr>>

Content == [Offsets -> Bytes]
Blank == [o \in Offsets |-> Erased]
Slots == 1..TOTAL_FLASH_PAGES
Slot == [page : Content, address : Sectors \cup {NoSector}, ready : BOOLEAN]
NoReq == [sector |-> NoSector]
Write == [sector : Sectors, offset : Offsets, byte : Bytes]
\* slot 0 is the chip itself, read in place through XIP; written tells that
\* some page was programmed since the pointer was taken.
Pointer == [slot : 0..TOTAL_FLASH_PAGES, sector : Sectors, written : BOOLEAN]
NoPtr == [slot |-> 0, sector |-> NoSector, written |-> FALSE]
Critical == {"init", "program", "available", "read"}
Writing == {"rescan", "report", "button"}

EmptySlot == [page |-> Blank, address |-> NoSector, ready |-> FALSE]

TypeOK ==
  /\ flash \in [Sectors -> Content]
  /\ flash_pages \in [Slots -> Slot]
  /\ ready_pages \in 0..TOTAL_FLASH_PAGES
  /\ flash_available \in BOOLEAN
  /\ asked0 \in BOOLEAN
  /\ locked_out \in BOOLEAN
  /\ mtx_flash \in {"free", "core0", "core1"}
  /\ pc0 \in {"usb", "ccid", "flash", "scan", "erased"} \cup Writing
  /\ r \in 1..TOTAL_FLASH_PAGES + 1
  /\ pc1 \in {"off", "boot", "idle", "run"} \cup Critical
  /\ req \in Write \cup {NoReq} \cup [sector : Sectors]
  /\ cmd \in {"none", "running", "finished"}
  /\ ptr \in Pointer \cup {NoPtr}
-----------------------------------------------------------------------------
(* The cache seen as a memory.                                             *)

CachedAt(s, k) == flash_pages[k].ready /\ flash_pages[k].address = s

\* Where flash_read finds sector s: its first ready slot, or slot 0, the chip.
Place(s) == IF \E k \in Slots : CachedAt(s, k)
            THEN CHOOSE k \in Slots : /\ CachedAt(s, k)
                                      /\ \A j \in 1..k-1 : ~CachedAt(s, j)
            ELSE 0

View(s) == IF Place(s) = 0 THEN flash[s] ELSE flash_pages[Place(s)].page

\* What a pointer obtained earlier shows now.
Deref(p) == IF p.slot = 0 THEN flash[p.sector] ELSE flash_pages[p.slot].page
-----------------------------------------------------------------------------
(* Calls of both cores.                                                    *)

\* Fault: only a free slot will do, the one that holds s is not recognised.
UsableIfFree(s, k) == ~flash_pages[k].ready

\* A slot find_free_page may take for s: a free one, or one whose address is s.
Usable(s, k) == ~flash_pages[k].ready \/ flash_pages[k].address = s

\* Fault: any usable slot, not the first.
find_any_page(s) == {k \in Slots : Usable(s, k)}
\* Fault: the search stops one slot short.
find_short_page(s) == {k \in Slots \ {TOTAL_FLASH_PAGES} :
                          /\ Usable(s, k)
                          /\ \A j \in 1..k-1 : ~Usable(s, j)}

find_free_page(s) == {k \in Slots : /\ Usable(s, k)
                                    /\ \A j \in 1..k-1 : ~Usable(s, j)}

\* Fault: every write is counted, not only the one that takes a free slot.
program_block_recounts(s, o, b) ==
  IF ready_pages = TOTAL_FLASH_PAGES
  THEN UNCHANGED <<cacheVars, ptr>>
  ELSE \E k \in find_free_page(s) :
         LET base == IF flash_pages[k].ready THEN flash_pages[k].page ELSE flash[s]
         IN  /\ flash_pages' = [flash_pages EXCEPT ![k] =
                  [page |-> [base EXCEPT ![o] = b], address |-> s, ready |-> TRUE]]
             /\ ready_pages' = ready_pages + 1
             /\ ptr' = IF ptr = NoPtr THEN ptr ELSE [ptr EXCEPT !.written = TRUE]
\* Fault: a free slot is not filled from the chip.
program_block_unfilled(s, o, b) ==
  IF ready_pages = TOTAL_FLASH_PAGES
  THEN UNCHANGED <<cacheVars, ptr>>
  ELSE \E k \in find_free_page(s) :
         /\ flash_pages' = [flash_pages EXCEPT ![k] =
              [page |-> [flash_pages[k].page EXCEPT ![o] = b], address |-> s, ready |-> TRUE]]
         /\ ready_pages' = IF flash_pages[k].ready THEN ready_pages
                                                   ELSE ready_pages + 1
         /\ ptr' = IF ptr = NoPtr THEN ptr ELSE [ptr EXCEPT !.written = TRUE]

\* flash_program_block inside the mutex.  It refuses (CCID_ERR_NO_MEMORY) when
\* every slot is to be committed; its callers ignore the refusal.  A free slot
\* is first filled from the chip.
flash_program_block(s, o, b) ==
  IF ready_pages = TOTAL_FLASH_PAGES
  THEN UNCHANGED <<cacheVars, ptr>>
  ELSE \E k \in find_free_page(s) :
         LET base == IF flash_pages[k].ready THEN flash_pages[k].page ELSE flash[s]
         IN  /\ flash_pages' = [flash_pages EXCEPT ![k] =
                  [page |-> [base EXCEPT ![o] = b], address |-> s, ready |-> TRUE]]
             /\ ready_pages' = IF flash_pages[k].ready THEN ready_pages
                                                       ELSE ready_pages + 1
             /\ ptr' = IF ptr = NoPtr THEN ptr ELSE [ptr EXCEPT !.written = TRUE]
-----------------------------------------------------------------------------
(* Core 1.                                                                 *)

\* Core 1 takes the mutex on its way into a call.
Enter(from, to, arg) ==
  /\ pc1 = from
  /\ mtx_flash = "free"
  /\ mtx_flash' = "core1"
  /\ pc1' = to
  /\ req' = arg
  /\ UNCHANGED <<flash, cacheVars, askVars, locked_out, core0Vars, cmd, ptr>>

Leave(from, to) ==
  /\ pc1 = from
  /\ mtx_flash' = "free"
  /\ pc1' = to
  /\ req' = NoReq
  /\ UNCHANGED <<flash, core0Vars, cmd>>

\* low_flash_init_core1, the first thing a started core 1 does.
EnterInit == Enter("boot", "init", NoReq)
LeaveInit == /\ Leave("init", "idle")
             /\ locked_out' = TRUE
             /\ UNCHANGED <<cacheVars, askVars, ptr>>

\* EV_CMD_AVAILABLE wakes the command thread.
TakeCommand == /\ pc1 = "idle" /\ cmd = "running"
               /\ pc1' = "run"
               /\ UNCHANGED <<flash, cacheVars, askVars, locked_out,
                              mtx_flash, core0Vars, req, cmd, ptr>>

EnterProgram == \E w \in Write : Enter("run", "program", w)
LeaveProgram == /\ Leave("program", "run")
                /\ flash_program_block(req.sector, req.offset, req.byte)
                /\ UNCHANGED <<askVars, locked_out>>

EnterAvailable == Enter("run", "available", NoReq)
LeaveAvailable == /\ Leave("available", "run")
                  /\ flash_available' = TRUE
                  /\ UNCHANGED <<cacheVars, asked0, locked_out, ptr>>

\* flash_read hands out the address of the byte itself, in a slot or on the chip.
EnterRead == \E s \in Sectors : Enter("run", "read", [sector |-> s])
LeaveRead ==
  /\ Leave("read", "run")
  /\ ptr' = [slot |-> Place(req.sector), sector |-> req.sector, written |-> FALSE]
  /\ UNCHANGED <<cacheVars, askVars, locked_out>>

\* EV_EXEC_FINISHED; pointers the command held are dropped with it.
Finish == /\ pc1 = "run"
          /\ pc1' = "idle"
          /\ cmd' = "finished"
          /\ ptr' = NoPtr
          /\ UNCHANGED <<flash, cacheVars, askVars, locked_out,
                         mtx_flash, core0Vars, req>>

\* do_flash holds core 1 in the lockout handler between erase and program.
Core1 == /\ pc0 # "erased"
         /\ \/ EnterInit \/ LeaveInit \/ TakeCommand
            \/ EnterProgram \/ LeaveProgram
            \/ EnterAvailable \/ LeaveAvailable
            \/ EnterRead \/ LeaveRead
            \/ Finish
-----------------------------------------------------------------------------
(* Core 0.  A turn of the main loop serves the two interfaces in order     *)
(* ("usb", then what is left of usb_task, "ccid"), runs tud_task and do_flash *)
(* ("flash") and looks at the button, which brings it back to "usb".       *)

\* A frame of the host comes a millisecond after the last one at the earliest,
\* and core 1 is through its first microseconds by then.
Settled == pc1 \notin {"boot", "init"}

\* usb_task found nothing to do, or nothing more.
Poll == /\ pc0 \in {"usb", "ccid"}
        /\ pc0' = "flash"
        /\ UNCHANGED <<flash, cacheVars, askVars, locked_out, mtx_flash,
                       r, core1Vars, cmd, ptr>>

\* A command arrived: card_start resets core 1, wherever it is, and restarts it.
CardStart == /\ pc0 \in {"usb", "ccid"}
             /\ Settled
             /\ HostWaits => cmd = "none"
             /\ pc0' = "flash"
             /\ pc1' = "boot" /\ req' = NoReq /\ ptr' = NoPtr
             /\ cmd' = "running"
             /\ UNCHANGED <<flash, cacheVars, askVars, locked_out, mtx_flash, r>>

\* Fault: usb_task goes on with the next frame before do_flash has its turn.
AnswerAndGoOn == /\ pc0 \in {"usb", "ccid"} /\ cmd = "finished"
                 /\ cmd' = "none"
                 /\ UNCHANGED <<flash, cacheVars, askVars, locked_out,
                                mtx_flash, core0Vars, core1Vars, ptr>>

\* usb_task takes EV_EXEC_FINISHED and answers the host.  A host that does not
\* wait may have a frame for the other interface in the buffer already.
Answer == /\ pc0 \in {"usb", "ccid"} /\ cmd = "finished"
          /\ cmd' = "none"
          /\ \/ pc0' = "flash"
             \/ ~HostWaits /\ pc0' = "ccid"
          /\ UNCHANGED <<flash, cacheVars, askVars, locked_out,
                         mtx_flash, r, core1Vars, ptr>>

\* Fault: an INIT restarts core 1, as the other messages do.
RescanAndRestart == /\ pc0 = "usb"
                    /\ Settled
                    /\ pc0' = "rescan"
                    /\ pc1' = "boot" /\ req' = NoReq /\ ptr' = NoPtr
                    /\ UNCHANGED <<flash, cacheVars, askVars, locked_out,
                                   mtx_flash, r, cmd>>

\* CTAPHID_INIT: init_fido_cb rescans the flash on core 0 and may write files.
Rescan == /\ pc0 = "usb"
          /\ Settled
          /\ pc0' = "rescan"
          /\ UNCHANGED <<flash, cacheVars, askVars, locked_out, mtx_flash,
                         r, core1Vars, cmd, ptr>>

\* tud_task hands the last feature report of a frame to the OTP application,
\* which runs its command, a slot written or deleted, in the callback.
Report == /\ pc0 = "flash"
          /\ pc0' = "report"
          /\ UNCHANGED <<flash, cacheVars, askVars, locked_out, mtx_flash,
                         r, core1Vars, cmd, ptr>>

\* After do_flash, and with no command in progress, a press of the button makes
\* the OTP application count in its slot.
Button == /\ pc0 = "usb"
          /\ cmd = "none"
          /\ pc0' = "button"
          /\ UNCHANGED <<flash, cacheVars, askVars, locked_out, mtx_flash,
                         r, core1Vars, cmd, ptr>>

WriteFile == /\ pc0 \in Writing /\ mtx_flash = "free"
             /\ \E s \in Sectors, o \in Offsets, b \in Bytes :
                   flash_program_block(s, o, b)
             /\ UNCHANGED <<flash, askVars, locked_out, mtx_flash,
                            core0Vars, core1Vars, cmd>>

\* Whatever of the three wrote ends in low_flash_available, and core 0 goes on
\* from where it was called.  Inside wait_button, which nests usb_task and
\* tud_task in the wait of a running command, there is no do_flash.
AskCommit == /\ pc0 \in Writing /\ mtx_flash = "free"
             /\ flash_available' = TRUE /\ asked0' = TRUE
             /\ \/ pc0 = "rescan" /\ pc0' = "ccid"
                \/ pc0 = "report" /\ pc0' = "flash"
                \/ (pc0 = "button" \/ cmd = "running") /\ pc0' = "usb"
             /\ UNCHANGED <<flash, cacheVars, locked_out, mtx_flash, r,
                            core1Vars, cmd, ptr>>

\* do_flash.  Its request flag is cleared even when core 1 was never started
\* and nothing is committed.
FlashEnter ==
  /\ pc0 = "flash" /\ mtx_flash = "free"
  /\ IF locked_out /\ flash_available /\ ready_pages > 0
     THEN /\ mtx_flash' = "core0" /\ pc0' = "scan"
          /\ UNCHANGED askVars
     ELSE /\ flash_available' = FALSE /\ asked0' = FALSE /\ pc0' = "usb"
          /\ UNCHANGED mtx_flash
  /\ UNCHANGED <<flash, cacheVars, locked_out, r, core1Vars, cmd, ptr>>

\* Fault: the request flag is cleared outside the mutex.
FlashBusyClears == /\ pc0 = "flash" /\ mtx_flash = "core1"
                   /\ pc0' = "usb"
                   /\ flash_available' = FALSE
                   /\ UNCHANGED <<flash, cacheVars, asked0, locked_out, mtx_flash, r,
                                  core1Vars, cmd, ptr>>

\* mutex_try_enter failed.
FlashBusy == /\ pc0 = "flash" /\ mtx_flash = "core1"
             /\ pc0' = "usb"
             /\ UNCHANGED <<flash, cacheVars, askVars, locked_out,
                            mtx_flash, r, core1Vars, cmd, ptr>>

\* multicore_lockout_start succeeds once core 1 has installed its handler.
Victim == pc1 \notin {"off", "boot", "init"}

EraseSlot == /\ pc0 = "scan" /\ r \in Slots /\ flash_pages[r].ready
             /\ Victim
             /\ flash' = [flash EXCEPT ![flash_pages[r].address] = Blank]
             /\ pc0' = "erased"
             /\ UNCHANGED <<cacheVars, askVars, locked_out, mtx_flash,
                            r, core1Vars, cmd, ptr>>

\* Fault: the slot is not released.
ProgramKeepsReady ==
  /\ pc0 = "erased"
  /\ flash' = [flash EXCEPT ![flash_pages[r].address] = flash_pages[r].page]
  /\ ready_pages' = ready_pages - 1
  /\ r' = r + 1
  /\ pc0' = "scan"
  /\ UNCHANGED <<flash_pages, askVars, locked_out, mtx_flash, core1Vars,
                 cmd, ptr>>
\* Fault: the released slot is wiped under the pointers into it.
ProgramWipesSlot ==
  /\ pc0 = "erased"
  /\ flash' = [flash EXCEPT ![flash_pages[r].address] = flash_pages[r].page]
  /\ flash_pages' = [flash_pages EXCEPT ![r] = EmptySlot]
  /\ ready_pages' = ready_pages - 1
  /\ r' = r + 1
  /\ pc0' = "scan"
  /\ UNCHANGED <<askVars, locked_out, mtx_flash, core1Vars, cmd, ptr>>

ProgramSlot ==
  /\ pc0 = "erased"
  /\ flash' = [flash EXCEPT ![flash_pages[r].address] = flash_pages[r].page]
  /\ flash_pages' = [flash_pages EXCEPT ![r].ready = FALSE]
  /\ ready_pages' = ready_pages - 1
  /\ r' = r + 1
  /\ pc0' = "scan"
  /\ UNCHANGED <<askVars, locked_out, mtx_flash, core1Vars, cmd, ptr>>

SkipSlot == /\ pc0 = "scan" /\ r \in Slots /\ ~flash_pages[r].ready
            /\ r' = r + 1
            /\ UNCHANGED <<flash, cacheVars, askVars, locked_out,
                           mtx_flash, pc0, core1Vars, cmd, ptr>>

FlashExit == /\ pc0 = "scan" /\ r \notin Slots
             /\ flash_available' = FALSE /\ asked0' = FALSE
             /\ mtx_flash' = "free"
             /\ pc0' = "usb" /\ r' = 1
             /\ UNCHANGED <<flash, cacheVars, locked_out, core1Vars, cmd, ptr>>

Core0 == \/ Poll \/ CardStart \/ Answer
         \/ Rescan \/ Report \/ Button \/ WriteFile \/ AskCommit
         \/ FlashEnter \/ FlashBusy
         \/ EraseSlot \/ ProgramSlot \/ SkipSlot \/ FlashExit
-----------------------------------------------------------------------------
\* RAM as the boot code leaves it.
PowerOn == /\ flash_pages = [k \in Slots |-> EmptySlot]
           /\ ready_pages = 0
           /\ flash_available = FALSE /\ asked0 = FALSE
           /\ locked_out = FALSE
           /\ mtx_flash = "free"
           /\ pc0 = "usb" /\ r = 1
           /\ pc1 = "off" /\ req = NoReq
           /\ cmd = "none"
           /\ ptr = NoPtr

PowerCut == /\ flash_pages' = [k \in Slots |-> EmptySlot]
            /\ ready_pages' = 0
            /\ flash_available' = FALSE /\ asked0' = FALSE
            /\ locked_out' = FALSE
            /\ mtx_flash' = "free"
            /\ pc0' = "usb" /\ r' = 1
            /\ pc1' = "off" /\ req' = NoReq
            /\ cmd' = "none"
            /\ ptr' = NoPtr
            /\ UNCHANGED flash

Init == flash \in [Sectors -> Content] /\ PowerOn

Next == Core0 \/ Core1 \/ PowerCut

Spec == Init /\ [][Next]_vars

(***************************************************************************)
(* Fairness: the main loop never stops, a callback on core 0 writes a      *)
(* handful of files and wait_button gives up after 15 s, a call of core 1  *)
(* holds the mutex for microseconds, and every command comes to its end.   *)
(* New commands, rescans, reports, presses, writes and power cuts are never*)
(* forced.                                                                 *)
(***************************************************************************)
Fairness == /\ SF_vars(Poll) /\ SF_vars(AskCommit) /\ SF_vars(FlashEnter)
            /\ WF_vars(EraseSlot) /\ WF_vars(ProgramSlot)
            /\ WF_vars(SkipSlot) /\ WF_vars(FlashExit)
            /\ WF_vars(LeaveInit) /\ WF_vars(LeaveProgram)
            /\ WF_vars(LeaveAvailable) /\ WF_vars(LeaveRead)
            /\ SF_vars(Finish)

FairSpec == Spec /\ Fairness
-----------------------------------------------------------------------------
(* Properties.                                                             *)

\* The slots to commit are an initial segment of the cache, as long as
\* ready_pages says, of which do_flash has cleared the part before r.  This is
\* why find_free_page may stop at the first slot that is free or matches.
ReadyPrefix == \A k \in Slots :
                  flash_pages[k].ready <=> r <= k /\ k < r + ready_pages

\* No sector waits in two slots, so do_flash can never commit an old copy
\* over a newer one, whatever the order of the slots.
DistinctSectors == \A j, k \in Slots :
    /\ flash_pages[j].ready /\ flash_pages[k].ready
    /\ flash_pages[j].address = flash_pages[k].address
    => j = k

\* do_flash leaves nothing behind: the error it prints otherwise ("DO FLASH
\* DOES NOT HAVE ZERO PAGES", low_flash.c:128) is never printed.
FlushedAll == pc0 = "scan" /\ r \notin Slots => ready_pages = 0

\* When the count says there is room there is a slot: flash_program_block never
\* prints its "rare error" (low_flash.c:229) and never drops a write unasked.
PageFound == ready_pages # TOTAL_FLASH_PAGES =>
                \A s \in Sectors : find_free_page(s) # {}

\* A pointer from flash_read keeps showing what the sector holds until some
\* page is programmed, even when core 0 commits the cache in between.
PointerFresh == ptr # NoPtr /\ ~ptr.written => Deref(ptr) = View(ptr.sector)

\* A host that waits for its answers never makes card_start reset a core 1
\* that is inside the mutex: it is never left locked by a dead thread.
MutexOwnerAlive == mtx_flash = "core1" => pc1 \in Critical

\* Nor does do_flash hold the mutex while it waits for a core 1 that needs the
\* mutex before it can answer the lockout, with one exception the code has: the
\* commit is one core 0 asked for itself, by a rescan, a report or a press of the
\* button, in the turn of the main loop in which card_start came.
NoLockoutDeadlock == pc0 = "scan" /\ r \in Slots /\ ~asked0 => Victim

\* That exception.  Nothing but a power cut ends it.
LockoutDeadlock == pc0 = "scan" /\ r \in Slots /\ asked0 /\ ~Victim

\* Readers see every write at once, the chip changes by whole sectors, and a
\* power cut leaves readers with the chip: the cache implements PageStore.
Store == INSTANCE PageStore WITH mem <- [s \in Sectors |-> View(s)], durable <- flash
ImplementsStore == Store!Spec

\* A commit asked for once core 1 has been up is carried out, unless the main
\* loop falls into that deadlock.
CommitHappens == (locked_out /\ flash_available /\ ready_pages > 0)
                    ~> (ready_pages = 0 \/ LockoutDeadlock)
=============================================================================
