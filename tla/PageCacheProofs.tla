-------------------------- MODULE PageCacheProofs --------------------------
(***************************************************************************)
(* Proofs, for any number of sectors, slots and bytes, that the page cache *)
(* keeps its slots in order, never holds a sector twice, never loses a     *)
(* write for want of a slot and always empties itself in do_flash; and,    *)
(* for a host that waits for its answers, that no mutex is orphaned and    *)
(* that a lockout can only wait for ever on a commit of core 0's own.      *)
(***************************************************************************)
EXTENDS PageCache, TLAPS

USE DEF askVars

\* What a slot to commit needs beyond its type: the address of a real sector.
ReadyAddress == \A k \in Slots : flash_pages[k].ready => flash_pages[k].address \in Sectors

\* Core 0 owns the mutex exactly inside do_flash, and r moves only there.
Core0Owner == /\ mtx_flash = "core0" <=> pc0 \in {"scan", "erased"}
              /\ pc0 \notin {"scan", "erased"} => r = 1
              /\ pc0 = "erased" => r \in Slots /\ flash_pages[r].ready

\* Core 1 owns it inside its calls, whose arguments are of the call's kind.
Core1Owner == /\ pc1 \in Critical => mtx_flash = "core1"
              /\ pc1 = "program" => req \in Write
              /\ pc1 = "read" => req \in [sector : Sectors]

RoomLeft == r + ready_pages <= TOTAL_FLASH_PAGES + 1

\* The strengthening of the cache's invariants, whatever the host does.
CacheInv == TypeOK /\ ReadyPrefix /\ RoomLeft /\ ReadyAddress /\ DistinctSectors
            /\ Core0Owner /\ Core1Owner

\* No commit that core 1 asked for is outstanding.
Core1Served == flash_available => asked0

\* What a host that waits for its answers adds: no command is started while
\* another one runs or a commit is due that the last one asked for.
WaitInv == /\ MutexOwnerAlive
           /\ cmd = "none" => pc1 \in {"off", "idle"}
           /\ cmd = "finished" => pc1 = "idle"
           /\ pc1 = "off" => ~locked_out /\ cmd = "none"
           /\ pc0 \in {"usb", "ccid"} /\ cmd = "none" => Core1Served
           /\ pc1 \in {"boot", "init"} => Core1Served
           /\ pc0 = "erased" => pc1 \notin {"off", "boot", "init"}
           /\ pc0 = "scan" => pc1 # "off" /\ (pc1 \in {"boot", "init"} => asked0)
-----------------------------------------------------------------------------
(* The search for a slot.                                                  *)

\* find_free_page never fails while the count leaves room: either the sector
\* has its slot, or the first slot after the ones to commit is free; and during
\* a commit the slots before r are free.
LEMMA RoomMeansPage ==
  ASSUME TypeOK, ReadyPrefix, RoomLeft, DistinctSectors,
         ready_pages # TOTAL_FLASH_PAGES, NEW s \in Sectors
  PROVE  find_free_page(s) # {}
<1> USE CacheAssumption DEF Slots
<1>1. CASE r > 1
  <2>1. 1 \in find_free_page(s)
    BY <1>1 DEF find_free_page, Usable, TypeOK, ReadyPrefix
  <2> QED BY <2>1
<1>2. CASE r = 1
  <2>1. CASE \E k \in Slots : flash_pages[k].ready /\ flash_pages[k].address = s
    <3>1. PICK k \in Slots : flash_pages[k].ready /\ flash_pages[k].address = s
      BY <2>1
    <3>2. k <= ready_pages
      BY <1>2, <3>1 DEF ReadyPrefix, TypeOK
    <3>3. ASSUME NEW j \in 1..k-1
          PROVE  ~Usable(s, j)
      <4>1. j \in Slots /\ flash_pages[j].ready
        BY <1>2, <3>1, <3>2 DEF ReadyPrefix, TypeOK
      <4> QED BY <3>1, <4>1 DEF DistinctSectors, Usable
    <3>4. k \in find_free_page(s)
      BY <3>1, <3>3 DEF find_free_page, Usable
    <3> QED BY <3>4
  <2>2. CASE \A k \in Slots : flash_pages[k].ready => flash_pages[k].address # s
    <3>1. ready_pages + 1 \in Slots /\ ~flash_pages[ready_pages + 1].ready
      BY <1>2 DEF ReadyPrefix, TypeOK
    <3>2. ASSUME NEW j \in 1..ready_pages
          PROVE  ~Usable(s, j)
      <4>1. j \in Slots /\ flash_pages[j].ready
        BY <1>2 DEF ReadyPrefix, TypeOK
      <4> QED BY <2>2, <4>1 DEF Usable
    <3>3. ready_pages + 1 \in find_free_page(s)
      BY <3>1, <3>2 DEF find_free_page, Usable, TypeOK
    <3> QED BY <3>3
  <2> QED BY <2>1, <2>2
<1> QED BY <1>1, <1>2 DEF TypeOK
-----------------------------------------------------------------------------
(* A write through the cache, by either core.                              *)

\* The slot find_free_page returns outside do_flash is the one that holds the
\* sector or the first after the slots to commit.
LEMMA PageFoundAt ==
  ASSUME TypeOK, ReadyPrefix, r = 1, NEW s \in Sectors, NEW k \in find_free_page(s)
  PROVE  /\ k \in Slots
         /\ \/ flash_pages[k].ready /\ flash_pages[k].address = s
            \/ /\ ~flash_pages[k].ready
               /\ k = ready_pages + 1
               /\ \A j \in Slots : flash_pages[j].ready => flash_pages[j].address # s
<1> USE CacheAssumption DEF Slots
<1>1. k \in Slots /\ Usable(s, k) /\ \A j \in 1..k-1 : ~Usable(s, j)
  BY DEF find_free_page
<1>2. CASE flash_pages[k].ready
  BY <1>1, <1>2 DEF Usable
<1>3. CASE ~flash_pages[k].ready
  <2>1. \A j \in 1..k-1 : j \in Slots
    BY <1>1
  <2>2. \A j \in 1..k-1 : flash_pages[j].ready /\ flash_pages[j].address # s
    BY <1>1, <2>1 DEF Usable
  <2>3. k > ready_pages
    BY <1>1, <1>3 DEF ReadyPrefix, TypeOK
  <2>4. k <= ready_pages + 1
    <3> SUFFICES ASSUME k > ready_pages + 1 PROVE FALSE
      BY <1>1 DEF TypeOK
    <3>1. ready_pages + 1 \in 1..k-1
      BY <1>1 DEF TypeOK
    <3>2. flash_pages[ready_pages + 1].ready
      BY <2>2, <3>1
    <3> QED BY <2>1, <3>1, <3>2 DEF ReadyPrefix, TypeOK
  <2>5. k = ready_pages + 1
    BY <1>1, <2>3, <2>4 DEF TypeOK
  <2>6. \A j \in Slots : flash_pages[j].ready => j \in 1..k-1
    BY <2>5 DEF ReadyPrefix, TypeOK
  <2> QED BY <1>1, <1>3, <2>2, <2>5, <2>6
<1> QED BY <1>2, <1>3, <1>1

\* What every write keeps: the type and the order of the slots, one slot for
\* each sector, and real addresses.
LEMMA ProgramBlockKeeps ==
  ASSUME TypeOK, ReadyPrefix, RoomLeft, ReadyAddress, DistinctSectors, r = 1, r' = r,
         NEW s \in Sectors, NEW o \in Offsets, NEW b \in Bytes,
         flash_program_block(s, o, b)
  PROVE  /\ flash_pages' \in [Slots -> Slot]
         /\ ready_pages' \in 0..TOTAL_FLASH_PAGES
         /\ ptr' \in Pointer \cup {NoPtr}
         /\ ReadyPrefix' /\ RoomLeft' /\ ReadyAddress' /\ DistinctSectors'
<1> USE CacheAssumption
<1>1. CASE ready_pages = TOTAL_FLASH_PAGES
  <2>1. UNCHANGED <<flash_pages, ready_pages, ptr>>
    BY <1>1 DEF flash_program_block, cacheVars
  <2> QED BY <2>1 DEF TypeOK, ReadyPrefix, RoomLeft, ReadyAddress, DistinctSectors, Slots
<1>2. CASE ready_pages # TOTAL_FLASH_PAGES
  <2>1. PICK k \in find_free_page(s) :
          /\ flash_pages' = [flash_pages EXCEPT ![k] =
               [page |-> [IF flash_pages[k].ready THEN flash_pages[k].page ELSE flash[s]
                            EXCEPT ![o] = b],
                address |-> s, ready |-> TRUE]]
          /\ ready_pages' = IF flash_pages[k].ready THEN ready_pages ELSE ready_pages + 1
          /\ ptr' = IF ptr = NoPtr THEN ptr ELSE [ptr EXCEPT !.written = TRUE]
    BY <1>2 DEF flash_program_block
  <2>2. /\ k \in Slots
        /\ \/ flash_pages[k].ready /\ flash_pages[k].address = s
           \/ /\ ~flash_pages[k].ready
              /\ k = ready_pages + 1
              /\ \A j \in Slots : flash_pages[j].ready => flash_pages[j].address # s
    BY <2>1, PageFoundAt
  <2>3. [IF flash_pages[k].ready THEN flash_pages[k].page ELSE flash[s] EXCEPT ![o] = b]
           \in Content
    BY <2>2 DEF TypeOK, Slot, Content
  <2>4. flash_pages' \in [Slots -> Slot]
    BY <2>1, <2>2, <2>3 DEF TypeOK, Slot
  <2>5. ready_pages' \in 0..TOTAL_FLASH_PAGES
    BY <1>2, <2>1 DEF TypeOK
  <2>6. ptr' \in Pointer \cup {NoPtr}
    BY <2>1 DEF TypeOK, Pointer
  <2>7. \A j \in Slots : j # k => flash_pages'[j] = flash_pages[j]
    BY <2>1 DEF TypeOK
  <2>8. flash_pages'[k].ready /\ flash_pages'[k].address = s
    BY <2>1, <2>2 DEF TypeOK
  <2>9. ReadyPrefix' /\ RoomLeft'
    BY <1>2, <2>1, <2>2, <2>7, <2>8 DEF TypeOK, ReadyPrefix, RoomLeft, Slots
  <2>10. ReadyAddress' /\ DistinctSectors'
    BY <2>2, <2>7, <2>8 DEF ReadyAddress, DistinctSectors, Slots
  <2> QED BY <2>4, <2>5, <2>6, <2>9, <2>10
<1> QED BY <1>1, <1>2
-----------------------------------------------------------------------------
(* The cache's invariant.                                                  *)

LEMMA CacheInvInit == Init => CacheInv
<1> SUFFICES ASSUME Init PROVE CacheInv
  OBVIOUS
<1> USE CacheAssumption DEF Init, PowerOn
<1>1. [k \in Slots |-> EmptySlot] \in [Slots -> Slot]
  BY DEF EmptySlot, Slot, Blank, Content
<1>2. TypeOK
  <2>1. 0 \in 0..TOTAL_FLASH_PAGES /\ 1 \in 1..TOTAL_FLASH_PAGES + 1
    OBVIOUS
  <2> QED BY <1>1, <2>1 DEF TypeOK
<1>3. ReadyPrefix /\ RoomLeft /\ ReadyAddress /\ DistinctSectors
  BY DEF ReadyPrefix, RoomLeft, ReadyAddress, DistinctSectors, EmptySlot, Slots
<1>4. Core0Owner /\ Core1Owner
  BY DEF Core0Owner, Core1Owner, Critical
<1> QED BY <1>2, <1>3, <1>4 DEF CacheInv

\* Steps that leave the slots, their count and do_flash's place alone.
LEMMA SlotsUntouched ==
  ASSUME ReadyPrefix, RoomLeft, ReadyAddress, DistinctSectors,
         UNCHANGED <<flash_pages, ready_pages, r>>
  PROVE  ReadyPrefix' /\ RoomLeft' /\ ReadyAddress' /\ DistinctSectors'
BY DEF ReadyPrefix, RoomLeft, ReadyAddress, DistinctSectors, Slots

LEMMA Core1Keeps == CacheInv /\ Core1 => CacheInv'
<1> SUFFICES ASSUME CacheInv, Core1 PROVE CacheInv'
  OBVIOUS
<1> USE CacheAssumption
<1> USE DEF CacheInv
<1>1. ASSUME EnterInit \/ EnterAvailable \/ EnterProgram \/ EnterRead
      PROVE  CacheInv'
  <2>1. UNCHANGED <<flash, flash_pages, ready_pages, flash_available, asked0, locked_out,
                    pc0, r, cmd, ptr>>
        /\ mtx_flash = "free" /\ mtx_flash' = "core1"
    BY <1>1 DEF EnterInit, EnterAvailable, EnterProgram, EnterRead, Enter,
                cacheVars, core0Vars
  <2>2. /\ pc1' \in Critical
        /\ req' \in Write \cup {NoReq} \cup [sector : Sectors]
        /\ pc1' = "program" => req' \in Write
        /\ pc1' = "read" => req' \in [sector : Sectors]
    BY <1>1 DEF EnterInit, EnterAvailable, EnterProgram, EnterRead, Enter, Critical
  <2>3. TypeOK'
    BY <2>1, <2>2 DEF TypeOK, Slots
  <2>4. Core0Owner' /\ Core1Owner'
    BY <2>1, <2>2 DEF Core0Owner, Core1Owner, Slots
  <2> QED BY <2>1, <2>3, <2>4, SlotsUntouched
<1>2. ASSUME LeaveInit \/ LeaveAvailable \/ LeaveRead
      PROVE  CacheInv'
  <2>1. UNCHANGED <<flash, flash_pages, ready_pages, pc0, r, cmd>>
        /\ pc1 \in Critical /\ pc1' \in {"idle", "run"}
        /\ req' = NoReq /\ mtx_flash' = "free"
        /\ flash_available' \in BOOLEAN /\ UNCHANGED asked0
        /\ locked_out' \in BOOLEAN
    BY <1>2 DEF LeaveInit, LeaveAvailable, LeaveRead, Leave, cacheVars, core0Vars,
                Critical, TypeOK
  <2>2. mtx_flash = "core1"
    BY <2>1 DEF Core1Owner
  <2>3. ptr' \in Pointer \cup {NoPtr}
    <3>1. CASE LeaveRead
      <4>1. req.sector \in Sectors
        BY <3>1 DEF LeaveRead, Leave, Core1Owner
      <4>2. Place(req.sector) \in 0..TOTAL_FLASH_PAGES
        <5> DEFINE P(k) == /\ CachedAt(req.sector, k)
                           /\ \A j \in 1..k-1 : ~CachedAt(req.sector, j)
        <5>1. CASE \E k \in Slots : P(k)
          BY <5>1 DEF Place, Slots
        <5>2. CASE ~\E k \in Slots : P(k)
          <6>1. \A k \in Slots : ~CachedAt(req.sector, k)
            <7> SUFFICES ASSUME NEW k \in Slots, CachedAt(req.sector, k) PROVE FALSE
              OBVIOUS
            <7>1. \A j \in 1..k-1 : ~CachedAt(req.sector, j)
              BY DEF CachedAt, DistinctSectors, Slots
            <7> QED BY <5>2, <7>1
          <6> QED BY <6>1 DEF Place
        <5> QED BY <5>1, <5>2
      <4> QED BY <3>1, <4>1, <4>2 DEF LeaveRead, Pointer
    <3>2. CASE ~LeaveRead
      BY <1>2, <3>2 DEF LeaveInit, LeaveAvailable, TypeOK
    <3> QED BY <3>1, <3>2
  <2>4. TypeOK'
    BY <2>1, <2>3 DEF TypeOK, Slots
  <2>5. Core0Owner' /\ Core1Owner'
    BY <2>1, <2>2 DEF Core0Owner, Core1Owner, Critical, Slots
  <2> QED BY <2>1, <2>4, <2>5, SlotsUntouched
<1>3. CASE LeaveProgram
  <2>1. /\ UNCHANGED <<flash, flash_available, asked0, locked_out, pc0, r, cmd>>
        /\ pc1 = "program" /\ pc1' = "run" /\ req' = NoReq /\ mtx_flash' = "free"
        /\ flash_program_block(req.sector, req.offset, req.byte)
    BY <1>3 DEF LeaveProgram, Leave, core0Vars
  <2>2. mtx_flash = "core1" /\ r = 1 /\ pc0 \notin {"scan", "erased"}
    BY <2>1 DEF Core0Owner, Core1Owner, Critical
  <2>3. req.sector \in Sectors /\ req.offset \in Offsets /\ req.byte \in Bytes
    BY <2>1 DEF Core1Owner, Write
  <2>4. /\ flash_pages' \in [Slots -> Slot]
        /\ ready_pages' \in 0..TOTAL_FLASH_PAGES
        /\ ptr' \in Pointer \cup {NoPtr}
        /\ ReadyPrefix' /\ RoomLeft' /\ ReadyAddress' /\ DistinctSectors'
    BY <2>1, <2>2, <2>3, ProgramBlockKeeps
  <2>5. TypeOK' /\ Core0Owner' /\ Core1Owner'
    BY <2>1, <2>2, <2>4 DEF TypeOK, Core0Owner, Core1Owner, Critical, Slots
  <2> QED BY <2>4, <2>5
<1>4. ASSUME TakeCommand \/ Finish
      PROVE  CacheInv'
  <2>1. UNCHANGED <<flash, flash_pages, ready_pages, flash_available, asked0, locked_out,
                    mtx_flash, pc0, r, req>>
        /\ pc1' \in {"run", "idle"} /\ cmd' \in {"none", "running", "finished"}
        /\ ptr' \in Pointer \cup {NoPtr}
    BY <1>4 DEF TakeCommand, Finish, cacheVars, core0Vars, TypeOK
  <2>2. TypeOK' /\ Core0Owner' /\ Core1Owner'
    BY <2>1 DEF TypeOK, Core0Owner, Core1Owner, Critical, Slots
  <2> QED BY <2>1, <2>2, SlotsUntouched
<1> QED BY <1>1, <1>2, <1>3, <1>4 DEF Core1

LEMMA Core0Keeps == CacheInv /\ Core0 => CacheInv'
<1> SUFFICES ASSUME CacheInv, Core0 PROVE CacheInv'
  OBVIOUS
<1> USE CacheAssumption
<1> USE DEF CacheInv
<1>1. ASSUME \/ Poll \/ CardStart \/ Answer \/ Rescan \/ Report \/ Button
             \/ AskCommit \/ FlashBusy
      PROVE  CacheInv'
  <2>1. /\ UNCHANGED <<flash, flash_pages, ready_pages, locked_out, mtx_flash, r>>
        /\ pc0 \in {"usb", "ccid", "flash"} \cup Writing
        /\ pc0' \in {"usb", "ccid", "flash"} \cup Writing
        /\ flash_available' \in BOOLEAN /\ asked0' \in BOOLEAN
        /\ cmd' \in {"none", "running", "finished"}
    BY <1>1 DEF Poll, CardStart, Answer, Rescan, Report, Button, AskCommit, FlashBusy,
                cacheVars, Writing, TypeOK
  <2>2. \/ UNCHANGED <<pc1, req, ptr>>
        \/ pc1' = "boot" /\ req' = NoReq /\ ptr' = NoPtr
    BY <1>1 DEF Poll, CardStart, Answer, Rescan, Report, Button, AskCommit, FlashBusy,
                core1Vars
  <2>3. TypeOK'
    BY <2>1, <2>2 DEF TypeOK, Slots
  <2>4. Core0Owner' /\ Core1Owner'
    BY <2>1, <2>2 DEF Core0Owner, Core1Owner, Critical, Slots, Writing
  <2> QED BY <2>1, <2>3, <2>4, SlotsUntouched
<1>2. CASE WriteFile
  <2>1. PICK s \in Sectors, o \in Offsets, b \in Bytes : flash_program_block(s, o, b)
    BY <1>2 DEF WriteFile
  <2>2. /\ UNCHANGED <<flash, flash_available, asked0, locked_out, mtx_flash, pc0, r,
                       pc1, req, cmd>>
        /\ pc0 \in Writing
    BY <1>2 DEF WriteFile, core0Vars, core1Vars
  <2>3. r = 1
    BY <2>2 DEF Core0Owner, Writing
  <2>4. /\ flash_pages' \in [Slots -> Slot]
        /\ ready_pages' \in 0..TOTAL_FLASH_PAGES
        /\ ptr' \in Pointer \cup {NoPtr}
        /\ ReadyPrefix' /\ RoomLeft' /\ ReadyAddress' /\ DistinctSectors'
    BY <2>1, <2>2, <2>3, ProgramBlockKeeps
  <2>5. TypeOK' /\ Core0Owner' /\ Core1Owner'
    BY <2>2, <2>4 DEF TypeOK, Core0Owner, Core1Owner, Critical, Slots, Writing
  <2> QED BY <2>4, <2>5
<1>3. CASE FlashEnter
  <2>1. /\ UNCHANGED <<flash, flash_pages, ready_pages, locked_out, r, pc1, req, cmd, ptr>>
        /\ pc0 = "flash" /\ mtx_flash = "free"
        /\ flash_available' \in BOOLEAN /\ asked0' \in BOOLEAN
        /\ \/ mtx_flash' = "core0" /\ pc0' = "scan"
           \/ mtx_flash' = "free" /\ pc0' = "usb"
    BY <1>3 DEF FlashEnter, cacheVars, core1Vars, TypeOK
  <2>2. TypeOK'
    BY <2>1 DEF TypeOK, Slots
  <2>3. Core0Owner' /\ Core1Owner'
    BY <2>1 DEF Core0Owner, Core1Owner, Critical, Slots
  <2> QED BY <2>1, <2>2, <2>3, SlotsUntouched
<1>4. CASE EraseSlot
  <2>1. /\ UNCHANGED <<flash_pages, ready_pages, flash_available, asked0, locked_out, mtx_flash,
                       r, pc1, req, cmd, ptr>>
        /\ pc0 = "scan" /\ pc0' = "erased" /\ r \in Slots /\ flash_pages[r].ready
        /\ flash' = [flash EXCEPT ![flash_pages[r].address] = Blank]
    BY <1>4 DEF EraseSlot, cacheVars, core1Vars
  <2>2. flash' \in [Sectors -> Content]
    BY <2>1 DEF TypeOK, Blank, Content
  <2>3. TypeOK'
    BY <2>1, <2>2 DEF TypeOK, Slots
  <2>4. Core0Owner' /\ Core1Owner'
    BY <2>1 DEF Core0Owner, Core1Owner, Slots
  <2> QED BY <2>1, <2>3, <2>4, SlotsUntouched
<1>5. CASE ProgramSlot
  <2>1. /\ UNCHANGED <<flash_available, asked0, locked_out, mtx_flash, pc1, req, cmd, ptr>>
        /\ pc0 = "erased" /\ pc0' = "scan" /\ r' = r + 1
        /\ ready_pages' = ready_pages - 1
        /\ flash' = [flash EXCEPT ![flash_pages[r].address] = flash_pages[r].page]
        /\ flash_pages' = [flash_pages EXCEPT ![r].ready = FALSE]
    BY <1>5 DEF ProgramSlot, core1Vars
  <2>2. r \in Slots /\ flash_pages[r].ready /\ flash_pages[r].address \in Sectors
    BY <2>1 DEF Core0Owner, ReadyAddress
  <2>3. ready_pages > 0
    BY <2>2 DEF ReadyPrefix, TypeOK, Slots
  <2>4. /\ \A k \in Slots : k # r => flash_pages'[k] = flash_pages[k]
        /\ ~flash_pages'[r].ready
        /\ flash_pages' \in [Slots -> Slot]
    BY <2>1, <2>2 DEF TypeOK, Slot
  <2>5. flash' \in [Sectors -> Content]
    BY <2>1, <2>2 DEF TypeOK, Slot
  <2>6. TypeOK'
    BY <2>1, <2>2, <2>3, <2>4, <2>5 DEF TypeOK, Slots
  <2>7. ReadyPrefix' /\ RoomLeft'
    BY <2>1, <2>2, <2>3, <2>4 DEF ReadyPrefix, RoomLeft, TypeOK, Slots
  <2>8. ReadyAddress' /\ DistinctSectors'
    BY <2>2, <2>4 DEF ReadyAddress, DistinctSectors, Slots
  <2>9. Core0Owner' /\ Core1Owner'
    BY <2>1 DEF Core0Owner, Core1Owner, Slots
  <2> QED BY <2>6, <2>7, <2>8, <2>9
<1>6. CASE SkipSlot
  <2>1. /\ UNCHANGED <<flash, flash_pages, ready_pages, flash_available, asked0, locked_out,
                       mtx_flash, pc0, pc1, req, cmd, ptr>>
        /\ pc0 = "scan" /\ r \in Slots /\ ~flash_pages[r].ready /\ r' = r + 1
    BY <1>6 DEF SkipSlot, cacheVars, core1Vars
  <2>2. ready_pages = 0
    BY <2>1 DEF ReadyPrefix, TypeOK, Slots
  <2>3. \A k \in Slots : ~flash_pages[k].ready
    BY <2>2 DEF ReadyPrefix, TypeOK, Slots
  <2>4. TypeOK'
    BY <2>1 DEF TypeOK, Slots
  <2>5. ReadyPrefix' /\ RoomLeft'
    BY <2>1, <2>2, <2>3 DEF TypeOK, ReadyPrefix, RoomLeft, Slots
  <2>6. ReadyAddress' /\ DistinctSectors' /\ Core0Owner' /\ Core1Owner'
    BY <2>1 DEF ReadyAddress, DistinctSectors, Core0Owner, Core1Owner, Slots
  <2> QED BY <2>4, <2>5, <2>6
<1>7. CASE FlashExit
  <2>1. /\ UNCHANGED <<flash, flash_pages, ready_pages, locked_out, pc1, req, cmd, ptr>>
        /\ pc0 = "scan" /\ pc0' = "usb" /\ r \notin Slots /\ r' = 1
        /\ flash_available' = FALSE /\ asked0' = FALSE /\ mtx_flash' = "free"
    BY <1>7 DEF FlashExit, cacheVars, core1Vars
  <2>2. ready_pages = 0 /\ \A k \in Slots : ~flash_pages[k].ready
    BY <2>1 DEF RoomLeft, ReadyPrefix, TypeOK, Slots
  <2>3. TypeOK'
    <3>1. 1 \in 1..TOTAL_FLASH_PAGES + 1
      OBVIOUS
    <3> QED BY <2>1, <3>1 DEF TypeOK, Slots
  <2>4. ReadyPrefix' /\ RoomLeft'
    BY <2>1, <2>2 DEF TypeOK, ReadyPrefix, RoomLeft, Slots
  <2>5. ReadyAddress' /\ DistinctSectors' /\ Core0Owner'
    BY <2>1, <2>2 DEF ReadyAddress, DistinctSectors, Core0Owner, Slots
  <2>6. Core1Owner'
    BY <2>1 DEF Core0Owner, Core1Owner
  <2> QED BY <2>3, <2>4, <2>5, <2>6
<1> QED BY <1>1, <1>2, <1>3, <1>4, <1>5, <1>6, <1>7 DEF Core0

LEMMA PowerCutKeeps == CacheInv /\ PowerCut => CacheInv'
<1> SUFFICES ASSUME CacheInv, PowerCut PROVE CacheInv'
  OBVIOUS
<1> USE CacheAssumption DEF PowerCut
<1>1. [k \in Slots |-> EmptySlot] \in [Slots -> Slot]
  BY DEF EmptySlot, Slot, Blank, Content
<1>2. 0 \in 0..TOTAL_FLASH_PAGES /\ 1 \in 1..TOTAL_FLASH_PAGES + 1
  OBVIOUS
<1>3. TypeOK'
  BY <1>1, <1>2 DEF TypeOK, CacheInv, Slots
<1>4. ReadyPrefix' /\ RoomLeft' /\ ReadyAddress' /\ DistinctSectors'
  BY DEF ReadyPrefix, RoomLeft, ReadyAddress, DistinctSectors, EmptySlot, Slots
<1>5. Core0Owner' /\ Core1Owner'
  BY DEF Core0Owner, Core1Owner, Critical
<1> QED BY <1>3, <1>4, <1>5 DEF CacheInv

\* The strengthened invariant holds for every host, well behaved or not.
THEOREM CacheInvariant == Spec => []CacheInv
<1>1. Init => CacheInv
  BY CacheInvInit
<1>2. CacheInv /\ [Next]_vars => CacheInv'
  <2> SUFFICES ASSUME CacheInv, [Next]_vars PROVE CacheInv'
    OBVIOUS
  <2>1. CASE Next
    BY <2>1, Core0Keeps, Core1Keeps, PowerCutKeeps DEF Next
  <2>2. CASE UNCHANGED vars
    <3>1. UNCHANGED <<flash, flash_pages, ready_pages, flash_available, asked0, locked_out,
                      mtx_flash, pc0, r, pc1, req, cmd, ptr>>
      BY <2>2 DEF vars
    <3>2. TypeOK' /\ Core0Owner' /\ Core1Owner'
      BY <3>1 DEF CacheInv, TypeOK, Core0Owner, Core1Owner, Slots
    <3> QED BY <3>1, <3>2, SlotsUntouched DEF CacheInv
  <2> QED BY <2>1, <2>2
<1> QED BY <1>1, <1>2, PTL DEF Spec

\* Every variable keeps its type, for any number of slots, sectors and bytes.
THEOREM TypeCorrect == Spec => []TypeOK
<1>1. CacheInv => TypeOK
  BY DEF CacheInv
<1> QED BY <1>1, CacheInvariant, PTL

\* do_flash cannot commit an old copy of a sector over a newer one: no sector
\* waits in two slots, although find_free_page stops at the first usable slot.
THEOREM OneSlotPerSector == Spec => []DistinctSectors
<1>1. CacheInv => DistinctSectors
  BY DEF CacheInv
<1> QED BY <1>1, CacheInvariant, PTL

\* The slots to commit always form one block as long as ready_pages says.
THEOREM SlotsInOrder == Spec => []ReadyPrefix
<1>1. CacheInv => ReadyPrefix
  BY DEF CacheInv
<1> QED BY <1>1, CacheInvariant, PTL

\* do_flash never leaves a page behind ("DO FLASH DOES NOT HAVE ZERO PAGES").
THEOREM DoFlashEmptiesCache == Spec => []FlushedAll
<1>1. CacheInv => FlushedAll
  BY CacheAssumption DEF CacheInv, FlushedAll, RoomLeft, TypeOK, Slots
<1> QED BY <1>1, CacheInvariant, PTL

\* flash_program_block never meets its "rare error": when it does not refuse
\* for want of room it finds a page.
THEOREM RareErrorNever == Spec => []PageFound
<1>1. CacheInv => PageFound
  BY RoomMeansPage DEF CacheInv, PageFound
<1> QED BY <1>1, CacheInvariant, PTL
-----------------------------------------------------------------------------
(* The host that waits.                                                    *)

LEMMA WaitInvInit == Init => WaitInv
BY DEF Init, PowerOn, WaitInv, MutexOwnerAlive, Core1Served, Critical

LEMMA Core1Waits == HostWaits /\ CacheInv /\ WaitInv /\ Core1 => WaitInv'
<1> SUFFICES ASSUME HostWaits, CacheInv, WaitInv, Core1 PROVE WaitInv'
  OBVIOUS
<1> USE DEF WaitInv, MutexOwnerAlive, Core1Served, Critical
<1>1. pc1 \notin {"off", "idle"} => cmd = "running"
  BY DEF CacheInv, TypeOK
<1>2. ASSUME EnterInit \/ EnterAvailable \/ EnterProgram \/ EnterRead
      PROVE  WaitInv'
  BY <1>2 DEF EnterInit, EnterAvailable, EnterProgram, EnterRead, Enter,
              cacheVars, core0Vars
<1>3. ASSUME LeaveInit \/ LeaveAvailable \/ LeaveProgram \/ LeaveRead
      PROVE  WaitInv'
  <2>1. /\ mtx_flash' = "free" /\ pc1' \in {"idle", "run"}
        /\ pc1 \notin {"off", "idle"} /\ UNCHANGED <<pc0, cmd>>
    BY <1>3 DEF LeaveInit, LeaveAvailable, LeaveProgram, LeaveRead, Leave, core0Vars
  <2> QED BY <1>1, <2>1
<1>4. ASSUME TakeCommand \/ Finish
      PROVE  WaitInv'
  BY <1>4 DEF TakeCommand, Finish, cacheVars, core0Vars
<1> QED BY <1>2, <1>3, <1>4 DEF Core1

LEMMA Core0Waits == HostWaits /\ CacheInv /\ WaitInv /\ Core0 => WaitInv'
<1> SUFFICES ASSUME HostWaits, CacheInv, WaitInv, Core0 PROVE WaitInv'
  OBVIOUS
<1> USE DEF WaitInv, MutexOwnerAlive, Core1Served, Critical
<1>1. CASE Poll
  BY <1>1 DEF Poll, core1Vars
<1>2. CASE CardStart
  <2>1. /\ mtx_flash # "core1" /\ Core1Served
        /\ UNCHANGED <<mtx_flash, flash_available, asked0, locked_out>>
        /\ pc0' = "flash" /\ pc1' = "boot" /\ cmd' = "running"
    BY <1>2 DEF CardStart
  <2> QED BY <2>1
<1>3. CASE Answer
  BY <1>3 DEF Answer, core1Vars
<1>4. CASE Rescan
  BY <1>4 DEF Rescan, core1Vars
<1>5. ASSUME Report \/ Button \/ WriteFile
      PROVE  WaitInv'
  <2>1. /\ UNCHANGED <<mtx_flash, flash_available, asked0, locked_out, pc1, cmd>>
        /\ pc0' \in Writing
    BY <1>5 DEF Report, Button, WriteFile, Writing, core0Vars, core1Vars
  <2> QED BY <2>1 DEF Writing
<1>6. CASE AskCommit
  <2>1. /\ UNCHANGED <<mtx_flash, pc1, cmd, locked_out>>
        /\ asked0' /\ pc0' \in {"ccid", "flash", "usb"}
    BY <1>6 DEF AskCommit, core1Vars
  <2> QED BY <2>1
<1>7. CASE FlashEnter
  <2>1. /\ UNCHANGED <<locked_out, pc1, cmd>>
        /\ pc0 = "flash"
        /\ \/ /\ mtx_flash' = "core0" /\ pc0' = "scan"
              /\ locked_out /\ flash_available
              /\ UNCHANGED <<flash_available, asked0>>
           \/ mtx_flash' # "core1" /\ pc0' = "usb" /\ flash_available' = FALSE
    BY <1>7 DEF FlashEnter, cacheVars, core1Vars
  <2> QED BY <2>1
<1>8. CASE FlashBusy
  <2>1. pc1 \in Critical
    BY <1>8 DEF FlashBusy
  <2> QED BY <1>8, <2>1 DEF FlashBusy, cacheVars, core1Vars
<1>9. CASE EraseSlot
  BY <1>9 DEF EraseSlot, Victim, core1Vars
<1>10. CASE ProgramSlot
  <2>1. UNCHANGED <<mtx_flash, pc1, cmd, locked_out>> /\ pc0 = "erased" /\ pc0' = "scan"
    BY <1>10 DEF ProgramSlot, core1Vars
  <2> QED BY <2>1
<1>11. CASE SkipSlot
  BY <1>11 DEF SkipSlot, cacheVars, core1Vars
<1>12. CASE FlashExit
  <2>1. /\ UNCHANGED <<pc1, cmd, locked_out>> /\ pc0 = "scan" /\ pc0' = "usb"
        /\ flash_available' = FALSE /\ mtx_flash' = "free"
    BY <1>12 DEF FlashExit, core1Vars
  <2> QED BY <2>1
<1> QED BY <1>1, <1>2, <1>3, <1>4, <1>5, <1>6, <1>7, <1>8, <1>9, <1>10, <1>11,
           <1>12 DEF Core0

THEOREM WaitInvariant == ASSUME HostWaits PROVE Spec => []WaitInv
<1>1. Init => WaitInv
  BY WaitInvInit
<1>2. CacheInv /\ WaitInv /\ [Next]_vars => WaitInv'
  <2> SUFFICES ASSUME CacheInv, WaitInv, [Next]_vars PROVE WaitInv'
    OBVIOUS
  <2>1. CASE PowerCut
    BY <2>1 DEF PowerCut, WaitInv, MutexOwnerAlive, Core1Served, Critical
  <2>2. CASE UNCHANGED vars
    BY <2>2 DEF vars, WaitInv, MutexOwnerAlive, Core1Served, Critical
  <2> QED BY <2>1, <2>2, Core0Waits, Core1Waits DEF Next
<1> QED BY <1>1, <1>2, CacheInvariant, PTL DEF Spec

\* With a host that waits for its answers card_start never resets a core 1 that
\* holds mtx_flash.
THEOREM MutexNeverOrphaned == ASSUME HostWaits PROVE Spec => []MutexOwnerAlive
<1>1. WaitInv => MutexOwnerAlive
  BY DEF WaitInv
<1> QED BY <1>1, WaitInvariant, PTL

\* With such a host do_flash holds the mutex while it waits for a core 1 that
\* cannot answer the lockout before it has the mutex only for a commit that core 0
\* asked for itself since it looked last: none that a command asked for is stuck.
THEOREM LockoutNeverDeadlocks == ASSUME HostWaits PROVE Spec => []NoLockoutDeadlock
<1>1. WaitInv /\ CacheInv => NoLockoutDeadlock
  BY DEF WaitInv, NoLockoutDeadlock, Victim
<1> QED BY <1>1, WaitInvariant, CacheInvariant, PTL
=============================================================================
