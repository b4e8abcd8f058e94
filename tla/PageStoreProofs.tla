--------------------------- MODULE PageStoreProofs ---------------------------
(***************************************************************************)
(* Proofs, for any number of sectors, slots and bytes and for every host,  *)
(* that readers of the page cache see the memory PageStore promises, and   *)
(* that a pointer flash_read gave out shows it too until the next write.   *)
(***************************************************************************)
EXTENDS PageCacheProofs

\* What readers see of a sector: the one slot that holds it, or the chip.
ViewFound ==
  \A s \in Sectors :
    /\ \A k \in Slots : CachedAt(s, k) => Place(s) = k /\ View(s) = flash_pages[k].page
    /\ (\A k \in Slots : ~CachedAt(s, k)) => Place(s) = 0 /\ View(s) = flash[s]

LEMMA ViewIsFound == CacheInv => ViewFound
<1> SUFFICES ASSUME CacheInv, NEW s \in Sectors
             PROVE  /\ \A k \in Slots : CachedAt(s, k) =>
                         Place(s) = k /\ View(s) = flash_pages[k].page
                    /\ (\A k \in Slots : ~CachedAt(s, k)) =>
                         Place(s) = 0 /\ View(s) = flash[s]
  BY DEF ViewFound
<1> USE CacheAssumption
<1>1. ASSUME NEW k \in Slots, CachedAt(s, k)
      PROVE  Place(s) = k /\ View(s) = flash_pages[k].page
  <2>1. \A j \in Slots : CachedAt(s, j) => j = k
    BY <1>1 DEF CacheInv, DistinctSectors, CachedAt
  <2>2. \A j \in 1..k-1 : j \in Slots /\ j # k
    BY DEF Slots
  <2>3. \A j \in 1..k-1 : ~CachedAt(s, j)
    BY <2>1, <2>2
  <2>4. Place(s) = k
    BY <1>1, <2>1, <2>3 DEF Place
  <2>5. k # 0
    BY DEF Slots
  <2> QED BY <2>4, <2>5 DEF View
<1>2. ASSUME \A k \in Slots : ~CachedAt(s, k)
      PROVE  Place(s) = 0 /\ View(s) = flash[s]
  BY <1>2 DEF Place, View
<1> QED BY <1>1, <1>2

LEMMA ViewIsFoundNext == CacheInv' => ViewFound'
BY ViewIsFound, PTL
-----------------------------------------------------------------------------
(* The cache implements PageStore, step by step.                           *)

\* Steps that leave the slots and the chip alone, and refused writes.
LEMMA ViewUntouched ==
  ASSUME UNCHANGED <<flash, flash_pages>>
  PROVE  UNCHANGED Store!vars
<1>1. \A s \in Sectors : View(s)' = View(s)
  BY DEF View, Place, CachedAt
<1> QED BY <1>1 DEF Store!vars

LEMMA WriteIsWrite ==
  ASSUME CacheInv, CacheInv', r = 1, UNCHANGED flash,
         NEW s \in Sectors, NEW o \in Offsets, NEW b \in Bytes,
         flash_program_block(s, o, b)
  PROVE  Store!Write(s, o, b) \/ UNCHANGED Store!vars
<1>1. CASE ready_pages = TOTAL_FLASH_PAGES
  BY <1>1, ViewUntouched DEF flash_program_block, cacheVars
<1>2. CASE ready_pages # TOTAL_FLASH_PAGES
  <2>1. PICK k \in find_free_page(s) :
          flash_pages' = [flash_pages EXCEPT ![k] =
             [page |-> [IF flash_pages[k].ready THEN flash_pages[k].page ELSE flash[s]
                          EXCEPT ![o] = b],
              address |-> s, ready |-> TRUE]]
    BY <1>2 DEF flash_program_block
  <2>2. /\ k \in Slots
        /\ \/ flash_pages[k].ready /\ flash_pages[k].address = s
           \/ /\ ~flash_pages[k].ready
              /\ \A j \in Slots : flash_pages[j].ready => flash_pages[j].address # s
    BY <2>1, PageFoundAt DEF CacheInv
  <2>3. flash_pages \in [Slots -> Slot]
    BY DEF CacheInv, TypeOK
  <2>4. View(s) = IF flash_pages[k].ready THEN flash_pages[k].page ELSE flash[s]
    BY <2>2, ViewIsFound DEF ViewFound, CachedAt
  <2>5. /\ flash_pages'[k].ready /\ flash_pages'[k].address = s
        /\ flash_pages'[k].page = [View(s) EXCEPT ![o] = b]
        /\ \A j \in Slots : j # k => flash_pages'[j] = flash_pages[j]
    BY <2>1, <2>2, <2>3, <2>4
  <2>6. View(s)' = [View(s) EXCEPT ![o] = b]
    BY <2>2, <2>5, ViewIsFoundNext DEF ViewFound, CachedAt
  <2>7. ASSUME NEW t \in Sectors, t # s
        PROVE  View(t)' = View(t)
    <3>1. \A j \in Slots : CachedAt(t, j)' <=> CachedAt(t, j)
      BY <2>2, <2>5, <2>7 DEF CachedAt
    <3>2. \A j \in Slots : CachedAt(t, j) => j # k
      BY <2>2, <2>7 DEF CachedAt
    <3>3. CASE \E j \in Slots : CachedAt(t, j)
      <4>1. PICK j \in Slots : CachedAt(t, j)
        BY <3>3
      <4>2. View(t) = flash_pages[j].page
        BY <4>1, ViewIsFound DEF ViewFound
      <4>3. View(t)' = flash_pages'[j].page
        BY <3>1, <4>1, ViewIsFoundNext DEF ViewFound
      <4> QED BY <2>5, <3>2, <4>1, <4>2, <4>3
    <3>4. CASE ~\E j \in Slots : CachedAt(t, j)
      <4>1. View(t) = flash[t]
        BY <3>4, ViewIsFound DEF ViewFound
      <4>2. View(t)' = flash'[t]
        BY <3>1, <3>4, ViewIsFoundNext DEF ViewFound
      <4> QED BY <4>1, <4>2
    <3> QED BY <3>3, <3>4
  <2>8. [t \in Sectors |-> View(t)'] = [[t \in Sectors |-> View(t)] EXCEPT ![s][o] = b]
    BY <2>6, <2>7
  <2> QED BY <2>8 DEF Store!Write
<1> QED BY <1>1, <1>2

\* The sector that is erased is in a slot, so readers do not see it blank.
LEMMA EraseIsErase ==
  ASSUME CacheInv, CacheInv', EraseSlot
  PROVE  Store!Erase(flash_pages[r].address) /\ flash_pages[r].address \in Sectors
<1> DEFINE a == flash_pages[r].address
<1>1. /\ r \in Slots /\ flash_pages[r].ready /\ UNCHANGED flash_pages
      /\ flash' = [flash EXCEPT ![a] = Blank]
  BY DEF EraseSlot, cacheVars
<1>2. a \in Sectors /\ CachedAt(a, r)
  BY <1>1 DEF CacheInv, ReadyAddress, CachedAt
<1>3. flash \in [Sectors -> Content]
  BY DEF CacheInv, TypeOK
<1>4. \A s \in Sectors : Place(s)' = Place(s)
  BY <1>1 DEF Place, CachedAt
<1>5. ASSUME NEW s \in Sectors PROVE View(s)' = View(s)
  <2>1. CASE s = a
    <3>1. Place(a) = r /\ r # 0
      BY <1>1, <1>2, ViewIsFound, CacheAssumption DEF ViewFound, Slots
    <3> QED BY <1>1, <1>4, <2>1, <3>1 DEF View
  <2>2. CASE s # a
    <3>1. flash'[s] = flash[s]
      BY <1>1, <1>3, <2>2
    <3> QED BY <1>1, <1>4, <3>1 DEF View
  <2> QED BY <2>1, <2>2
<1>6. [s \in Sectors |-> View(s)'] = [s \in Sectors |-> View(s)]
  BY <1>5
<1> QED BY <1>1, <1>2, <1>6 DEF Store!Erase, Store!Blank, Blank

\* The slot is released when the chip holds what readers saw in it.
LEMMA ProgramIsProgram ==
  ASSUME CacheInv, CacheInv', ProgramSlot
  PROVE  Store!Program(flash_pages[r].address) /\ flash_pages[r].address \in Sectors
<1>0. PICK a \in Sectors : a = flash_pages[r].address
  BY DEF ProgramSlot, CacheInv, Core0Owner, ReadyAddress
<1>1. /\ r \in Slots /\ flash_pages[r].ready
      /\ flash' = [flash EXCEPT ![a] = flash_pages[r].page]
      /\ flash_pages' = [flash_pages EXCEPT ![r].ready = FALSE]
  BY <1>0 DEF ProgramSlot, CacheInv, Core0Owner
<1>2. CachedAt(a, r)
  BY <1>0, <1>1 DEF CachedAt
<1>3. View(a) = flash_pages[r].page
  BY <1>1, <1>2, ViewIsFound DEF ViewFound
<1>4. flash \in [Sectors -> Content] /\ flash_pages \in [Slots -> Slot]
  BY DEF CacheInv, TypeOK
<1>5. /\ ~flash_pages'[r].ready
      /\ \A j \in Slots : j # r => flash_pages'[j] = flash_pages[j]
  BY <1>1, <1>4 DEF Slot
<1>6. flash'[a] = flash_pages[r].page /\ \A s \in Sectors : s # a => flash'[s] = flash[s]
  BY <1>1, <1>2, <1>4
<1>7. \A j \in Slots : CachedAt(a, j) => j = r
  BY <1>1, <1>2 DEF CacheInv, DistinctSectors, CachedAt
<1>8. View(a)' = View(a)
  <2>1. \A j \in Slots : ~CachedAt(a, j)'
    BY <1>5, <1>7 DEF CachedAt
  <2>2. View(a)' = flash'[a]
    BY <1>2, <2>1, ViewIsFoundNext DEF ViewFound
  <2> QED BY <1>3, <1>6, <2>2
<1>9. ASSUME NEW s \in Sectors, s # a PROVE View(s)' = View(s)
  <2>1. \A j \in Slots : CachedAt(s, j)' <=> CachedAt(s, j)
    BY <1>2, <1>5, <1>9 DEF CachedAt
  <2>2. CASE \E j \in Slots : CachedAt(s, j)
    <3>1. PICK j \in Slots : CachedAt(s, j)
      BY <2>2
    <3>2. j # r
      BY <1>0, <1>9, <3>1 DEF CachedAt
    <3>3. View(s) = flash_pages[j].page
      BY <3>1, ViewIsFound DEF ViewFound
    <3>4. View(s)' = flash_pages'[j].page
      BY <2>1, <3>1, ViewIsFoundNext DEF ViewFound
    <3> QED BY <1>5, <3>2, <3>3, <3>4
  <2>3. CASE ~\E j \in Slots : CachedAt(s, j)
    <3>1. View(s) = flash[s]
      BY <2>3, ViewIsFound DEF ViewFound
    <3>2. View(s)' = flash'[s]
      BY <2>1, <2>3, ViewIsFoundNext DEF ViewFound
    <3> QED BY <1>6, <1>9, <3>1, <3>2
  <2> QED BY <2>2, <2>3
<1>10. [s \in Sectors |-> View(s)'] = [s \in Sectors |-> View(s)]
  BY <1>8, <1>9
<1>11. flash' = [flash EXCEPT ![a] = [s \in Sectors |-> View(s)][a]]
  BY <1>1, <1>2, <1>3
<1> QED BY <1>0, <1>10, <1>11 DEF Store!Program

\* Without power nothing is ready, and readers are left with the chip.
LEMMA PowerCutIsPowerCut ==
  ASSUME CacheInv, CacheInv', PowerCut
  PROVE  Store!PowerCut
<1>1. \A s \in Sectors, k \in Slots : ~CachedAt(s, k)'
  BY DEF PowerCut, EmptySlot, CachedAt
<1>2. \A s \in Sectors : View(s)' = flash'[s]
  BY <1>1, ViewIsFoundNext DEF ViewFound
<1>3. UNCHANGED flash /\ flash \in [Sectors -> Content]
  BY DEF PowerCut, CacheInv, TypeOK
<1>4. [s \in Sectors |-> View(s)'] = flash
  BY <1>2, <1>3
<1> QED BY <1>3, <1>4 DEF Store!PowerCut

LEMMA StepIsStoreStep ==
  CacheInv /\ CacheInv' /\ [Next]_vars => [Store!Next]_(Store!vars)
<1> SUFFICES ASSUME CacheInv, CacheInv', [Next]_vars PROVE [Store!Next]_(Store!vars)
  OBVIOUS
<1>1. CASE Core1
  <2>1. CASE LeaveProgram
    <3>1. /\ pc1 = "program" /\ UNCHANGED flash
          /\ flash_program_block(req.sector, req.offset, req.byte)
      BY <2>1 DEF LeaveProgram, Leave
    <3>2. r = 1
      BY <3>1 DEF CacheInv, Core0Owner, Core1Owner, Critical
    <3>3. req.sector \in Sectors /\ req.offset \in Offsets /\ req.byte \in Bytes
      BY <3>1 DEF CacheInv, Core1Owner, Write
    <3>4. \/ Store!Write(req.sector, req.offset, req.byte)
          \/ UNCHANGED Store!vars
      BY <3>1, <3>2, <3>3, WriteIsWrite
    <3> QED BY <3>3, <3>4 DEF Store!Next
  <2>2. CASE ~LeaveProgram
    <3>1. UNCHANGED <<flash, flash_pages>>
      BY <1>1, <2>2 DEF Core1, EnterInit, LeaveInit, TakeCommand, EnterProgram,
         EnterAvailable, LeaveAvailable, EnterRead, LeaveRead, Finish, Enter, Leave,
         cacheVars
    <3> QED BY <3>1, ViewUntouched
  <2> QED BY <2>1, <2>2
<1>2. CASE Core0
  <2>1. CASE WriteFile
    <3>1. PICK s \in Sectors, o \in Offsets, b \in Bytes : flash_program_block(s, o, b)
      BY <2>1 DEF WriteFile
    <3>2. UNCHANGED flash /\ r = 1
      BY <2>1 DEF WriteFile, Writing, CacheInv, Core0Owner
    <3>3. Store!Write(s, o, b) \/ UNCHANGED Store!vars
      BY <3>1, <3>2, WriteIsWrite
    <3> QED BY <3>3 DEF Store!Next
  <2>2. CASE EraseSlot
    BY <2>2, EraseIsErase DEF Store!Next
  <2>3. CASE ProgramSlot
    BY <2>3, ProgramIsProgram DEF Store!Next
  <2>4. CASE ~(WriteFile \/ EraseSlot \/ ProgramSlot)
    <3>1. UNCHANGED <<flash, flash_pages>>
      BY <1>2, <2>4 DEF Core0, Poll, CardStart, Answer, Rescan, Report, Button, AskCommit,
         FlashEnter, FlashBusy, SkipSlot, FlashExit, cacheVars
    <3> QED BY <3>1, ViewUntouched
  <2> QED BY <2>1, <2>2, <2>3, <2>4
<1>3. CASE PowerCut
  BY <1>3, PowerCutIsPowerCut DEF Store!Next
<1>4. CASE UNCHANGED vars
  BY <1>4, ViewUntouched DEF vars
<1> QED BY <1>1, <1>2, <1>3, <1>4 DEF Next

LEMMA StoreInit == Init => Store!Init
<1> SUFFICES ASSUME Init PROVE Store!Init
  OBVIOUS
<1>1. \A s \in Sectors, k \in Slots : ~CachedAt(s, k)
  BY DEF Init, PowerOn, EmptySlot, CachedAt
<1>2. \A s \in Sectors : View(s) = flash[s]
  BY <1>1, CacheInvInit, ViewIsFound DEF ViewFound
<1>3. flash \in [Sectors -> Content]
  BY DEF Init
<1>4. [s \in Sectors |-> View(s)] = flash
  BY <1>2, <1>3
<1> QED BY <1>3, <1>4 DEF Store!Init, Store!Content, Content

\* Whatever the host does, readers of the cache see every write that is not
\* refused at once, the chip changes by whole sectors, and a power cut leaves
\* what the chip holds: low_flash.c keeps the promise its callers rely on.
THEOREM CacheIsStore == Spec => ImplementsStore
<1>1. Init => Store!Init
  BY StoreInit
<1>2. CacheInv /\ CacheInv' /\ [Next]_vars => [Store!Next]_(Store!vars)
  BY StepIsStoreStep
<1> QED BY <1>1, <1>2, CacheInvariant, PTL DEF Spec, ImplementsStore, Store!Spec
-----------------------------------------------------------------------------
(* Pointers.                                                               *)

\* Until the next write, a pointer into the chip is to a sector that no slot
\* holds, and one into a slot is to the slot that holds its sector, or to what
\* a commit has left there, the same as on the chip.
PtrInv ==
  ptr # NoPtr /\ ~ptr.written =>
    LET free == \A k \in Slots : ~CachedAt(ptr.sector, k)
    IN  IF ptr.slot = 0 THEN free
        ELSE \/ CachedAt(ptr.sector, ptr.slot)
             \/ free /\ flash_pages[ptr.slot].page = flash[ptr.sector]

LEMMA PtrTypes ==
  ASSUME CacheInv, ptr # NoPtr
  PROVE  /\ ptr.sector \in Sectors /\ ptr.written \in BOOLEAN
         /\ ptr.slot \in 0..TOTAL_FLASH_PAGES
         /\ ptr.slot # 0 => ptr.slot \in Slots
<1>1. ptr \in Pointer
  BY DEF CacheInv, TypeOK
<1> QED BY <1>1, CacheAssumption DEF Pointer, Slots

LEMMA FreshFollows == CacheInv /\ PtrInv => PointerFresh
<1> SUFFICES ASSUME CacheInv, PtrInv, ptr # NoPtr, ~ptr.written
             PROVE  Deref(ptr) = View(ptr.sector)
  BY DEF PointerFresh
<1> USE PtrTypes, ViewIsFound DEF PtrInv, ViewFound, Deref
<1>1. CASE ptr.slot = 0
  BY <1>1
<1>2. CASE ptr.slot # 0
  BY <1>2
<1> QED BY <1>1, <1>2

LEMMA PtrUntouched ==
  ASSUME PtrInv, UNCHANGED <<flash, flash_pages, ptr>>
  PROVE  PtrInv'
BY DEF PtrInv, CachedAt

\* A write marks the pointer, a refused one changes nothing.
LEMMA WriteKeepsPtr ==
  ASSUME CacheInv, PtrInv, UNCHANGED flash,
         NEW s, NEW o, NEW b, flash_program_block(s, o, b)
  PROVE  PtrInv'
<1>1. CASE ready_pages = TOTAL_FLASH_PAGES
  BY <1>1, PtrUntouched DEF flash_program_block, cacheVars
<1>2. CASE ready_pages # TOTAL_FLASH_PAGES
  <2>1. ptr' = IF ptr = NoPtr THEN ptr ELSE [ptr EXCEPT !.written = TRUE]
    BY <1>2 DEF flash_program_block
  <2>2. ptr \in Pointer \cup {NoPtr}
    BY DEF CacheInv, TypeOK
  <2>3. ptr' = NoPtr \/ ptr'.written
    BY <2>1, <2>2 DEF Pointer, NoPtr
  <2> QED BY <2>3 DEF PtrInv
<1> QED BY <1>1, <1>2

LEMMA ReadGivesPtr == ASSUME CacheInv, LeaveRead PROVE PtrInv'
<1>1. /\ ptr' = [slot |-> Place(req.sector), sector |-> req.sector, written |-> FALSE]
      /\ UNCHANGED <<flash, flash_pages>> /\ req.sector \in Sectors
  BY DEF LeaveRead, Leave, cacheVars, CacheInv, Core1Owner
<1>2. PICK s \in Sectors : s = req.sector
  BY <1>1
<1>3. CASE \E k \in Slots : CachedAt(s, k)
  <2>1. PICK k \in Slots : CachedAt(s, k)
    BY <1>3
  <2>2. Place(s) = k /\ k # 0
    BY <2>1, ViewIsFound, CacheAssumption DEF ViewFound, Slots
  <2> QED BY <1>1, <1>2, <2>1, <2>2 DEF PtrInv, CachedAt
<1>4. CASE ~\E k \in Slots : CachedAt(s, k)
  <2>1. Place(s) = 0
    BY <1>4, ViewIsFound DEF ViewFound
  <2> QED BY <1>1, <1>2, <1>4, <2>1 DEF PtrInv, CachedAt
<1> QED BY <1>3, <1>4

\* What is erased is in a slot: no pointer into the chip is to it.
LEMMA EraseKeepsPtr == ASSUME CacheInv, PtrInv, EraseSlot PROVE PtrInv'
<1>1. PICK a \in Sectors : a = flash_pages[r].address
  BY DEF EraseSlot, CacheInv, ReadyAddress
<1>2. /\ r \in Slots /\ CachedAt(a, r) /\ UNCHANGED <<flash_pages, ptr>>
      /\ flash' = [flash EXCEPT ![a] = Blank]
  BY <1>1 DEF EraseSlot, cacheVars, CachedAt
<1>3. SUFFICES ASSUME ptr # NoPtr, ~ptr.written
               PROVE  PtrInv'
  BY <1>2 DEF PtrInv
<1>4. CASE ptr.sector = a
  BY <1>2, <1>3, <1>4 DEF PtrInv, CachedAt
<1>5. CASE ptr.sector # a
  <2>1. flash'[ptr.sector] = flash[ptr.sector]
    BY <1>1, <1>2, <1>3, <1>5, PtrTypes DEF CacheInv, TypeOK
  <2> QED BY <1>2, <1>3, <2>1 DEF PtrInv, CachedAt
<1> QED BY <1>4, <1>5

\* The slot that is released keeps its page, and the chip has it, too.
LEMMA ProgramKeepsPtr == ASSUME CacheInv, PtrInv, ProgramSlot PROVE PtrInv'
<1>1. PICK a \in Sectors : a = flash_pages[r].address
  BY DEF ProgramSlot, CacheInv, Core0Owner, ReadyAddress
<1>2. /\ r \in Slots /\ CachedAt(a, r) /\ UNCHANGED ptr
      /\ flash' = [flash EXCEPT ![a] = flash_pages[r].page]
      /\ flash_pages' = [flash_pages EXCEPT ![r].ready = FALSE]
  BY <1>1 DEF ProgramSlot, CacheInv, Core0Owner, CachedAt
<1>3. flash \in [Sectors -> Content] /\ flash_pages \in [Slots -> Slot]
  BY DEF CacheInv, TypeOK
<1>4. /\ \A j \in Slots : flash_pages'[j].page = flash_pages[j].page
      /\ \A j \in Slots : j # r => flash_pages'[j] = flash_pages[j]
      /\ ~flash_pages'[r].ready
  BY <1>2, <1>3 DEF Slot
<1>5. /\ flash'[a] = flash_pages[r].page
      /\ \A s \in Sectors : s # a => flash'[s] = flash[s]
  BY <1>2, <1>3
<1>6. \A j \in Slots : CachedAt(a, j) => j = r
  BY <1>1, <1>2 DEF CacheInv, DistinctSectors, CachedAt
<1>7. SUFFICES ASSUME ptr # NoPtr, ~ptr.written
               PROVE  PtrInv'
  BY <1>2 DEF PtrInv
<1>8. CASE ptr.sector = a
  <2>1. ptr.slot = r
    BY <1>2, <1>6, <1>7, <1>8, PtrTypes DEF PtrInv
  <2>2. \A k \in Slots : ~CachedAt(a, k)'
    BY <1>1, <1>2, <1>4, <1>6 DEF CachedAt
  <2>3. flash_pages'[ptr'.slot].page = flash'[ptr'.sector]
    BY <1>2, <1>4, <1>5, <1>8, <2>1
  <2>4. ptr'.sector = a /\ ptr'.slot # 0
    BY <1>2, <1>8, <2>1, CacheAssumption DEF Slots
  <2> QED BY <2>2, <2>3, <2>4 DEF PtrInv, CachedAt
<1>9. CASE ptr.sector # a
  <2>1. flash'[ptr.sector] = flash[ptr.sector]
    BY <1>5, <1>7, <1>9, PtrTypes
  <2>2. \A j \in Slots : CachedAt(ptr.sector, j)' <=> CachedAt(ptr.sector, j)
    BY <1>1, <1>2, <1>4, <1>9 DEF CachedAt
  <2>3. ptr.slot # 0 => flash_pages'[ptr.slot].page = flash_pages[ptr.slot].page
    BY <1>4, <1>7, PtrTypes
  <2> QED BY <1>2, <1>7, <2>1, <2>2, <2>3, PtrTypes DEF PtrInv
<1> QED BY <1>8, <1>9

LEMMA StepKeepsPtr == CacheInv /\ PtrInv /\ [Next]_vars => PtrInv'
<1> SUFFICES ASSUME CacheInv, PtrInv, [Next]_vars PROVE PtrInv'
  OBVIOUS
<1>1. CASE Core1
  <2>1. CASE LeaveProgram
    BY <2>1, WriteKeepsPtr DEF LeaveProgram, Leave
  <2>2. CASE LeaveRead
    BY <2>2, ReadGivesPtr
  <2>3. CASE Finish
    BY <2>3 DEF Finish, PtrInv
  <2>4. CASE ~(LeaveProgram \/ LeaveRead \/ Finish)
    <3>1. UNCHANGED <<flash, flash_pages, ptr>>
      BY <1>1, <2>4 DEF Core1, EnterInit, LeaveInit, TakeCommand, EnterProgram,
         EnterAvailable, LeaveAvailable, EnterRead, Enter, Leave, cacheVars
    <3> QED BY <3>1, PtrUntouched
  <2> QED BY <2>1, <2>2, <2>3, <2>4
<1>2. CASE Core0
  <2>1. CASE WriteFile
    BY <2>1, WriteKeepsPtr DEF WriteFile
  <2>2. CASE CardStart
    BY <2>2 DEF CardStart, PtrInv
  <2>3. CASE EraseSlot
    BY <2>3, EraseKeepsPtr
  <2>4. CASE ProgramSlot
    BY <2>4, ProgramKeepsPtr
  <2>5. CASE ~(WriteFile \/ CardStart \/ EraseSlot \/ ProgramSlot)
    <3>1. UNCHANGED <<flash, flash_pages, ptr>>
      BY <1>2, <2>5 DEF Core0, Poll, Answer, Rescan, Report, Button, AskCommit,
         FlashEnter, FlashBusy, SkipSlot, FlashExit, cacheVars
    <3> QED BY <3>1, PtrUntouched
  <2> QED BY <2>1, <2>2, <2>3, <2>4, <2>5
<1>3. CASE PowerCut
  BY <1>3 DEF PowerCut, PtrInv
<1>4. CASE UNCHANGED vars
  BY <1>4, PtrUntouched DEF vars
<1> QED BY <1>1, <1>2, <1>3, <1>4 DEF Next

\* A pointer that flash_read gave to a command shows what the sector holds
\* until the next write, although core 0 commits the cache behind it.
THEOREM PointersStayFresh == Spec => []PointerFresh
<1>1. Init => PtrInv
  BY DEF Init, PowerOn, PtrInv
<1>2. CacheInv /\ PtrInv /\ [Next]_vars => PtrInv'
  BY StepKeepsPtr
<1>3. CacheInv /\ PtrInv => PointerFresh
  BY FreshFollows
<1> QED BY <1>1, <1>2, <1>3, CacheInvariant, PTL DEF Spec
=============================================================================
