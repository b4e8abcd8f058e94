----------------------------- MODULE FlashFiles -----------------------------
(***************************************************************************)
(* The file system of pico-keys-sdk fs/flash.c and fs/file.c.  The data    *)
(* pool is filled from its end downwards with nodes, each a header and the *)
(* bytes of one file, linked from the sentinel at end_data_pool to lower   *)
(* and lower addresses.  The table in RAM knows where the node of a file   *)
(* is.  A step is one access to the links that someone could be stopped    *)
(* at: the unlinking of an old node, the rest of its clearing, each turn   *)
(* of the loop of the allocator, the linking of the new node, its          *)
(* filling, and each turn of the loop of the scan.  The persistent pool    *)
(* has no files, and no caller writes at an offset.  A content may have    *)
(* any length: the two of cbor_vendor.c are as long as the host likes.     *)
(***************************************************************************)
EXTENDS Integers, Sequences, FiniteSets

CONSTANTS
  Fids,               \* file identifiers
  Static,             \* those of file_entries; the others are dynamic files
  Blocked,            \* those with the bit 0x1000: no node may come above theirs
  Contents,           \* what a file may hold: sequences of bytes
  Missing,            \* a file that is not there
  NoFile,             \* the file of no operation
  HEADER,             \* size of a header: next, prev, fid, len
  SECTOR,             \* FLASH_SECTOR_SIZE
  Start, End,         \* start_data_pool, end_data_pool
  MAX_DYNAMIC_FILES

ASSUME FlashAssumption ==
  /\ Static \subseteq Fids /\ Blocked \subseteq Fids /\ IsFiniteSet(Fids)
  /\ Missing \notin Contents /\ NoFile \notin Fids
  /\ <<>> \in Contents /\ \A c \in Contents : Len(c) \in Nat
  /\ HEADER \in Nat \ {0} /\ SECTOR \in Nat /\ HEADER < SECTOR
  /\ Start \in Nat \ {0} /\ Start % SECTOR = 0
  /\ End \in Nat /\ Start <= End
  /\ MAX_DYNAMIC_FILES \in Nat

Cells == Start..End
Address == Cells \cup {0}
Dynamic == Fids \ Static

VARIABLES
  next, prev,         \* the links in the headers, by the address of the node
  fid, content,       \* the file of a node and its len bytes
  data,               \* file->data: the node of a file, 0 for NULL
  known,              \* dynamic_file: the dynamic files that have an entry
  home,               \* auxiliary: the node of a file in the list, 0 for none
  pc,                 \* what core 1 does
  file, want,         \* the file of the operation, what it is to hold
  base,               \* the node a loop is at
  spot                \* new_addr, or the node that is cleared

links == <<next, prev>>
nodes == <<fid, content>>
table == <<data, known>>
call == <<file, want, base, spot>>
vars == <<links, nodes, table, home, pc, call>>

PC == {"idle", "wipe", "walk", "link", "fill", "scan", "spilled"}

TypeOK ==
  /\ next \in [Cells -> Address] /\ prev \in [Cells -> Address]
  /\ fid \in [Cells -> Fids \cup {NoFile}] /\ content \in [Cells -> Contents]
  /\ data \in [Fids -> Address] /\ home \in [Fids -> Address]
  /\ known \in SUBSET Dynamic
  /\ pc \in PC
  /\ file \in Fids \cup {NoFile} /\ want \in Contents \cup {Missing}
  /\ base \in Address /\ spot \in Address

\* The bytes of a node that has left the list are not kept.
Empty(v) == [a \in Cells |-> v]

\* The first initialization of scan_flash.
Init ==
  /\ next = Empty(0) /\ prev = Empty(0)
  /\ fid = Empty(NoFile) /\ content = Empty(<<>>)
  /\ data = [f \in Fids |-> 0] /\ home = [f \in Fids |-> 0]
  /\ known = {}
  /\ pc = "idle"
  /\ file = NoFile /\ want = Missing /\ base = 0 /\ spot = 0

\* The operation is over, its locals are gone.
Return == /\ pc' = "idle"
          /\ file' = NoFile /\ want' = Missing /\ base' = 0 /\ spot' = 0
-----------------------------------------------------------------------------
(* flash_clear_file, in two steps, and what it is called for: a write that *)
(* does not fit (want is the new content) or delete_file (want is Missing).*)

\* Fault: the node before the cleared one is not told.
UnlinkNothing(f, c) ==
  /\ home' = [home EXCEPT ![f] = 0]
  /\ file' = f /\ want' = c /\ spot' = data[f]
  /\ pc' = "wipe"
  /\ UNCHANGED <<links, nodes, table, base>>

Unlink(f, c) ==
  /\ next' = [next EXCEPT ![prev[data[f]]] = next[data[f]]]
  /\ home' = [home EXCEPT ![f] = 0]
  /\ file' = f /\ want' = c /\ spot' = data[f]
  /\ pc' = "wipe"
  /\ UNCHANGED <<prev, nodes, table, base>>

\* What happens once the old node is gone: a write looks for a place from the
\* sentinel on, delete_file drops the entry of a dynamic file.
AfterWipe ==
  IF want = Missing
  THEN /\ Return
       /\ known' = known \ {file}
  ELSE /\ pc' = "walk"
       /\ base' = End /\ spot' = 0
       /\ UNCHANGED <<known, file, want>>

\* Fault: the next node keeps its link to the cleared one.
WipeOneWay ==
  /\ pc = "wipe"
  /\ content' = [content EXCEPT ![spot] = <<>>] /\ fid' = [fid EXCEPT ![spot] = NoFile]
  /\ prev' = [prev EXCEPT ![spot] = 0]
  /\ next' = [next EXCEPT ![spot] = 0]
  /\ data' = [data EXCEPT ![file] = 0]
  /\ AfterWipe
  /\ UNCHANGED home

\* Fault: file->data is left as it was.
WipeKeepsData ==
  /\ pc = "wipe"
  /\ content' = [content EXCEPT ![spot] = <<>>] /\ fid' = [fid EXCEPT ![spot] = NoFile]
  /\ prev' = [a \in Cells |-> IF a = spot THEN 0
                              ELSE IF a = next[spot] THEN prev[spot] ELSE prev[a]]
  /\ next' = [next EXCEPT ![spot] = 0]
  /\ AfterWipe
  /\ UNCHANGED <<data, home>>

Wipe ==
  /\ pc = "wipe"
  /\ content' = [content EXCEPT ![spot] = <<>>] /\ fid' = [fid EXCEPT ![spot] = NoFile]
  /\ prev' = [a \in Cells |-> IF a = spot THEN 0
                              ELSE IF a = next[spot] THEN prev[spot] ELSE prev[a]]
  /\ next' = [next EXCEPT ![spot] = 0]
  /\ data' = [data EXCEPT ![file] = 0]
  /\ AfterWipe
  /\ UNCHANGED home
-----------------------------------------------------------------------------
(* allocate_free_addr: the first node with room for another below it.      *)

SectorOf(a) == a - (a % SECTOR)
RealSize == HEADER + Len(want)

\* Between base and the node after it, in the sector of base.  The last byte
\* of the gap is not used.  Fault: the length of that node is not counted.
FitsInGapBare ==
  /\ SectorOf(base) <= base - RealSize
  /\ next[base] + HEADER < base - RealSize
  /\ fid[next[base]] \notin Blocked

FitsInGap ==
  /\ SectorOf(base) <= base - RealSize
  /\ next[base] + Len(content[next[base]]) + HEADER < base - RealSize
  /\ fid[next[base]] \notin Blocked

\* Below the last node: in its sector, or at the end of the one before.
PlaceAtEnd ==
  IF SectorOf(base) <= base - RealSize THEN base - RealSize
  ELSE IF SectorOf(base) - SECTOR >= Start THEN SectorOf(base) - RealSize
  ELSE 0

\* The size is only compared with the sector, not the size with its header.
\* With a longer content the place may begin below the pool, where no scan
\* finds it; or the header may begin in one sector and end in the next, and a
\* field that does is written past the slot of its sector.
Spills(p) == \/ p < Start
             \/ SECTOR - HEADER < Len(want) /\ Len(want) < SECTOR

\* The header of the new node, and the link back of the one after it.
Prepare(p) ==
  /\ spot' = p
  /\ next' = [next EXCEPT ![p] = next[base]]
  /\ prev' = [a \in Cells |-> IF a = p THEN base
                              ELSE IF a = next[base] THEN p ELSE prev[a]]
  /\ pc' = "link"
  /\ UNCHANGED <<nodes, table, home, file, want, base>>

\* Fault: without room the loop does not end.
WalkOn ==
  /\ pc = "walk"
  /\ \/ /\ next[base] = 0 /\ PlaceAtEnd # 0 /\ ~Spills(PlaceAtEnd)
        /\ Prepare(PlaceAtEnd)
     \/ /\ next[base] # 0 /\ FitsInGap
        /\ Prepare(base - RealSize)
     \/ /\ next[base] # 0 /\ ~FitsInGap
        /\ base' = next[base]
        /\ UNCHANGED <<links, nodes, table, home, pc, file, want, spot>>

Walk ==
  /\ pc = "walk"
  /\ \/ /\ next[base] = 0 /\ PlaceAtEnd # 0 /\ ~Spills(PlaceAtEnd)
        /\ Prepare(PlaceAtEnd)
     \/ /\ next[base] = 0 /\ PlaceAtEnd # 0 /\ Spills(PlaceAtEnd)
        /\ pc' = "spilled"
        /\ UNCHANGED <<links, nodes, table, home, call>>
     \/ /\ next[base] = 0 /\ PlaceAtEnd = 0       \* CCID_ERR_NO_MEMORY
        /\ Return
        /\ UNCHANGED <<links, nodes, table, home>>
     \/ /\ next[base] # 0 /\ FitsInGap
        /\ Prepare(base - RealSize)
     \/ /\ next[base] # 0 /\ ~FitsInGap
        /\ base' = next[base]
        /\ UNCHANGED <<links, nodes, table, home, pc, file, want, spot>>

\* From here on readers find the new node, and the table leads to it.
Link ==
  /\ pc = "link"
  /\ next' = [next EXCEPT ![base] = spot]
  /\ data' = [data EXCEPT ![file] = spot]
  /\ pc' = "fill"
  /\ UNCHANGED <<prev, nodes, known, home, call>>

Fill ==
  /\ pc = "fill"
  /\ fid' = [fid EXCEPT ![spot] = file]
  /\ content' = [content EXCEPT ![spot] = want]
  /\ home' = [home EXCEPT ![file] = spot]
  /\ Return
  /\ UNCHANGED <<links, table>>
-----------------------------------------------------------------------------
(* The operations.                                                         *)

\* file_new: a dynamic file without an entry takes a free one, if there is one.
\* Fault: the static entries are not searched first.
FileNewUnsearched(f, entries) ==
  IF f \in entries \/ Cardinality(entries) = MAX_DYNAMIC_FILES THEN entries
  ELSE entries \cup {f}

FileNew(f, entries) ==
  IF f \in Static \cup entries THEN entries
  ELSE IF Cardinality(entries) = MAX_DYNAMIC_FILES THEN entries
  ELSE entries \cup {f}

Overwrite(f, c) == /\ content' = [content EXCEPT ![data[f]] = c]
                   /\ UNCHANGED <<links, fid, data, home, pc, call>>

LookForPlace(f, c) == /\ file' = f /\ want' = c /\ base' = End
                      /\ pc' = "walk"
                      /\ UNCHANGED <<links, nodes, data, home, spot>>

\* flash_write_data_to_file of an entry that is there; it refuses NULL.
Write(f, c) ==
  /\ pc = "idle"
  /\ f \in Static \cup FileNew(f, known)
  /\ \/ /\ data[f] # 0 /\ Len(c) <= Len(content[data[f]])
        /\ Overwrite(f, c)
        /\ known' = FileNew(f, known)
     \/ /\ data[f] # 0 /\ Len(c) > Len(content[data[f]]) /\ Len(c) <= SECTOR
        /\ Unlink(f, c)
     \/ /\ data[f] = 0 /\ Len(c) <= SECTOR
        /\ LookForPlace(f, c)
        /\ known' = FileNew(f, known)
     \/ /\ Len(c) > SECTOR                     \* CCID_ERR_NO_MEMORY
        /\ known' = FileNew(f, known)
        /\ UNCHANGED <<links, nodes, data, home, pc, call>>

\* delete_file, and flash_clear_file alone for a static file.
Delete(f) ==
  /\ pc = "idle"
  /\ f \in Static \cup known
  /\ \/ /\ data[f] # 0
        /\ Unlink(f, Missing)
     \/ /\ data[f] = 0
        /\ known' = known \ {f}
        /\ UNCHANGED <<links, nodes, data, home, pc, call>>

\* initialize_flash(true): the sentinel has no next, and the table is empty.
Format ==
  /\ pc = "idle"
  /\ next' = Empty(0) /\ prev' = Empty(0)
  /\ fid' = Empty(NoFile) /\ content' = Empty(<<>>)
  /\ data' = [f \in Fids |-> 0] /\ home' = [f \in Fids |-> 0]
  /\ known' = {}
  /\ UNCHANGED <<pc, call>>

\* scan_flash, at power on and at each CTAPHID_INIT.
Rescan ==
  /\ pc = "idle"
  /\ data' = [f \in Fids |-> 0]
  /\ known' = {}
  /\ base' = next[End]
  /\ pc' = "scan"
  /\ UNCHANGED <<links, nodes, home, file, want, spot>>

\* Fault: the loop ends at the last node before it looks at it.
ScanNodeButLast ==
  LET f == fid[base]
  IN  /\ pc = "scan"
      /\ IF base = 0 \/ next[base] = 0
         THEN /\ Return
              /\ UNCHANGED table
         ELSE /\ known' = FileNew(f, known)
              /\ data' = [data EXCEPT ![f] = base]
              /\ base' = next[base]
              /\ UNCHANGED <<pc, file, want, spot>>
      /\ UNCHANGED <<links, nodes, home>>

ScanNode ==
  LET f == fid[base]
  IN  /\ pc = "scan"
      /\ IF base = 0
         THEN /\ Return
              /\ UNCHANGED table
         ELSE /\ known' = FileNew(f, known)
              /\ data' = IF f \in Static \cup known' THEN [data EXCEPT ![f] = base]
                         ELSE data
              /\ base' = next[base]
              /\ UNCHANGED <<pc, file, want, spot>>
      /\ UNCHANGED <<links, nodes, home>>

Step == Wipe \/ Walk \/ Link \/ Fill \/ ScanNode

\* The model ends before a node that spills: nothing is said of what follows.
Spilled == pc = "spilled" /\ UNCHANGED vars

Next == \/ \E f \in Fids, c \in Contents : Write(f, c)
        \/ \E f \in Fids : Delete(f)
        \/ Format
        \/ Rescan
        \/ Step
        \/ Spilled

Spec == Init /\ [][Next]_vars
\* A core that has begun an operation goes on with it.
FairSpec == Spec /\ WF_vars(Step)
-----------------------------------------------------------------------------
(* What the list promises, at every single step.                           *)

Homes == {home[f] : f \in Fids} \ {0}
\* The nodes in the list: those of the files and one that is being filled.
Linked == Homes \cup (IF pc = "fill" THEN {spot} ELSE {})

\* n is the highest of the addresses S that are below b, 0 if there is none.
IsBelow(n, b, S) ==
  /\ n = 0 \/ (n \in S /\ n < b)
  /\ \A a \in S : a < b => a <= n

\* Whoever follows the links from the sentinel, at any step of any operation,
\* meets the nodes of all files but the one that is written, in falling order
\* and nothing else (allocate_free_addr, flash_clear_file).
ListIntact == \A b \in Linked \cup {End} : IsBelow(next[b], b, Linked)

\* The links back agree with the links, but for the node after the one that is
\* cleared or put in, whose links are written one after the other.
InRepair == IF pc \in {"wipe", "link"} THEN {next[spot]} ELSE {}
BackLinks == \A a \in Linked \ InRepair :
               /\ prev[a] \in Linked \cup {End}
               /\ next[prev[a]] = a

Size(c) == HEADER + Len(c)
\* A node at a with c in it is in the pool and in one sector, or its header
\* ends one sector and c is in the next.
Fits(a, c) == /\ Start <= a
              /\ a + Size(c) <= End
              /\ \/ a + Size(c) <= SectorOf(a) + SECTOR
                 \/ (a + HEADER) % SECTOR = 0 /\ Len(c) <= SECTOR
Apart(a, c, b, d) == a + Size(c) <= b \/ b + Size(d) <= a

\* No two files share a byte of flash, none reaches over the sentinel, and no
\* header and no content crosses the end of a sector, where
\* flash_program_block would write past its slot.  This holds for the node
\* that is put in, too, and as long as no node spills, which takes a content
\* that does not fit in a sector with its header (allocate_free_addr).
ExtentsSound ==
  /\ \A f \in Fids : home[f] # 0 => Fits(home[f], content[home[f]])
  /\ \A f, g \in Fids :
       f # g /\ home[f] # 0 /\ home[g] # 0
         => Apart(home[f], content[home[f]], home[g], content[home[g]])
  /\ pc \in {"link", "fill"} =>
       /\ Fits(spot, want)
       /\ \A f \in Fids : home[f] # 0 => Apart(home[f], content[home[f]], spot, want)
  /\ pc = "spilled" => HEADER + Len(want) > SECTOR

\* Between two operations the table leads to the node of every file on flash,
\* and to nothing else: no delete, move or scan leaves a pointer behind or
\* loses a file.
TableMatches ==
  pc = "idle" => /\ data = home
                 /\ \A f \in Dynamic : home[f] # 0 => f \in known
-----------------------------------------------------------------------------
(* The map of files that the list implements.                              *)

Files == [f \in Fids |-> IF home[f] = 0 THEN Missing ELSE content[home[f]]]
Moving == IF pc \in {"wipe", "walk", "link", "fill", "spilled"} THEN <<file, want>> ELSE <<>>
Map == INSTANCE FileMap WITH files <- Files, moving <- Moving

\* Every operation replaces the content of its own file or loses it for want
\* of room, and no other file changes (flash_write_data_to_file, delete_file).
ImplementsMap == Map!Spec

\* The loops over the list end, so that every operation does.
OperationEnds == (pc # "idle") ~> (pc \in {"idle", "spilled"})
=============================================================================
