-------------------------- MODULE FlashFilesProofs --------------------------
(***************************************************************************)
(* Proofs about FlashFiles for any pool, any files and contents of any     *)
(* length.  CallSound and TableSound say what is true in the      *)
(* middle of an operation, so that Inv is inductive.                       *)
(***************************************************************************)
EXTENDS FlashFiles, FiniteSetTheorems, TLAPS

OnFlash == {f \in Dynamic : home[f] # 0}
InOperation == pc \in {"wipe", "walk", "link", "fill", "spilled"}

TableSound ==
  /\ pc # "scan" => /\ \A g \in Fids : g # file => data[g] = home[g]
                    /\ \A f \in Dynamic : home[f] # 0 \/ f = file => f \in known
  /\ pc \in {"wipe", "fill"} => data[file] = spot
  /\ pc \in {"walk", "link"} => data[file] = 0
  /\ \A f \in Fids : home[f] # 0 => fid[home[f]] = f
  /\ Cardinality(known) <= MAX_DYNAMIC_FILES
  /\ Cardinality(OnFlash) <= MAX_DYNAMIC_FILES

ScanSound ==
  pc = "scan" => /\ base \in Homes \cup {0}
                 /\ known \subseteq OnFlash
                 /\ \A f \in Fids : \/ data[f] = home[f]
                                    \/ data[f] = 0 /\ home[f] <= base
                 /\ \A f \in Dynamic : data[f] # 0 => f \in known

CallSound ==
  /\ InOperation <=> file # NoFile
  /\ InOperation => home[file] = 0
  /\ pc = "wipe" /\ want # Missing => Len(want) <= SECTOR
  /\ pc \in {"walk", "link", "fill"} => /\ base \in Homes \cup {End}
                                        /\ want \in Contents /\ Len(want) <= SECTOR
  /\ pc \in {"wipe", "link"} =>
       /\ spot \in Cells \ Homes /\ spot < End
       /\ IsBelow(next[spot], spot, Homes)
       /\ prev[spot] \in Homes \cup {End} /\ spot < prev[spot]
       /\ next[prev[spot]] = next[spot]
       /\ next[spot] # 0 => prev[next[spot]] = spot
  /\ pc = "link" => prev[spot] = base
  /\ pc = "fill" => spot \in Cells \ Homes

Inv == /\ TypeOK /\ ListIntact /\ BackLinks /\ ExtentsSound
       /\ TableSound /\ ScanSound /\ CallSound
-----------------------------------------------------------------------------
(* The sectors.                                                            *)

LEMMA SectorFacts ==
  ASSUME NEW a \in Nat
  PROVE  /\ SectorOf(a) \in Nat
         /\ SectorOf(a) <= a /\ a < SectorOf(a) + SECTOR
         /\ a >= Start => SectorOf(a) >= Start
<1>1. /\ SECTOR \in Nat \ {0} /\ Start \in Nat /\ Start % SECTOR = 0
  BY FlashAssumption
<1>2. a % SECTOR \in 0..(SECTOR - 1) /\ a % SECTOR <= a
  BY <1>1
<1> QED BY <1>1, <1>2 DEF SectorOf

LEMMA SameSector ==
  ASSUME NEW a \in Nat, NEW r \in Nat, SectorOf(a) <= a - r
  PROVE  SectorOf(a - r) = SectorOf(a)
<1> QED BY FlashAssumption DEF SectorOf

LEMMA SectorMultiple ==
  ASSUME NEW a \in Nat, SectorOf(a) >= SECTOR
  PROVE  (SectorOf(a) - SECTOR) % SECTOR = 0
<1>1. SECTOR \in Nat \ {0} /\ a % SECTOR \in 0..(SECTOR - 1)
  BY FlashAssumption
<1> DEFINE b == SectorOf(a) - SECTOR
           q == (a \div SECTOR) - 1
           d == b \div SECTOR
           e == b % SECTOR
<1>2. b = SECTOR * q /\ b \in Nat /\ q \in Int
  BY <1>1 DEF SectorOf
<1> HIDE DEF b, q
<1>3. b = SECTOR * d + e /\ d \in Nat /\ e \in 0..(SECTOR - 1)
  BY <1>1, <1>2
<1> HIDE DEF d, e
<1>4. d = q
  <2>1. CASE d >= q + 1
    <3>1. SECTOR * d >= SECTOR * (q + 1)
      BY <2>1, <1>1, <1>2, <1>3
    <3> QED BY <3>1, <1>1, <1>2, <1>3
  <2>2. CASE d <= q - 1
    <3>1. SECTOR * d <= SECTOR * (q - 1)
      BY <2>2, <1>1, <1>2, <1>3
    <3> QED BY <3>1, <1>1, <1>2, <1>3
  <2> QED BY <2>1, <2>2, <1>2, <1>3
<1>5. e = 0
  BY <1>1, <1>2, <1>3, <1>4
<1> QED BY <1>5 DEF b, e

LEMMA SectorBefore ==
  ASSUME NEW a \in Nat, NEW r \in Nat \ {0}, r <= SECTOR, SectorOf(a) >= SECTOR
  PROVE  SectorOf(SectorOf(a) - r) = SectorOf(a) - SECTOR
<1>1. SECTOR \in Nat \ {0} /\ a % SECTOR \in 0..(SECTOR - 1)
  BY FlashAssumption
<1> DEFINE q == a \div SECTOR
           m == SECTOR - r
           b == SECTOR * (q - 1) + m
<1>2. q \in Nat /\ SectorOf(a) = SECTOR * q
  BY <1>1 DEF SectorOf
<1>3. q - 1 \in Nat
  BY <1>1, <1>2
<1>4. SectorOf(a) - r = b /\ b - m = SectorOf(a) - SECTOR
  BY <1>1, <1>2, <1>3
<1>5. m \in 0..(SECTOR - 1) /\ b \in Nat
  BY <1>1, <1>3
<1>6. b % SECTOR = m
  <2> HIDE DEF q, m
  <2>1. b % SECTOR \in 0..(SECTOR - 1) /\ b = SECTOR * (b \div SECTOR) + (b % SECTOR)
        /\ b \div SECTOR \in Nat
    BY <1>1, <1>5
  <2> DEFINE d == b \div SECTOR
             e == b % SECTOR
  <2>2. SECTOR * d + e = SECTOR * (q - 1) + m /\ d \in Nat /\ e \in 0..(SECTOR - 1)
    BY <2>1
  <2> HIDE DEF d, e, b
  <2>3. d = q - 1
    <3>1. CASE d >= q
      <4>1. SECTOR * d >= SECTOR * q
        BY <3>1, <2>2, <1>1, <1>2
      <4> QED BY <4>1, <2>2, <1>1, <1>2, <1>5
    <3>2. CASE d <= q - 2
      <4>1. SECTOR * d <= SECTOR * (q - 2)
        BY <3>2, <2>2, <1>1, <1>2
      <4> QED BY <4>1, <2>2, <1>1, <1>2, <1>5
    <3> QED BY <3>1, <3>2, <2>2, <1>2
  <2> QED BY <2>2, <2>3, <1>1, <1>3, <1>5 DEF e
<1> QED BY <1>4, <1>6 DEF SectorOf
-----------------------------------------------------------------------------
(* The nodes of the list.                                                  *)

LEMMA Sizes ==
  /\ Start \in Nat \ {0} /\ End \in Nat /\ Start <= End /\ End \in Cells
  /\ \A a \in Cells : a \in Nat /\ a # 0 /\ Start <= a /\ a <= End
  /\ \A c \in Contents : Size(c) \in Nat \ {0} /\ Len(c) \in Nat
  /\ HEADER \in Nat \ {0} /\ SECTOR \in Nat \ {0}
  /\ <<>> \in Contents /\ Missing \notin Contents /\ NoFile \notin Fids
  /\ Static \subseteq Fids
<1> QED BY FlashAssumption DEF Cells, Size

LEMMA AddressNat == \A a \in Address : a \in Nat /\ (a # 0 => a \in Cells)
<1> QED BY FlashAssumption DEF Address, Cells

LEMMA HomeFacts ==
  ASSUME Inv
  PROVE  /\ \A a \in Homes : a \in Cells /\ a < End /\ \E f \in Fids : home[f] = a
         /\ \A f \in Fids : home[f] # 0 => home[f] \in Homes
         /\ \A f, g \in Fids : home[f] # 0 /\ home[f] = home[g] => f = g
<1>1. \A f \in Fids : home[f] # 0 => /\ home[f] \in Cells /\ content[home[f]] \in Contents
                                    /\ home[f] < End
  <2> SUFFICES ASSUME NEW f \in Fids, home[f] # 0
               PROVE  home[f] \in Cells /\ content[home[f]] \in Contents /\ home[f] < End
    OBVIOUS
  <2>1. home[f] \in Cells /\ content[home[f]] \in Contents
    BY DEF Inv, TypeOK, Address
  <2>2. home[f] + Size(content[home[f]]) <= End
    BY DEF Inv, ExtentsSound, Fits
  <2>3. home[f] \in Nat /\ Size(content[home[f]]) \in Nat \ {0} /\ End \in Nat
    BY <2>1, Sizes
  <2> QED BY <2>1, <2>2, <2>3
<1>2. \A f, g \in Fids : home[f] # 0 /\ home[f] = home[g] => f = g
  BY DEF Inv, TableSound
<1> QED BY <1>1, <1>2 DEF Homes

\* Two nodes have different ones after them.
LEMMA OnePrevious ==
  ASSUME Inv, NEW b \in Homes \cup {End}, NEW d \in Homes \cup {End},
         pc # "fill", next[b] = next[d], next[b] # 0
  PROVE  b = d
<1>1. b \in Nat /\ d \in Nat /\ b <= End /\ d <= End
  BY HomeFacts, Sizes
<1>2. IsBelow(next[b], b, Homes) /\ IsBelow(next[d], d, Homes)
  BY DEF Inv, ListIntact, Linked
<1>3. next[b] \in Nat /\ next[b] < b /\ next[b] < d
  BY <1>2, HomeFacts, Sizes DEF IsBelow
<1> QED BY <1>1, <1>2, <1>3, HomeFacts DEF IsBelow
-----------------------------------------------------------------------------
(* The table of dynamic files.                                             *)

LEMMA KnownFacts ==
  ASSUME Inv
  PROVE  /\ IsFiniteSet(known) /\ Cardinality(known) \in Nat
         /\ IsFiniteSet(OnFlash) /\ Cardinality(OnFlash) \in Nat
<1>1. IsFiniteSet(Dynamic)
  BY FlashAssumption, FS_Difference DEF Dynamic
<1>2. known \subseteq Dynamic /\ OnFlash \subseteq Dynamic
  BY DEF Inv, TypeOK, OnFlash
<1> QED BY <1>1, <1>2, FS_Subset, FS_CardinalityType

LEMMA FileNewSound ==
  ASSUME Inv, NEW f \in Fids
  PROVE  /\ FileNew(f, known) \in SUBSET Dynamic
         /\ known \subseteq FileNew(f, known) /\ FileNew(f, known) \subseteq known \cup {f}
         /\ Cardinality(FileNew(f, known)) <= MAX_DYNAMIC_FILES
<1>1. Cardinality(known) <= MAX_DYNAMIC_FILES /\ MAX_DYNAMIC_FILES \in Nat
  BY FlashAssumption DEF Inv, TableSound
<1>2. CASE f \in Static \cup known \/ Cardinality(known) = MAX_DYNAMIC_FILES
  BY <1>1, <1>2 DEF FileNew, Inv, TypeOK
<1>3. CASE f \notin Static \cup known /\ Cardinality(known) # MAX_DYNAMIC_FILES
  <2>1. Cardinality(known \cup {f}) = Cardinality(known) + 1
    BY <1>3, KnownFacts, FS_AddElement
  <2> QED BY <1>1, <1>3, <2>1, KnownFacts DEF FileNew, Inv, TypeOK, Dynamic
<1> QED BY <1>2, <1>3

\* The limit holds for the files on flash, as they all have an entry.
LEMMA OnFlashBounded ==
  ASSUME Inv, OnFlash' \subseteq OnFlash
  PROVE  Cardinality(OnFlash') <= MAX_DYNAMIC_FILES
<1>1. Cardinality(OnFlash) <= MAX_DYNAMIC_FILES /\ MAX_DYNAMIC_FILES \in Nat
  BY FlashAssumption DEF Inv, TableSound
<1>2. Cardinality(OnFlash') <= Cardinality(OnFlash) /\ Cardinality(OnFlash') \in Nat
  BY KnownFacts, FS_Subset, FS_CardinalityType
<1> QED BY <1>1, <1>2, KnownFacts
-----------------------------------------------------------------------------
(* The operations that begin.                                              *)

LEMMA IdleFacts ==
  ASSUME Inv, pc = "idle"
  PROVE  /\ \A f \in Fids : data[f] = home[f]
         /\ \A f \in Dynamic : home[f] # 0 => f \in known
         /\ file = NoFile
<1>1. file = NoFile
  BY DEF Inv, CallSound, InOperation
<1> QED BY <1>1, Sizes DEF Inv, TableSound

\* A shorter content fits where a longer one did.
LEMMA ShorterFits ==
  ASSUME NEW a \in Nat, NEW c \in Contents, NEW d \in Contents, Size(d) <= Size(c),
         Fits(a, c)
  PROVE  Fits(a, d)
<1>1. /\ Size(c) \in Nat /\ Size(d) \in Nat /\ SectorOf(a) \in Nat /\ SECTOR \in Nat
      /\ End \in Nat /\ Len(c) \in Nat /\ Len(d) \in Nat
  BY Sizes, SectorFacts
<1>2. Len(d) <= Len(c)
  BY <1>1, Sizes DEF Size
<1>3. Start <= a /\ a + Size(d) <= End
  BY <1>1 DEF Fits
<1>4. CASE a + Size(c) <= SectorOf(a) + SECTOR
  BY <1>1, <1>3, <1>4 DEF Fits
<1>5. CASE (a + HEADER) % SECTOR = 0 /\ Len(c) <= SECTOR
  BY <1>1, <1>2, <1>3, <1>5 DEF Fits
<1> QED BY <1>4, <1>5 DEF Fits

\* Files that go leave the others where they are.
LEMMA ExtentsKept ==
  ASSUME Inv, pc' \notin {"link", "fill", "spilled"},
         \A f \in Fids : home'[f] # 0 => /\ home'[f] = home[f]
                                        /\ content'[home[f]] = content[home[f]]
  PROVE  ExtentsSound'
<1>1. \A f \in Fids : home'[f] # 0 => Fits(home'[f], content'[home'[f]])
  BY DEF Inv, ExtentsSound
<1>2. \A f, g \in Fids : f # g /\ home'[f] # 0 /\ home'[g] # 0
        => Apart(home'[f], content'[home'[f]], home'[g], content'[home'[g]])
  BY DEF Inv, ExtentsSound
<1> QED BY <1>1, <1>2 DEF ExtentsSound, Fits, Apart, Size, SectorOf

LEMMA OverwriteSound ==
  ASSUME Inv, NEW f \in Fids, NEW c \in Contents, pc = "idle", data[f] # 0,
         f \in Static \cup FileNew(f, known),
         Len(c) <= Len(content[data[f]]), Overwrite(f, c), known' = FileNew(f, known)
  PROVE  Inv'
<1> DEFINE a == home[f]
<1>1. data[f] = a /\ a \in Homes /\ a \in Cells /\ content[a] \in Contents
  <2>1. data[f] = a
    BY IdleFacts
  <2>2. a \in Homes /\ a \in Cells
    BY <2>1, HomeFacts
  <2> QED BY <2>1, <2>2 DEF Inv, TypeOK
<1>2. content' = [content EXCEPT ![a] = c] /\ Size(c) <= Size(content[a])
  BY <1>1, FlashAssumption DEF Overwrite, Size
<1>3. /\ UNCHANGED <<links, fid, data, home, pc, call>>
      /\ Homes' = Homes /\ Linked' = Linked /\ OnFlash' = OnFlash
  BY DEF Overwrite, Homes, Linked, OnFlash, call
<1>4. TypeOK'
  BY <1>1, <1>2, <1>3, FileNewSound DEF Inv, TypeOK, links, call
<1>5. ListIntact' /\ BackLinks'
  BY <1>3 DEF Inv, ListIntact, BackLinks, InRepair, IsBelow, links, call
<1>6. ExtentsSound'
  <2>1. \A g \in Fids : home[g] # 0 =>
          content'[home[g]] = (IF g = f THEN c ELSE content[home[g]])
    BY <1>1, <1>2, HomeFacts DEF Inv, TypeOK
  <2>2. \A g \in Fids : home[g] # 0 => home[g] \in Nat /\ content[home[g]] \in Contents
    BY HomeFacts, Sizes DEF Inv, TypeOK
  <2>3. a \in Nat
    BY <1>1, Sizes
  <2>4. \A g \in Fids : home[g] # 0 => Fits(home[g], content'[home[g]])
    BY <2>1, <2>3, <1>1, <1>2, ShorterFits DEF Inv, ExtentsSound
  <2>5. ASSUME NEW g \in Fids, NEW h \in Fids, g # h, home[g] # 0, home[h] # 0
        PROVE  Apart(home[g], content'[home[g]], home[h], content'[home[h]])
    <3>1. Apart(home[g], content[home[g]], home[h], content[home[h]])
      BY <2>5 DEF Inv, ExtentsSound
    <3>2. /\ home[g] \in Nat /\ home[h] \in Nat
          /\ content[home[g]] \in Contents /\ content[home[h]] \in Contents
      BY <2>2, <2>5
    <3>3. CASE g = f
      <4>1. Apart(a, content[a], home[h], content[home[h]]) /\ Size(c) <= Size(content[a])
        BY <3>1, <3>3, <1>2
      <4>2. Apart(a, c, home[h], content[home[h]])
        BY <4>1, <3>2, <2>3, <1>1, Sizes DEF Apart
      <4> QED BY <4>2, <3>3, <2>1, <2>5
    <3>4. CASE h = f
      <4>1. Apart(home[g], content[home[g]], a, content[a]) /\ Size(c) <= Size(content[a])
        BY <3>1, <3>4, <1>2
      <4>2. Apart(home[g], content[home[g]], a, c)
        BY <4>1, <3>2, <2>3, <1>1, Sizes DEF Apart
      <4> QED BY <4>2, <3>4, <2>1, <2>5
    <3> QED BY <3>1, <3>3, <3>4, <2>1, <2>5
  <2> QED BY <1>3, <2>4, <2>5 DEF ExtentsSound, Fits, Apart, SectorOf, Size
<1>7. TableSound' /\ ScanSound'
  BY <1>3, FileNewSound DEF Inv, TableSound, ScanSound, CallSound, InOperation, links, call, TypeOK
<1>8. CallSound'
  BY <1>3 DEF Inv, CallSound, InOperation, IsBelow, links, call
<1> QED BY <1>4, <1>5, <1>6, <1>7, <1>8 DEF Inv

LEMMA UnlinkSound ==
  ASSUME Inv, NEW f \in Fids, NEW c \in Contents \cup {Missing}, pc = "idle",
         data[f] # 0, f \in Static \cup known, Unlink(f, c), c # Missing => Len(c) <= SECTOR
  PROVE  Inv'
<1> DEFINE a == home[f]
           b == prev[home[f]]
           n == next[home[f]]
<1>1. data[f] = a /\ a \in Homes /\ a \in Cells /\ a < End /\ a \in Nat
  BY IdleFacts, HomeFacts, Sizes
<1>2. b \in Homes \cup {End} /\ next[b] = a /\ b \in Cells /\ b \in Nat
  <2>1. a \in Linked \ InRepair
    BY <1>1, Sizes DEF Linked, InRepair
  <2> QED BY <2>1, HomeFacts, Sizes DEF Inv, BackLinks, Linked
<1>3. IsBelow(n, a, Homes) /\ IsBelow(a, b, Homes) /\ a < b
  <2>1. IsBelow(n, a, Homes) /\ IsBelow(next[b], b, Homes)
    BY <1>1, <1>2 DEF Inv, ListIntact, Linked
  <2> QED BY <2>1, <1>1, <1>2, Sizes DEF IsBelow
<1>4. n \in Address /\ (n # 0 => n \in Homes /\ n \in Cells /\ n < a /\ prev[n] = a)
  <2>1. n # 0 => n \in Homes /\ n < a /\ n \in Cells
    BY <1>3, HomeFacts DEF IsBelow
  <2>2. ASSUME n # 0 PROVE prev[n] = a
    <3>1. n \in Linked \ InRepair /\ n \in Nat
      BY <2>1, <2>2, Sizes DEF Linked, InRepair
    <3>2. prev[n] \in Homes \cup {End} /\ next[prev[n]] = n
      BY <3>1 DEF Inv, BackLinks, Linked
    <3> QED BY <3>2, <2>2, <1>1, OnePrevious
  <2> QED BY <2>1, <2>2 DEF Address
<1>5. /\ next' = [next EXCEPT ![b] = n] /\ home' = [home EXCEPT ![f] = 0]
      /\ file' = f /\ want' = c /\ spot' = a /\ pc' = "wipe"
      /\ UNCHANGED <<prev, nodes, table, base>>
  BY <1>1 DEF Unlink
<1>6. Homes' = Homes \ {a} /\ Linked' = Homes \ {a} /\ InRepair' = {n}
  <2>1. \A g \in Fids : home'[g] = IF g = f THEN 0 ELSE home[g]
    BY <1>5 DEF Inv, TypeOK
  <2>2. Homes' = Homes \ {a}
    BY <2>1, <1>1, HomeFacts DEF Homes
  <2>3. next'[a] = n
    BY <1>5, <1>1, <1>2, <1>3 DEF Inv, TypeOK
  <2> QED BY <2>2, <2>3, <1>5 DEF Linked, InRepair
<1>7. TypeOK'
  BY <1>1, <1>2, <1>4, <1>5 DEF Inv, TypeOK, PC, nodes, table, Address
<1>8. ListIntact'
  <2> SUFFICES ASSUME NEW d \in (Homes \ {a}) \cup {End}
               PROVE  IsBelow(next'[d], d, Homes \ {a})
    BY <1>6 DEF ListIntact, IsBelow
  <2>1. d \in Cells /\ d \in Nat /\ \A h \in Homes : h \in Nat
    BY HomeFacts, Sizes
  <2>2. CASE d = b
    <3>1. next'[d] = n
      BY <2>2, <2>1, <1>5 DEF Inv, TypeOK
    <3>2. n \in Nat /\ (n # 0 => n \in Homes /\ n < a /\ n < b)
      <4>1. n \in Nat /\ a \in Nat /\ b \in Nat /\ a < b
        BY <1>1, <1>2, <1>3, <1>4, AddressNat
      <4>2. n # 0 => n \in Homes /\ n < a
        BY <1>4
      <4> QED BY <4>1, <4>2
    <3>3. ASSUME NEW h \in Homes, h # a, h < b PROVE h <= n
      BY <3>3, <3>2, <2>1, <1>1, <1>3 DEF IsBelow
    <3> QED BY <3>1, <3>2, <3>3, <2>2, <1>1 DEF IsBelow
  <2>3. CASE d # b
    <3>1. next'[d] = next[d] /\ IsBelow(next[d], d, Homes)
      BY <2>3, <2>1, <1>5 DEF Inv, TypeOK, ListIntact, Linked
    <3>2. next[d] # a
      BY <2>3, <1>1, <1>2, OnePrevious, Sizes
    <3> QED BY <3>1, <3>2 DEF IsBelow
  <2> QED BY <2>2, <2>3
<1>9. BackLinks'
  <2> SUFFICES ASSUME NEW d \in Homes \ {a}, d # n
               PROVE  prev[d] \in (Homes \ {a}) \cup {End} /\ next'[prev[d]] = d
    BY <1>5, <1>6 DEF BackLinks
  <2>1. prev[d] \in Homes \cup {End} /\ next[prev[d]] = d
    <3>1. d \in Linked \ InRepair
      BY HomeFacts, Sizes DEF Linked, InRepair
    <3> QED BY <3>1 DEF Inv, BackLinks, Linked
  <2>2. prev[d] # a /\ prev[d] # b
    BY <2>1, <1>2
  <2> QED BY <2>1, <2>2, <1>5, HomeFacts, Sizes DEF Inv, TypeOK
<1>10. ExtentsSound'
  BY <1>5, ExtentsKept DEF Inv, TypeOK, nodes
<1>11. TableSound'
  <2>1. OnFlash' \subseteq OnFlash
    BY <1>5 DEF OnFlash, Dynamic, Inv, TypeOK
  <2> QED BY <2>1, <1>1, <1>5, OnFlashBounded, IdleFacts, Sizes
          DEF Inv, TableSound, nodes, table, TypeOK, Dynamic
<1>12. ScanSound'
  BY <1>5 DEF ScanSound
<1>13. CallSound'
  <2>1. InOperation' /\ file' # NoFile /\ home'[file'] = 0
    BY <1>5, Sizes DEF InOperation, Inv, TypeOK
  <2>2. next'[a] = n /\ next'[b] = n /\ prev' = prev
    BY <1>5, <1>1, <1>2, <1>3 DEF Inv, TypeOK
  <2>3. IsBelow(n, a, Homes \ {a})
    BY <1>3, <1>1, <1>4 DEF IsBelow
  <2>4. b \in (Homes \ {a}) \cup {End}
    BY <1>1, <1>2, <1>3
  <2> QED BY <2>1, <2>2, <2>3, <2>4, <1>1, <1>3, <1>4, <1>5, <1>6 DEF CallSound, IsBelow
<1> QED BY <1>7, <1>8, <1>9, <1>10, <1>11, <1>12, <1>13 DEF Inv

LEMMA LookForPlaceSound ==
  ASSUME Inv, NEW f \in Fids, NEW c \in Contents, pc = "idle", data[f] = 0, Len(c) <= SECTOR,
         f \in Static \cup FileNew(f, known), LookForPlace(f, c), known' = FileNew(f, known)
  PROVE  Inv'
<1>1. /\ file' = f /\ want' = c /\ base' = End /\ pc' = "walk"
      /\ UNCHANGED <<links, nodes, data, home, spot>>
      /\ Homes' = Homes /\ Linked' = Homes /\ Linked = Homes /\ OnFlash' = OnFlash
  BY DEF LookForPlace, Homes, Linked, OnFlash
<1>2. home[f] = 0 /\ file = NoFile
  BY IdleFacts
<1>3. TypeOK'
  BY <1>1, Sizes, FileNewSound DEF Inv, TypeOK, PC, links, nodes, Address
<1>4. ListIntact'
  BY <1>1 DEF Inv, ListIntact, IsBelow, links
<1>5. BackLinks'
  BY <1>1 DEF Inv, BackLinks, InRepair, links
<1>6. ExtentsSound'
  BY <1>1, ExtentsKept DEF nodes
<1>7. TableSound'
  BY <1>1, <1>2, FileNewSound, IdleFacts, Sizes DEF Inv, TableSound, links, nodes, Dynamic
<1>8. ScanSound' /\ CallSound'
  BY <1>1, <1>2, Sizes DEF ScanSound, CallSound, InOperation
<1> QED BY <1>3, <1>4, <1>5, <1>6, <1>7, <1>8 DEF Inv

\* A content longer than a sector is refused, when its file has an entry.
LEMMA RefusedSound ==
  ASSUME Inv, NEW f \in Fids, pc = "idle", known' = FileNew(f, known),
         UNCHANGED <<links, nodes, data, home, pc, call>>
  PROVE  Inv'
<1>1. Homes' = Homes /\ Linked' = Linked /\ OnFlash' = OnFlash
  BY DEF Homes, Linked, OnFlash, call
<1>2. TypeOK' /\ ListIntact' /\ BackLinks'
  BY <1>1, FileNewSound
     DEF Inv, TypeOK, ListIntact, BackLinks, InRepair, IsBelow, links, nodes, call
<1>3. ExtentsSound'
  BY ExtentsKept DEF nodes
<1>4. TableSound' /\ ScanSound' /\ CallSound'
  BY <1>1, FileNewSound, IdleFacts, Sizes
     DEF Inv, TableSound, ScanSound, CallSound, InOperation, links, nodes, call, Dynamic
<1> QED BY <1>2, <1>3, <1>4 DEF Inv

LEMMA DeleteEntrySound ==
  ASSUME Inv, NEW f \in Fids, pc = "idle", data[f] = 0, known' = known \ {f},
         UNCHANGED <<links, nodes, data, home, pc, call>>
  PROVE  Inv'
<1>1. /\ home[f] = 0
      /\ Homes' = Homes /\ Linked' = Linked /\ OnFlash' = OnFlash
  BY IdleFacts DEF Homes, Linked, OnFlash, call
<1>2. TypeOK' /\ ListIntact' /\ BackLinks'
  BY <1>1 DEF Inv, TypeOK, ListIntact, BackLinks, InRepair, IsBelow, links, nodes, call
<1>3. ExtentsSound'
  BY ExtentsKept DEF nodes
<1>4. Cardinality(known') <= MAX_DYNAMIC_FILES
  <2>1. Cardinality(known') <= Cardinality(known) /\ Cardinality(known') \in Nat
    BY KnownFacts, FS_Subset, FS_CardinalityType
  <2> QED BY <2>1, KnownFacts, FlashAssumption DEF Inv, TableSound
<1>5. TableSound' /\ ScanSound' /\ CallSound'
  BY <1>1, <1>4, IdleFacts, Sizes
     DEF Inv, TableSound, ScanSound, CallSound, InOperation, links, nodes, call, Dynamic
<1> QED BY <1>2, <1>3, <1>5 DEF Inv

LEMMA FormatSound ==
  ASSUME Inv, Format
  PROVE  Inv'
<1>1. Homes' = {} /\ Linked' = {} /\ OnFlash' = {} /\ file = NoFile
  BY IdleFacts DEF Format, Homes, Linked, OnFlash, Dynamic
<1>2. /\ next' = Empty(0) /\ prev' = Empty(0) /\ fid' = Empty(NoFile)
      /\ content' = Empty(<<>>) /\ data' = [f \in Fids |-> 0] /\ home' = [f \in Fids |-> 0]
      /\ known' = {} /\ pc = "idle" /\ UNCHANGED <<pc, file, want, base, spot>>
  BY DEF Format, call
<1>3. TypeOK'
  BY <1>2, Sizes DEF Inv, TypeOK, Empty, Address
<1>4. ListIntact' /\ BackLinks'
  BY <1>1, <1>2, Sizes DEF ListIntact, BackLinks, IsBelow, Empty
<1>5. ExtentsSound'
  BY <1>2, ExtentsKept
<1>6. Cardinality({}) = 0 /\ MAX_DYNAMIC_FILES \in Nat
  BY FS_EmptySet, FlashAssumption
<1>7. TableSound'
  BY <1>1, <1>2, <1>6, Sizes DEF TableSound, Dynamic
<1>8. ScanSound' /\ CallSound'
  BY <1>1, <1>2 DEF ScanSound, CallSound, InOperation
<1> QED BY <1>3, <1>4, <1>5, <1>7, <1>8 DEF Inv

LEMMA RescanSound ==
  ASSUME Inv, Rescan
  PROVE  Inv'
<1>1. /\ data' = [f \in Fids |-> 0] /\ known' = {} /\ base' = next[End] /\ pc' = "scan"
      /\ pc = "idle" /\ UNCHANGED <<links, nodes, home, file, want, spot>>
      /\ Homes' = Homes /\ Linked' = Homes /\ Linked = Homes /\ OnFlash' = OnFlash
      /\ file = NoFile
  BY IdleFacts DEF Rescan, Homes, Linked, OnFlash
<1>2. TypeOK'
  <2>1. next[End] \in Address
    BY Sizes DEF Inv, TypeOK
  <2> QED BY <1>1, <2>1 DEF Inv, TypeOK, PC, links, nodes, Address
<1>3. ListIntact' /\ BackLinks'
  BY <1>1 DEF Inv, ListIntact, BackLinks, InRepair, IsBelow, links
<1>4. ExtentsSound'
  BY <1>1, ExtentsKept DEF nodes
<1>5. IsBelow(next[End], End, Homes)
  BY <1>1 DEF Inv, ListIntact
<1>6. Cardinality({}) = 0 /\ MAX_DYNAMIC_FILES \in Nat
  BY FS_EmptySet, FlashAssumption
<1>7. TableSound' /\ CallSound'
  BY <1>1, <1>6 DEF Inv, TableSound, CallSound, InOperation, nodes, Dynamic
<1>8. \A f \in Fids : home[f] <= next[End]
  <2> SUFFICES ASSUME NEW f \in Fids PROVE home[f] <= next[End]
    OBVIOUS
  <2>1. next[End] \in Nat /\ home[f] \in Nat
    BY Sizes, AddressNat DEF Inv, TypeOK
  <2>2. home[f] # 0 => home[f] \in Homes /\ home[f] < End
    BY HomeFacts
  <2> QED BY <2>1, <2>2, <1>5 DEF IsBelow
<1>9. ScanSound'
  BY <1>1, <1>5, <1>8 DEF ScanSound, IsBelow, Dynamic
<1> QED BY <1>2, <1>3, <1>4, <1>7, <1>9 DEF Inv
-----------------------------------------------------------------------------
(* The steps of an operation.                                              *)

LEMMA WipeSound ==
  ASSUME Inv, Wipe
  PROVE  Inv'
<1> DEFINE n == next[spot]
           b == prev[spot]
<1>1. /\ pc = "wipe" /\ spot \in Cells /\ spot \notin Homes /\ spot # End /\ spot # 0
      /\ IsBelow(n, spot, Homes) /\ b \in Homes \cup {End} /\ next[b] = n
      /\ file \in Fids /\ home[file] = 0
  BY Sizes DEF Wipe, Inv, CallSound, InOperation, TypeOK
<1>2. n # 0 => n \in Homes /\ n # spot
  BY <1>1 DEF IsBelow
<1>3. /\ content' = [content EXCEPT ![spot] = <<>>] /\ fid' = [fid EXCEPT ![spot] = NoFile]
      /\ prev' = [a \in Cells |-> IF a = spot THEN 0 ELSE IF a = n THEN b ELSE prev[a]]
      /\ next' = [next EXCEPT ![spot] = 0] /\ data' = [data EXCEPT ![file] = 0]
      /\ UNCHANGED home
  BY DEF Wipe
<1>4. Homes' = Homes /\ Linked = Homes /\ OnFlash' = OnFlash
  BY <1>1, <1>3 DEF Homes, Linked, OnFlash
<1>5. \/ /\ want = Missing /\ pc' = "idle" /\ known' = known \ {file}
         /\ file' = NoFile /\ want' = Missing /\ base' = 0 /\ spot' = 0
      \/ /\ want # Missing /\ pc' = "walk" /\ base' = End /\ spot' = 0
         /\ UNCHANGED <<known, file, want>>
  BY DEF Wipe, AfterWipe, Return
<1>6. Linked' = Homes /\ InRepair' = {} /\ InRepair = {n}
  BY <1>1, <1>4, <1>5 DEF Linked, InRepair
<1>7. TypeOK'
  <2>1. next' \in [Cells -> Address] /\ fid' \in [Cells -> Fids \cup {NoFile}]
        /\ content' \in [Cells -> Contents] /\ data' \in [Fids -> Address]
    BY <1>3, Sizes DEF Inv, TypeOK, Address
  <2>2. prev' \in [Cells -> Address]
    BY <1>1, <1>3 DEF Inv, TypeOK, Address
  <2> QED BY <2>1, <2>2, <1>3, <1>5, Sizes DEF Inv, TypeOK, PC, Address
<1>8. ListIntact'
  <2>1. \A d \in Homes \cup {End} : next'[d] = next[d]
    BY <1>1, <1>3, HomeFacts, Sizes DEF Inv, TypeOK
  <2> QED BY <2>1, <1>4, <1>6 DEF Inv, ListIntact, IsBelow
<1>9. BackLinks'
  <2> SUFFICES ASSUME NEW d \in Homes
               PROVE  prev'[d] \in Homes \cup {End} /\ next'[prev'[d]] = d
    BY <1>6 DEF BackLinks
  <2>1. d \in Cells /\ d # spot
    BY <1>1, HomeFacts
  <2>2. CASE d = n
    BY <2>1, <2>2, <1>1, <1>3, HomeFacts, Sizes DEF Inv, TypeOK
  <2>3. CASE d # n
    <3>1. prev[d] \in Homes \cup {End} /\ next[prev[d]] = d
      BY <2>3, <1>4, <1>6 DEF Inv, BackLinks
    <3> QED BY <3>1, <2>1, <2>3, <1>1, <1>3, HomeFacts, Sizes DEF Inv, TypeOK
  <2> QED BY <2>2, <2>3
<1>10. \A f \in Fids : home[f] # 0 => home[f] # spot /\ home[f] \in Cells
  BY <1>1, HomeFacts
<1>11. ExtentsSound'
  BY <1>3, <1>5, <1>10, ExtentsKept DEF Inv, TypeOK
<1>12. Cardinality(known') <= MAX_DYNAMIC_FILES
  <2>1. Cardinality(known') <= Cardinality(known) /\ Cardinality(known') \in Nat
    BY <1>5, KnownFacts, FS_Subset, FS_CardinalityType
  <2> QED BY <2>1, KnownFacts, FlashAssumption DEF Inv, TableSound
<1>13. TableSound'
  <2>1. \A f \in Fids : home[f] # 0 => fid'[home[f]] = f
    BY <1>3, <1>10 DEF Inv, TypeOK, TableSound
  <2>2. \A g \in Fids : data'[g] = IF g = file THEN 0 ELSE home[g]
    BY <1>1, <1>3 DEF Inv, TypeOK, TableSound
  <2>3. \A f \in Dynamic : home[f] # 0 \/ f = file => f \in known
    BY <1>1 DEF Inv, TableSound
  <2>4. Cardinality(OnFlash') <= MAX_DYNAMIC_FILES
    BY <1>4 DEF Inv, TableSound
  <2> QED BY <2>1, <2>2, <2>3, <2>4, <1>1, <1>3, <1>5, <1>12, Sizes DEF TableSound, Dynamic
<1>14. ScanSound' /\ CallSound'
  BY <1>1, <1>3, <1>4, <1>5, Sizes DEF ScanSound, CallSound, InOperation, Inv, TypeOK
<1> QED BY <1>7, <1>8, <1>9, <1>11, <1>13, <1>14 DEF Inv

LEMMA WalkOnSound ==
  ASSUME Inv, pc = "walk", next[base] # 0, base' = next[base],
         UNCHANGED <<links, nodes, table, home, pc, file, want, spot>>
  PROVE  Inv'
<1>1. Homes' = Homes /\ Linked' = Homes /\ Linked = Homes /\ OnFlash' = OnFlash
  BY DEF Homes, Linked, OnFlash
<1>2. base \in Homes \cup {End}
  BY DEF Inv, CallSound
<1>3. next[base] \in Homes
  BY <1>1, <1>2 DEF Inv, ListIntact, IsBelow
<1>4. next[base] \in Address
  BY <1>3, HomeFacts DEF Address
<1>5. TypeOK' /\ ListIntact' /\ BackLinks'
  BY <1>1, <1>4 DEF Inv, TypeOK, ListIntact, BackLinks, InRepair, IsBelow, links, nodes, table
<1>6. ExtentsSound'
  BY ExtentsKept DEF nodes
<1>7. TableSound' /\ ScanSound' /\ CallSound'
  BY <1>1, <1>3 DEF Inv, TableSound, ScanSound, CallSound, InOperation, links, nodes, table
<1> QED BY <1>5, <1>6, <1>7 DEF Inv

\* Only a content that does not fit in a sector with its header spills.
LEMMA SpillSound ==
  ASSUME Inv, pc = "walk", PlaceAtEnd # 0, Spills(PlaceAtEnd), pc' = "spilled",
         UNCHANGED <<links, nodes, table, home, call>>
  PROVE  Inv'
<1>1. /\ Homes' = Homes /\ Linked' = Homes /\ Linked = Homes /\ OnFlash' = OnFlash
      /\ InRepair' = {} /\ InRepair = {}
  BY DEF Homes, Linked, OnFlash, InRepair
<1>2. base \in Homes \cup {End} /\ want \in Contents /\ base \in Nat /\ Start <= base
  <2>1. base \in Homes \cup {End} /\ want \in Contents
    BY DEF Inv, CallSound
  <2> QED BY <2>1, HomeFacts, Sizes
<1>3. /\ RealSize = HEADER + Len(want) /\ HEADER \in Nat /\ Len(want) \in Nat
      /\ SECTOR \in Nat /\ Start \in Nat /\ SectorOf(base) \in Nat /\ Start <= SectorOf(base)
  BY <1>2, Sizes, SectorFacts DEF RealSize
<1>4. HEADER + Len(want) > SECTOR
  <2>1. CASE PlaceAtEnd < Start
    <3>1. CASE SectorOf(base) <= base - RealSize
      BY <2>1, <3>1, <1>2, <1>3 DEF PlaceAtEnd
    <3>2. CASE ~(SectorOf(base) <= base - RealSize)
      <4>1. SectorOf(base) - SECTOR >= Start /\ PlaceAtEnd = SectorOf(base) - RealSize
        BY <3>2 DEF PlaceAtEnd
      <4> QED BY <4>1, <2>1, <1>3
    <3> QED BY <3>1, <3>2
  <2>2. CASE SECTOR - HEADER < Len(want)
    BY <2>2, <1>3
  <2> QED BY <2>1, <2>2 DEF Spills
<1>5. TypeOK' /\ ListIntact' /\ BackLinks'
  BY <1>1 DEF Inv, TypeOK, ListIntact, BackLinks, IsBelow, links, nodes, table, call, PC
<1>6. ExtentsSound'
  BY <1>4 DEF Inv, ExtentsSound, nodes, call, Fits, Apart, Size, SectorOf
<1>7. TableSound' /\ ScanSound' /\ CallSound'
  BY <1>1 DEF Inv, TableSound, ScanSound, CallSound, InOperation, links, nodes, table, call
<1> QED BY <1>5, <1>6, <1>7 DEF Inv

LEMMA NoRoomSound ==
  ASSUME Inv, pc = "walk", Return, UNCHANGED <<links, nodes, table, home>>
  PROVE  Inv'
<1>1. /\ Homes' = Homes /\ Linked' = Homes /\ Linked = Homes /\ OnFlash' = OnFlash
      /\ file \in Fids /\ home[file] = 0 /\ data[file] = 0
      /\ pc' = "idle" /\ file' = NoFile /\ want' = Missing /\ base' = 0 /\ spot' = 0
  BY DEF Homes, Linked, OnFlash, Return, Inv, CallSound, InOperation, TypeOK, TableSound
<1>2. TypeOK' /\ ListIntact' /\ BackLinks'
  BY <1>1 DEF Inv, TypeOK, ListIntact, BackLinks, InRepair, IsBelow, links, nodes, table,
              PC, Address
<1>3. ExtentsSound'
  BY <1>1, ExtentsKept DEF nodes
<1>4. TableSound'
  BY <1>1, Sizes DEF Inv, TableSound, nodes, table, Dynamic
<1>5. ScanSound' /\ CallSound'
  BY <1>1 DEF ScanSound, CallSound, InOperation
<1> QED BY <1>2, <1>3, <1>4, <1>5 DEF Inv

\* A place below base, with no node in between and room for what is wanted.
LEMMA PrepareSound ==
  ASSUME Inv, pc = "walk", NEW p \in Cells, p \notin Homes, p < base,
         \A h \in Homes : h < base => h < p,
         Fits(p, want),
         \A f \in Fids : home[f] # 0 => Apart(home[f], content[home[f]], p, want),
         Prepare(p)
  PROVE  Inv'
<1> DEFINE n == next[base]
<1>1. /\ base \in Homes \cup {End} /\ base \in Cells /\ base <= End /\ base \in Nat
      /\ want \in Contents /\ Len(want) <= SECTOR
      /\ file \in Fids /\ home[file] = 0 /\ data[file] = 0
  <2>1. base \in Homes \cup {End} /\ want \in Contents /\ Len(want) <= SECTOR
        /\ file \in Fids /\ home[file] = 0 /\ data[file] = 0
    BY DEF Inv, CallSound, InOperation, TypeOK, TableSound
  <2> QED BY <2>1, HomeFacts, Sizes
<1>2. p \in Nat /\ p # End /\ p # 0 /\ p # base /\ p < End
  <2>1. p \in Nat /\ p # 0 /\ End \in Nat
    BY Sizes
  <2> QED BY <2>1, <1>1
<1>3. /\ spot' = p /\ next' = [next EXCEPT ![p] = n]
      /\ prev' = [a \in Cells |-> IF a = p THEN base ELSE IF a = n THEN p ELSE prev[a]]
      /\ pc' = "link"
      /\ UNCHANGED <<nodes, table, home, file, want, base>>
  BY DEF Prepare
<1>4. Homes' = Homes /\ Linked = Homes /\ Linked' = Homes /\ InRepair = {} /\ OnFlash' = OnFlash
  BY <1>3 DEF Homes, Linked, InRepair, OnFlash
<1>5. IsBelow(n, base, Homes)
  BY <1>1, <1>4 DEF Inv, ListIntact
<1>6. n \in Address /\ n \in Nat /\ (n # 0 => n \in Homes /\ n \in Cells /\ n < p)
  <2>1. n \in Address
    BY <1>1 DEF Inv, TypeOK
  <2>2. n # 0 => n \in Homes /\ n < base
    BY <1>5 DEF IsBelow
  <2> QED BY <2>1, <2>2, AddressNat
<1>7. next'[p] = n /\ prev'[p] = base /\ \A d \in Homes \cup {End} : next'[d] = next[d]
  BY <1>2, <1>3, HomeFacts, Sizes DEF Inv, TypeOK
<1>8. TypeOK'
  <2>1. next' \in [Cells -> Address] /\ prev' \in [Cells -> Address] /\ p \in Address
    BY <1>1, <1>3, <1>6 DEF Inv, TypeOK, Address
  <2> QED BY <2>1, <1>3 DEF Inv, TypeOK, PC, nodes, table
<1>9. ListIntact'
  BY <1>4, <1>7 DEF Inv, ListIntact, IsBelow
<1>10. BackLinks'
  <2>1. InRepair' = {n}
    BY <1>3, <1>7 DEF InRepair
  <2> SUFFICES ASSUME NEW d \in Homes, d # n
               PROVE  prev'[d] \in Homes \cup {End} /\ next'[prev'[d]] = d
    BY <1>4, <2>1 DEF BackLinks
  <2>2. prev[d] \in Homes \cup {End} /\ next[prev[d]] = d
    BY <1>4 DEF Inv, BackLinks
  <2>3. prev'[d] = prev[d]
    BY <1>3, HomeFacts
  <2> QED BY <2>2, <2>3, <1>7
<1>11. ExtentsSound'
  BY <1>3 DEF Inv, ExtentsSound, nodes, Fits, Apart, Size, SectorOf
<1>12. TableSound' /\ ScanSound'
  BY <1>1, <1>3, <1>4 DEF Inv, TableSound, ScanSound, nodes, table
<1>13. IsBelow(n, p, Homes)
  <2>1. \A h \in Homes : h < p => h <= n
    BY <1>1, <1>2, <1>5, HomeFacts, Sizes DEF IsBelow
  <2> QED BY <2>1, <1>6 DEF IsBelow
<1>14. n # 0 => prev'[n] = p
  BY <1>3, <1>6
<1>15. CallSound'
  BY <1>1, <1>2, <1>3, <1>4, <1>7, <1>13, <1>14, Sizes DEF CallSound, InOperation, IsBelow
<1> QED BY <1>8, <1>9, <1>10, <1>11, <1>12, <1>15 DEF Inv

\* Two nodes in their order are apart.
LEMMA InOrder ==
  ASSUME Inv, NEW f \in Fids, NEW g \in Fids, home[f] # 0, home[g] # 0, home[f] < home[g]
  PROVE  home[f] + Size(content[home[f]]) <= home[g]
<1>1. /\ home[f] \in Nat /\ home[g] \in Nat
      /\ Size(content[home[f]]) \in Nat /\ Size(content[home[g]]) \in Nat \ {0}
  BY HomeFacts, Sizes DEF Inv, TypeOK
<1>2. Apart(home[f], content[home[f]], home[g], content[home[g]])
  BY <1>1 DEF Inv, ExtentsSound
<1> QED BY <1>1, <1>2 DEF Apart

LEMMA GapSound ==
  ASSUME Inv, pc = "walk", next[base] # 0, FitsInGap, Prepare(base - RealSize)
  PROVE  Inv'
<1> DEFINE p == base - RealSize
           n == next[base]
<1>1. base \in Homes \cup {End} /\ want \in Contents /\ base \in Nat /\ base <= End
  <2>1. base \in Homes \cup {End} /\ want \in Contents
    BY DEF Inv, CallSound
  <2> QED BY <2>1, HomeFacts, Sizes
<1>2. RealSize = Size(want) /\ RealSize \in Nat \ {0}
  BY <1>1, Sizes DEF RealSize, Size
<1>3. n \in Homes /\ n \in Nat /\ Start <= n /\ \A h \in Homes : h < base => h <= n
  <2>1. IsBelow(n, base, Homes)
    BY <1>1 DEF Inv, ListIntact, Linked
  <2>2. n \in Homes /\ \A h \in Homes : h < base => h <= n
    BY <2>1 DEF IsBelow
  <2> QED BY <2>2, HomeFacts, Sizes
<1>4. PICK g \in Fids : home[g] = n
  BY <1>3, HomeFacts
<1>5. content[n] \in Contents /\ Size(content[n]) \in Nat \ {0}
  BY <1>3, HomeFacts, Sizes DEF Inv, TypeOK
<1>6. SectorOf(base) <= p /\ n + Size(content[n]) < p
  <2>1. SectorOf(base) <= p /\ n + Len(content[n]) + HEADER < p
    BY DEF FitsInGap
  <2>2. Len(content[n]) \in Nat /\ HEADER \in Nat
    BY <1>5, Sizes DEF Inv, TypeOK
  <2>3. p \in Int
    BY <1>1, <1>2
  <2> QED BY <2>1, <2>2, <2>3, <1>3 DEF Size
<1>7. p \in Nat /\ n < p /\ p < base /\ Start <= p /\ p + RealSize = base
  BY <1>1, <1>2, <1>3, <1>5, <1>6, Sizes
<1>8. p \in Cells /\ p \notin Homes
  BY <1>1, <1>3, <1>7, HomeFacts, Sizes DEF Cells
<1>9. Fits(p, want)
  <2>1. SectorOf(p) = SectorOf(base)
    BY <1>1, <1>2, <1>6, SameSector
  <2>2. base < SectorOf(base) + SECTOR /\ SectorOf(base) \in Nat /\ SECTOR \in Nat
    BY <1>1, SectorFacts, FlashAssumption
  <2> QED BY <2>1, <2>2, <1>1, <1>2, <1>7 DEF Fits
<1>10. ASSUME NEW f \in Fids, home[f] # 0
       PROVE  Apart(home[f], content[home[f]], p, want)
  <2>1. home[f] \in Homes /\ home[f] \in Nat /\ Size(content[home[f]]) \in Nat
    BY <1>10, HomeFacts, Sizes DEF Inv, TypeOK
  <2>2. CASE home[f] >= base
    BY <2>1, <2>2, <1>1, <1>2, <1>7 DEF Apart
  <2>3. CASE home[f] < base
    <3>1. home[f] <= n
      BY <2>1, <2>3, <1>3
    <3>2. CASE home[f] = n
      BY <3>2, <2>1, <1>3, <1>5, <1>6, <1>7 DEF Apart
    <3>3. CASE home[f] < n
      <4>1. home[f] + Size(content[home[f]]) <= n
        BY <3>3, <1>3, <1>4, <1>10, InOrder, Sizes
      <4> QED BY <4>1, <2>1, <1>3, <1>7 DEF Apart
    <3> QED BY <3>1, <3>2, <3>3, <2>1, <1>3
  <2> QED BY <2>1, <2>2, <2>3, <1>1
<1>11. ASSUME NEW h \in Homes, h < base PROVE h < p
  <2>1. h <= n /\ h \in Nat
    BY <1>3, <1>11, HomeFacts, Sizes
  <2> QED BY <2>1, <1>3, <1>7
<1> QED BY <1>7, <1>8, <1>9, <1>10, <1>11, PrepareSound

LEMMA EndSound ==
  ASSUME Inv, pc = "walk", next[base] = 0, PlaceAtEnd # 0, ~Spills(PlaceAtEnd),
         Prepare(PlaceAtEnd)
  PROVE  Inv'
<1> DEFINE p == PlaceAtEnd
<1>1. base \in Homes \cup {End} /\ want \in Contents /\ base \in Nat /\ base <= End
      /\ Start <= base /\ Len(want) <= SECTOR
  <2>1. base \in Homes \cup {End} /\ want \in Contents /\ Len(want) <= SECTOR
    BY DEF Inv, CallSound
  <2> QED BY <2>1, HomeFacts, Sizes
<1>2. /\ RealSize = Size(want) /\ RealSize \in Nat \ {0} /\ RealSize = HEADER + Len(want)
      /\ HEADER \in Nat /\ Len(want) \in Nat
      /\ SECTOR \in Nat \ {0} /\ Start \in Nat \ {0} /\ End \in Nat
  BY <1>1, Sizes DEF RealSize, Size
<1>3. /\ SectorOf(base) \in Nat /\ SectorOf(base) <= base /\ base < SectorOf(base) + SECTOR
      /\ Start <= SectorOf(base)
  BY <1>1, SectorFacts
<1>4. \A h \in Homes : h \in Nat /\ base <= h
  <2>1. IsBelow(0, base, Homes)
    BY <1>1 DEF Inv, ListIntact, Linked
  <2> QED BY <2>1, <1>1, HomeFacts, Sizes DEF IsBelow
<1>5. \/ SectorOf(base) <= base - RealSize /\ p = base - RealSize
      \/ SectorOf(base) - SECTOR >= Start /\ p = SectorOf(base) - RealSize
  BY DEF PlaceAtEnd
<1>6. /\ p \in Nat /\ Start <= p /\ p < base /\ p + RealSize <= base
      /\ \/ p + RealSize <= SectorOf(p) + SECTOR
         \/ (p + HEADER) % SECTOR = 0 /\ Len(want) <= SECTOR
  <2>1. CASE SectorOf(base) <= base - RealSize /\ p = base - RealSize
    <3>1. SectorOf(p) = SectorOf(base)
      BY <2>1, <1>1, <1>2, SameSector
    <3> QED BY <2>1, <3>1, <1>1, <1>2, <1>3
  <2>2. CASE /\ SectorOf(base) - SECTOR >= Start /\ p = SectorOf(base) - RealSize
             /\ RealSize <= SECTOR
    <3>1. SectorOf(SectorOf(base) - RealSize) = SectorOf(base) - SECTOR
      <4>1. SectorOf(base) >= SECTOR
        BY <2>2, <1>2, <1>3
      <4> QED BY <4>1, <2>2, <1>1, <1>2, SectorBefore
    <3>2. p \in Nat /\ Start <= p /\ p < base /\ p + RealSize <= base
      <4>1. /\ SectorOf(base) \in Nat /\ SectorOf(base) <= base /\ RealSize \in Nat \ {0}
            /\ RealSize <= SECTOR /\ SECTOR \in Nat /\ Start \in Nat /\ base \in Nat
            /\ SectorOf(base) - SECTOR >= Start
        BY <2>2, <1>1, <1>2, <1>3
      <4>2. p = SectorOf(base) - RealSize
        BY <2>2
      <4> HIDE DEF p
      <4>3. p + RealSize = SectorOf(base) /\ p \in Int
        BY <4>1, <4>2
      <4> QED BY <4>1, <4>3
    <3>3. p + RealSize <= SectorOf(p) + SECTOR
      <4>1. SectorOf(p) = SectorOf(base) - SECTOR
        BY <2>2, <3>1
      <4> HIDE DEF p
      <4> QED BY <4>1, <2>2, <1>2, <1>3
    <3> QED BY <3>2, <3>3
  <2>3. CASE /\ SectorOf(base) - SECTOR >= Start /\ p = SectorOf(base) - RealSize
             /\ RealSize > SECTOR
    <3>1. Start <= p /\ Len(want) >= SECTOR
      BY <2>3, <1>1, <1>2, <1>3 DEF Spills
    <3>2. p \in Nat /\ p < base /\ p + RealSize <= base
      <4>1. /\ SectorOf(base) \in Nat /\ SectorOf(base) <= base /\ RealSize \in Nat \ {0}
            /\ Start \in Nat /\ base \in Nat /\ p = SectorOf(base) - RealSize /\ Start <= p
        BY <2>3, <3>1, <1>1, <1>2, <1>3
      <4> HIDE DEF p
      <4>2. p + RealSize = SectorOf(base) /\ p \in Int
        BY <4>1
      <4> QED BY <4>1, <4>2
    <3>3. Len(want) = SECTOR
      BY <3>1, <1>1, <1>2
    <3>4. p + HEADER = SectorOf(base) - SECTOR
      BY <2>3, <3>3, <1>2, <1>3
    <3>5. SectorOf(base) - SECTOR \in Nat /\ (SectorOf(base) - SECTOR) % SECTOR = 0
      BY <2>3, <1>1, <1>2, <1>3, SectorMultiple
    <3> QED BY <3>1, <3>2, <3>3, <3>4, <3>5, <1>2
  <2> QED BY <1>5, <1>2, <2>1, <2>2, <2>3
<1> HIDE DEF p
<1>7. p \in Cells /\ p \notin Homes
  BY <1>1, <1>2, <1>4, <1>6 DEF Cells
<1>8. Fits(p, want)
  BY <1>1, <1>2, <1>6 DEF Fits
<1>9. ASSUME NEW f \in Fids, home[f] # 0
      PROVE  Apart(home[f], content[home[f]], p, want)
  <2>1. home[f] \in Homes
    BY <1>9, HomeFacts
  <2>2. home[f] \in Nat /\ base <= home[f]
    BY <2>1, <1>4
  <2> QED BY <2>2, <1>1, <1>2, <1>6 DEF Apart
<1>10. ASSUME NEW h \in Homes, h < base PROVE h < p
  <2>1. h \in Nat /\ base <= h
    BY <1>4
  <2> QED BY <2>1, <1>1, <1>10
<1>11. Prepare(p)
  BY DEF p
<1> QED BY <1>6, <1>7, <1>8, <1>9, <1>10, <1>11, PrepareSound

\* The new node goes between base and the one after it.
LEMMA LinkSound ==
  ASSUME Inv, Link
  PROVE  Inv'
<1> DEFINE n == next[spot]
<1>1. /\ pc = "link" /\ spot \in Cells /\ spot \notin Homes /\ spot < End /\ spot < base
      /\ base \in Homes \cup {End} /\ prev[spot] = base /\ next[base] = n
      /\ IsBelow(n, spot, Homes) /\ (n # 0 => prev[n] = spot)
      /\ want \in Contents /\ file \in Fids /\ home[file] = 0
  BY DEF Link, Inv, CallSound, InOperation, TypeOK
<1>2. base \in Cells /\ base \in Nat /\ spot \in Nat /\ spot # 0 /\ spot # base /\ spot # End
  <2>1. base \in Cells /\ base \in Nat /\ spot \in Nat /\ spot # 0 /\ End \in Nat
    BY <1>1, HomeFacts, Sizes
  <2> QED BY <2>1, <1>1
<1>3. /\ next' = [next EXCEPT ![base] = spot] /\ data' = [data EXCEPT ![file] = spot]
      /\ pc' = "fill" /\ UNCHANGED <<prev, nodes, known, home, call>>
  BY DEF Link
<1>4. Homes' = Homes /\ Linked = Homes /\ Linked' = Homes \cup {spot} /\ InRepair = {n}
      /\ InRepair' = {} /\ OnFlash' = OnFlash
  BY <1>1, <1>3 DEF Homes, Linked, InRepair, OnFlash, call
<1>5. /\ next'[base] = spot /\ next'[spot] = n
      /\ \A d \in Homes \cup {End} : d # base => next'[d] = next[d]
  BY <1>1, <1>2, <1>3, HomeFacts, Sizes DEF Inv, TypeOK
<1>6. IsBelow(n, base, Homes)
  BY <1>1, <1>4 DEF Inv, ListIntact
<1>7. TypeOK'
  BY <1>1, <1>2, <1>3 DEF Inv, TypeOK, PC, nodes, call, Address
<1>8. ListIntact'
  <2> SUFFICES ASSUME NEW d \in (Homes \cup {spot}) \cup {End}
               PROVE  IsBelow(next'[d], d, Homes \cup {spot})
    BY <1>4 DEF ListIntact, IsBelow
  <2>1. \A h \in Homes : h \in Nat
    BY HomeFacts, Sizes
  <2>2. n \in Nat /\ (n # 0 => n \in Homes /\ n < spot)
    <3>1. n \in Address
      BY <1>1 DEF Inv, TypeOK
    <3> QED BY <3>1, <1>1, AddressNat DEF IsBelow
  <2>3. CASE d = base
    <3>1. ASSUME NEW h \in Homes, h < base PROVE h <= spot
      <4>1. h <= n
        BY <3>1, <1>6 DEF IsBelow
      <4>2. h \in Nat
        BY <2>1
      <4>3. CASE n = 0
        BY <4>1, <4>2, <4>3, <1>2
      <4>4. CASE n # 0
        <5>1. n < spot
          BY <4>4, <2>2
        <5> QED BY <4>1, <4>2, <5>1, <2>2, <1>2
      <4> QED BY <4>3, <4>4
    <3>2. spot < base /\ spot <= spot
      BY <1>1, <1>2
    <3> QED BY <2>3, <1>5, <3>1, <3>2 DEF IsBelow
  <2>4. CASE d = spot
    <3>1. ~(spot < spot)
      BY <1>2
    <3> QED BY <2>4, <3>1, <1>1, <1>5 DEF IsBelow
  <2>5. CASE d # base /\ d # spot
    <3>1. d \in Homes \cup {End} /\ next'[d] = next[d] /\ IsBelow(next[d], d, Homes)
      BY <2>5, <1>4, <1>5 DEF Inv, ListIntact
    <3>2. d \in Nat /\ next[d] \in Nat
      <4>1. d \in Cells
        BY <3>1, HomeFacts, Sizes
      <4>2. next[d] \in Address
        BY <4>1 DEF Inv, TypeOK
      <4> QED BY <4>1, <4>2, AddressNat, Sizes
    <3>3. spot < d => spot <= next[d]
      <4> SUFFICES ASSUME spot < d PROVE spot <= next[d]
        OBVIOUS
      <4>1. CASE base \in Homes /\ base < d
        <5>1. base <= next[d]
          BY <4>1, <3>1 DEF IsBelow
        <5> QED BY <5>1, <1>1, <1>2, <3>2
      <4>2. CASE d < base
        <5>1. d \in Homes
          <6>1. d # End
            <7>1. base <= End /\ End \in Nat
              BY <1>1, <1>2, Sizes
            <7> QED BY <7>1, <4>2, <1>2, <3>2
          <6> QED BY <6>1, <3>1
        <5>2. d <= n
          BY <5>1, <4>2, <1>6 DEF IsBelow
        <5>3. n # 0
          <6>1. d # 0
            BY <5>1, HomeFacts, Sizes
          <6> QED BY <6>1, <5>2, <3>2, <2>2
        <5> QED BY <5>2, <5>3, <2>2, <3>2, <1>2
      <4>3. base = End => d <= base
        BY <3>1, HomeFacts, Sizes
      <4> QED BY <4>1, <4>2, <4>3, <1>1, <1>2, <2>5, <3>2
    <3> QED BY <3>1, <3>3 DEF IsBelow
  <2> QED BY <2>3, <2>4, <2>5
<1>9. BackLinks'
  <2> SUFFICES ASSUME NEW d \in Homes \cup {spot}
               PROVE  prev[d] \in Homes \cup {spot, End} /\ next'[prev[d]] = d
    BY <1>3, <1>4 DEF BackLinks
  <2>1. CASE d = spot
    BY <2>1, <1>1, <1>5
  <2>2. CASE d # spot /\ d = n
    <3>1. n # 0
      BY <2>2, HomeFacts, Sizes
    <3> QED BY <3>1, <2>2, <1>1, <1>5
  <2>3. CASE d # spot /\ d # n
    <3>1. prev[d] \in Homes \cup {End} /\ next[prev[d]] = d
      BY <2>3, <1>4 DEF Inv, BackLinks
    <3>2. prev[d] # base
      BY <3>1, <2>3, <1>1
    <3> QED BY <3>1, <3>2, <1>5
  <2> QED BY <2>1, <2>2, <2>3
<1>10. ExtentsSound'
  BY <1>1, <1>3 DEF Inv, ExtentsSound, nodes, call, Fits, Apart, Size, SectorOf
<1>11. TableSound' /\ ScanSound'
  <2>1. \A g \in Fids : data'[g] = IF g = file THEN spot ELSE data[g]
    BY <1>3 DEF Inv, TypeOK
  <2> QED BY <2>1, <1>1, <1>3, <1>4 DEF Inv, TableSound, ScanSound, nodes, call
<1>12. CallSound'
  BY <1>1, <1>3, <1>4 DEF Inv, CallSound, InOperation, call
<1> QED BY <1>7, <1>8, <1>9, <1>10, <1>11, <1>12 DEF Inv

LEMMA FillSound ==
  ASSUME Inv, Fill
  PROVE  Inv'
<1>1. /\ pc = "fill" /\ spot \in Cells /\ spot \notin Homes /\ spot # 0
      /\ want \in Contents /\ file \in Fids /\ home[file] = 0 /\ data[file] = spot
  BY Sizes DEF Fill, Inv, CallSound, TableSound, InOperation, TypeOK
<1>2. /\ fid' = [fid EXCEPT ![spot] = file] /\ content' = [content EXCEPT ![spot] = want]
      /\ home' = [home EXCEPT ![file] = spot] /\ UNCHANGED <<links, table>>
      /\ pc' = "idle" /\ file' = NoFile /\ want' = Missing /\ base' = 0 /\ spot' = 0
  BY DEF Fill, Return
<1>3. \A g \in Fids : home'[g] = IF g = file THEN spot ELSE home[g]
  BY <1>2 DEF Inv, TypeOK
<1>4. \A g \in Fids : home[g] # spot
  BY <1>1, HomeFacts
<1>5. \A g \in Fids : home'[g] # 0 =>
        /\ content'[home'[g]] = IF g = file THEN want ELSE content[home[g]]
        /\ fid'[home'[g]] = g
  <2>1. \A g \in Fids : home[g] # 0 => home[g] \in Cells
    BY HomeFacts
  <2> QED BY <2>1, <1>1, <1>2, <1>3, <1>4 DEF Inv, TypeOK, TableSound
<1>6. Homes' = Homes \cup {spot}
  BY <1>1, <1>3 DEF Homes
<1>7. Linked' = Linked /\ Linked = Homes \cup {spot} /\ InRepair' = {} /\ InRepair = {}
  BY <1>1, <1>2, <1>6 DEF Linked, InRepair
<1>8. TypeOK'
  BY <1>1, <1>2 DEF Inv, TypeOK, PC, links, table, Address
<1>9. ListIntact' /\ BackLinks'
  BY <1>2, <1>7 DEF Inv, ListIntact, BackLinks, IsBelow, links
<1>10. ExtentsSound'
  <2>1. \A g \in Fids : home'[g] # 0 => Fits(home'[g], content'[home'[g]])
    BY <1>1, <1>3, <1>5 DEF Inv, ExtentsSound
  <2>2. ASSUME NEW g \in Fids, NEW h \in Fids, g # h, home'[g] # 0, home'[h] # 0
        PROVE  Apart(home'[g], content'[home'[g]], home'[h], content'[home'[h]])
    <3>1. CASE g = file
      <4>1. Apart(home[h], content[home[h]], spot, want)
        BY <2>2, <3>1, <1>1, <1>3 DEF Inv, ExtentsSound
      <4>2. Apart(spot, want, home[h], content[home[h]])
        BY <4>1 DEF Apart
      <4> QED BY <4>2, <2>2, <3>1, <1>3, <1>5
    <3>2. CASE h = file
      <4>1. Apart(home[g], content[home[g]], spot, want)
        BY <2>2, <3>2, <1>1, <1>3 DEF Inv, ExtentsSound
      <4> QED BY <4>1, <2>2, <3>2, <1>3, <1>5
    <3>3. CASE g # file /\ h # file
      <4>1. Apart(home[g], content[home[g]], home[h], content[home[h]])
        BY <2>2, <3>3, <1>3 DEF Inv, ExtentsSound
      <4> QED BY <4>1, <2>2, <3>3, <1>3, <1>5
    <3> QED BY <3>1, <3>2, <3>3
  <2> QED BY <2>1, <2>2, <1>2 DEF ExtentsSound, Fits, Apart, Size, SectorOf
<1>11. TableSound'
  <2>1. OnFlash' \subseteq known
    BY <1>1, <1>3 DEF OnFlash, Inv, TableSound, Dynamic
  <2>2. Cardinality(OnFlash') <= MAX_DYNAMIC_FILES
    <3>1. Cardinality(OnFlash') <= Cardinality(known) /\ Cardinality(OnFlash') \in Nat
      BY <2>1, KnownFacts, FS_Subset, FS_CardinalityType
    <3> QED BY <3>1, KnownFacts, FlashAssumption DEF Inv, TableSound
  <2>3. \A g \in Fids : data'[g] = home'[g]
    BY <1>1, <1>2, <1>3 DEF Inv, TableSound, table
  <2>4. \A f \in Dynamic : home'[f] # 0 => f \in known'
    BY <2>1, <1>2 DEF OnFlash, table
  <2>5. \A f \in Dynamic : f # NoFile
    BY Sizes DEF Dynamic
  <2> QED BY <2>2, <2>3, <2>4, <2>5, <1>2, <1>5 DEF Inv, TableSound, table
<1>12. ScanSound' /\ CallSound'
  BY <1>2 DEF ScanSound, CallSound, InOperation
<1> QED BY <1>8, <1>9, <1>10, <1>11, <1>12 DEF Inv

\* The scan has room in the table for every file it finds.
LEMMA ScanNodeSound ==
  ASSUME Inv, ScanNode
  PROVE  Inv'
<1>1. /\ pc = "scan" /\ base \in Homes \cup {0} /\ known \subseteq OnFlash /\ file = NoFile
      /\ \A f \in Fids : data[f] = home[f] \/ (data[f] = 0 /\ home[f] <= base)
      /\ \A f \in Dynamic : data[f] # 0 => f \in known
      /\ UNCHANGED <<links, nodes, home>>
  BY DEF ScanNode, Inv, ScanSound, CallSound, InOperation
<1>2. CASE base = 0
  <2>1. pc' = "idle" /\ file' = NoFile /\ want' = Missing /\ base' = 0 /\ spot' = 0
        /\ UNCHANGED table
    BY <1>2 DEF ScanNode, Return
  <2>2. \A f \in Fids : data[f] = home[f]
    <3>1. \A f \in Fids : home[f] \in Nat
      BY AddressNat DEF Inv, TypeOK
    <3> QED BY <3>1, <1>1, <1>2
  <2>3. Homes' = Homes /\ Linked' = Homes /\ Linked = Homes /\ OnFlash' = OnFlash
    BY <1>1, <2>1 DEF Homes, Linked, OnFlash
  <2>4. TypeOK' /\ ListIntact' /\ BackLinks'
    BY <1>1, <2>1, <2>3 DEF Inv, TypeOK, ListIntact, BackLinks, InRepair, IsBelow,
                            links, nodes, table, PC, Address
  <2>5. ExtentsSound'
    BY <1>1, <2>1, ExtentsKept DEF nodes
  <2>6. TableSound' /\ ScanSound' /\ CallSound'
    BY <1>1, <2>1, <2>2, <2>3, Sizes
       DEF Inv, TableSound, ScanSound, CallSound, InOperation, nodes, table, Dynamic
  <2> QED BY <2>4, <2>5, <2>6 DEF Inv
<1>3. CASE base # 0
  <2> DEFINE f == fid[base]
             n == next[base]
  <2>1. base \in Homes /\ base \in Cells /\ base \in Nat
    BY <1>1, <1>3, HomeFacts, Sizes
  <2>2. f \in Fids /\ home[f] = base
    <3>1. PICK g \in Fids : home[g] = base
      BY <2>1, HomeFacts
    <3>2. fid[home[g]] = g
      BY <3>1, <1>3 DEF Inv, TableSound
    <3> QED BY <3>1, <3>2
  <2>3. f \in Static \cup FileNew(f, known)
    <3>1. CASE f \in Static \cup known
      BY <3>1 DEF FileNew
    <3>2. CASE f \notin Static \cup known
      <4>1. f \in OnFlash
        BY <3>2, <2>2, <1>3 DEF OnFlash, Dynamic
      <4>2. Cardinality(known) <= Cardinality(OnFlash) - 1
        <5>1. Cardinality(OnFlash \ {f}) = Cardinality(OnFlash) - 1
          BY <4>1, KnownFacts, FS_RemoveElement
        <5>2. known \subseteq OnFlash \ {f} /\ IsFiniteSet(OnFlash \ {f})
          BY <3>2, <1>1, KnownFacts, FS_Difference
        <5> QED BY <5>1, <5>2, FS_Subset
      <4>3. Cardinality(known) # MAX_DYNAMIC_FILES
        BY <4>2, KnownFacts, FlashAssumption DEF Inv, TableSound
      <4> QED BY <3>2, <4>3 DEF FileNew
    <3> QED BY <3>1, <3>2
  <2>4. known' = FileNew(f, known) /\ data' = [data EXCEPT ![f] = base] /\ base' = n
        /\ UNCHANGED <<pc, file, want, spot>>
    BY <1>3, <2>3 DEF ScanNode
  <2>5. Homes' = Homes /\ Linked' = Homes /\ Linked = Homes /\ OnFlash' = OnFlash
    BY <1>1, <2>4 DEF Homes, Linked, OnFlash
  <2>6. n \in Address /\ n \in Nat /\ IsBelow(n, base, Homes)
    <3>1. n \in Address /\ IsBelow(n, base, Homes)
      BY <2>1, <2>5 DEF Inv, TypeOK, ListIntact
    <3> QED BY <3>1, AddressNat
  <2>7. TypeOK' /\ ListIntact' /\ BackLinks'
    <3>1. TypeOK'
      BY <1>1, <2>1, <2>2, <2>4, <2>6, FileNewSound
         DEF Inv, TypeOK, links, nodes, PC, Address
    <3> QED BY <3>1, <1>1, <2>4, <2>5
            DEF Inv, ListIntact, BackLinks, InRepair, IsBelow, links
  <2>8. ExtentsSound'
    BY <1>1, <2>4, ExtentsKept DEF nodes
  <2>9. TableSound' /\ CallSound'
    BY <1>1, <2>2, <2>4, <2>5, FileNewSound
       DEF Inv, TableSound, CallSound, InOperation, nodes
  <2>10. ScanSound'
    <3>1. base' \in Homes' \cup {0}
      BY <2>4, <2>5, <2>6 DEF IsBelow
    <3>2. known' \subseteq OnFlash'
      <4>1. f \in known' => f \in Dynamic
        BY <2>2, <2>4, FileNewSound
      <4> QED BY <4>1, <1>1, <1>3, <2>2, <2>4, <2>5, FileNewSound DEF OnFlash
    <3>3. ASSUME NEW g \in Fids
          PROVE  data'[g] = home'[g] \/ (data'[g] = 0 /\ home'[g] <= base')
      <4>1. CASE g = f
        BY <4>1, <1>1, <2>2, <2>4 DEF Inv, TypeOK
      <4>2. CASE g # f /\ data[g] = home[g]
        BY <4>2, <1>1, <2>2, <2>4 DEF Inv, TypeOK
      <4>3. CASE g # f /\ data[g] = 0 /\ home[g] <= base
        <5>1. data'[g] = 0 /\ home'[g] = home[g] /\ home[g] \in Nat
          BY <4>3, <1>1, <2>2, <2>4, AddressNat DEF Inv, TypeOK
        <5>2. home[g] # base
          BY <4>3, <2>2, <1>3, HomeFacts
        <5>3. home[g] # 0 => home[g] <= n
          BY <4>3, <5>1, <5>2, <2>1, <2>6, HomeFacts DEF IsBelow
        <5> QED BY <5>1, <5>3, <2>4, <2>6
      <4> QED BY <4>1, <4>2, <4>3, <1>1
    <3>4. ASSUME NEW g \in Dynamic, data'[g] # 0 PROVE g \in known'
      BY <3>4, <1>1, <2>2, <2>3, <2>4, FileNewSound DEF Inv, TypeOK, Dynamic
    <3> QED BY <3>1, <3>2, <3>3, <3>4 DEF ScanSound
  <2> QED BY <2>7, <2>8, <2>9, <2>10 DEF Inv
<1> QED BY <1>2, <1>3
-----------------------------------------------------------------------------
(* The invariant.                                                          *)

LEMMA Initially == Init => Inv
<1> SUFFICES ASSUME Init PROVE Inv
  OBVIOUS
<1>1. /\ next = Empty(0) /\ prev = Empty(0) /\ fid = Empty(NoFile) /\ content = Empty(<<>>)
      /\ data = [f \in Fids |-> 0] /\ home = [f \in Fids |-> 0] /\ known = {} /\ pc = "idle"
      /\ file = NoFile /\ want = Missing /\ base = 0 /\ spot = 0
  BY DEF Init
<1>2. Homes = {} /\ Linked = {} /\ OnFlash = {}
  BY <1>1 DEF Homes, Linked, OnFlash, Dynamic
<1>3. TypeOK
  BY <1>1, Sizes DEF TypeOK, PC, Empty, Address
<1>4. ListIntact /\ BackLinks /\ ExtentsSound
  BY <1>1, <1>2, Sizes DEF ListIntact, BackLinks, IsBelow, Empty, ExtentsSound
<1>5. Cardinality({}) = 0 /\ MAX_DYNAMIC_FILES \in Nat
  BY FS_EmptySet, FlashAssumption
<1>6. TableSound /\ ScanSound /\ CallSound
  BY <1>1, <1>2, <1>5, Sizes DEF TableSound, ScanSound, CallSound, InOperation, Dynamic
<1> QED BY <1>3, <1>4, <1>6 DEF Inv

LEMMA Inductive == Inv /\ [Next]_vars => Inv'
<1> SUFFICES ASSUME Inv, [Next]_vars PROVE Inv'
  OBVIOUS
<1>1. ASSUME NEW f \in Fids, NEW c \in Contents, Write(f, c) PROVE Inv'
  <2>1. pc = "idle" /\ f \in Static \cup FileNew(f, known)
    BY <1>1 DEF Write
  <2>2. CASE /\ data[f] # 0 /\ Len(c) <= Len(content[data[f]])
             /\ Overwrite(f, c) /\ known' = FileNew(f, known)
    BY <2>1, <2>2, OverwriteSound
  <2>3. CASE data[f] # 0 /\ Len(c) <= SECTOR /\ Unlink(f, c)
    <3>1. f \in Static \cup known
      BY <2>1, <2>3, IdleFacts DEF Dynamic
    <3> QED BY <2>1, <2>3, <3>1, UnlinkSound
  <2>4. CASE /\ data[f] = 0 /\ Len(c) <= SECTOR
             /\ LookForPlace(f, c) /\ known' = FileNew(f, known)
    BY <2>1, <2>4, LookForPlaceSound
  <2>5. CASE known' = FileNew(f, known) /\ UNCHANGED <<links, nodes, data, home, pc, call>>
    BY <2>1, <2>5, RefusedSound
  <2> QED BY <1>1, <2>2, <2>3, <2>4, <2>5 DEF Write
<1>2. ASSUME NEW f \in Fids, Delete(f) PROVE Inv'
  <2>1. pc = "idle" /\ f \in Static \cup known
    BY <1>2 DEF Delete
  <2>2. CASE data[f] # 0 /\ Unlink(f, Missing)
    BY <2>1, <2>2, UnlinkSound
  <2>3. CASE /\ data[f] = 0 /\ known' = known \ {f}
             /\ UNCHANGED <<links, nodes, data, home, pc, call>>
    BY <2>1, <2>3, DeleteEntrySound
  <2> QED BY <1>2, <2>2, <2>3 DEF Delete
<1>3. ASSUME Walk PROVE Inv'
  <2>1. pc = "walk"
    BY <1>3 DEF Walk
  <2>2. CASE /\ next[base] = 0 /\ PlaceAtEnd # 0 /\ ~Spills(PlaceAtEnd)
             /\ Prepare(PlaceAtEnd)
    BY <2>1, <2>2, EndSound
  <2>6. CASE /\ next[base] = 0 /\ PlaceAtEnd # 0 /\ Spills(PlaceAtEnd)
             /\ pc' = "spilled" /\ UNCHANGED <<links, nodes, table, home, call>>
    BY <2>1, <2>6, SpillSound
  <2>3. CASE Return /\ UNCHANGED <<links, nodes, table, home>>
    BY <2>1, <2>3, NoRoomSound
  <2>4. CASE next[base] # 0 /\ FitsInGap /\ Prepare(base - RealSize)
    BY <2>1, <2>4, GapSound
  <2>5. CASE /\ next[base] # 0 /\ base' = next[base]
             /\ UNCHANGED <<links, nodes, table, home, pc, file, want, spot>>
    BY <2>1, <2>5, WalkOnSound
  <2> QED BY <1>3, <2>2, <2>3, <2>4, <2>5, <2>6 DEF Walk
<1>4. CASE UNCHANGED vars
  <2>1. Homes' = Homes /\ Linked' = Linked /\ OnFlash' = OnFlash /\ InRepair' = InRepair
    BY <1>4 DEF vars, links, call, Homes, Linked, OnFlash, InRepair
  <2>2. TypeOK' /\ ListIntact' /\ BackLinks'
    BY <1>4, <2>1 DEF vars, links, nodes, table, call, Inv, TypeOK, ListIntact, BackLinks,
                      IsBelow
  <2>3. ExtentsSound'
    BY <1>4 DEF vars, nodes, call, Inv, ExtentsSound, Fits, Apart, Size, SectorOf
  <2>4. TableSound' /\ ScanSound' /\ CallSound'
    BY <1>4, <2>1 DEF vars, links, nodes, table, call, Inv, TableSound, ScanSound, CallSound,
                      InOperation, IsBelow
  <2> QED BY <2>2, <2>3, <2>4 DEF Inv
<1> QED BY <1>1, <1>2, <1>3, <1>4, FormatSound, RescanSound, WipeSound, LinkSound,
           FillSound, ScanNodeSound DEF Next, Step, Spilled

\* Inv holds in every reachable state, for any pool, files and contents.
THEOREM InvHolds == Spec => []Inv
<1> QED BY Initially, Inductive, PTL DEF Spec

\* The links lead, in falling order, to the nodes of all files and to no other,
\* after every single store of flash.c.
THEOREM ListAlwaysIntact == Spec => []ListIntact
<1>1. Inv => ListIntact
  BY DEF Inv
<1> QED BY <1>1, InvHolds, PTL

\* The links back agree with the links wherever no repair is under way.
THEOREM BackLinksAgree == Spec => []BackLinks
<1>1. Inv => BackLinks
  BY DEF Inv
<1> QED BY <1>1, InvHolds, PTL

\* allocate_free_addr never gives out bytes that a file has or that reach over
\* the sentinel, and never lets a header or a content cross a sector, whatever
\* the length of the contents, up to a node that spills; and only a content that
\* does not fit in a sector with its header spills.
THEOREM NoOverlap == Spec => []ExtentsSound
<1>1. Inv => ExtentsSound
  BY DEF Inv
<1> QED BY <1>1, InvHolds, PTL

\* The table of files and the list on flash say the same between operations.
THEOREM TableAgrees == Spec => []TableMatches
<1>1. Inv => TableMatches
  BY IdleFacts DEF TableMatches, Inv, TypeOK
<1> QED BY <1>1, InvHolds, PTL

THEOREM TypeCorrect == Spec => []TypeOK
<1>1. Inv => TypeOK
  BY DEF Inv
<1> QED BY <1>1, InvHolds, PTL
-----------------------------------------------------------------------------
(* The list implements the map of files.                                   *)

LEMMA MapInit == Init => Map!Init
<1> SUFFICES ASSUME Init PROVE Map!Init
  OBVIOUS
<1>1. home = [f \in Fids |-> 0] /\ pc = "idle"
  BY DEF Init
<1>2. Files = [f \in Fids |-> Missing] /\ Moving = <<>>
  BY <1>1 DEF Files, Moving
<1> QED BY <1>2 DEF Map!Init, Map!Nothing

\* What the nodes of the files keep, the map keeps.
LEMMA FilesKept ==
  ASSUME Inv, home' = home,
         \A f \in Fids : home[f] # 0 => content'[home[f]] = content[home[f]]
  PROVE  Files' = Files
<1> QED BY DEF Files

LEMMA MapOverwrite ==
  ASSUME Inv, NEW f \in Fids, NEW c \in Contents, pc = "idle", data[f] # 0,
         Len(c) <= Len(content[data[f]]), Overwrite(f, c)
  PROVE  Map!Replace(f, c)
<1> DEFINE a == home[f]
<1>1. data[f] = a /\ a # 0 /\ a \in Cells /\ content[a] \in Contents
  <2>1. data[f] = a /\ a # 0
    BY IdleFacts
  <2> QED BY <2>1, HomeFacts DEF Inv, TypeOK
<1>2. content' = [content EXCEPT ![a] = c] /\ home' = home /\ pc' = pc
  BY <1>1 DEF Overwrite
<1>3. Files[f] = content[a] /\ Files[f] # Missing /\ Len(c) <= Len(Files[f])
  BY <1>1, Sizes DEF Files
<1>4. \A g \in Fids : home[g] # 0 =>
        content'[home[g]] = IF g = f THEN c ELSE content[home[g]]
  BY <1>1, <1>2, HomeFacts DEF Inv, TypeOK
<1>5. Files' = [Files EXCEPT ![f] = c]
  BY <1>1, <1>2, <1>4 DEF Files
<1>6. Moving = <<>> /\ Moving' = <<>>
  BY <1>2 DEF Moving
<1> QED BY <1>3, <1>5, <1>6 DEF Map!Replace, Map!Nothing

LEMMA MapTakeOut ==
  ASSUME Inv, NEW f \in Fids, NEW c \in Contents \cup {Missing}, pc = "idle",
         \/ Unlink(f, c)
         \/ data[f] = 0 /\ LookForPlace(f, c)
  PROVE  Map!TakeOut(f, c)
<1>1. Moving = <<>> /\ Moving' = <<f, c>>
  BY DEF Unlink, LookForPlace, Moving
<1>2. content' = content /\ home' = [home EXCEPT ![f] = 0]
  BY IdleFacts DEF Unlink, LookForPlace, nodes, Inv, TypeOK
<1>3. Files' = [Files EXCEPT ![f] = Missing]
  BY <1>2 DEF Files, Inv, TypeOK
<1> QED BY <1>1, <1>3 DEF Map!TakeOut, Map!Nothing

LEMMA MapFill ==
  ASSUME Inv, Fill
  PROVE  Map!PutBack
<1>1. /\ pc = "fill" /\ spot \in Cells /\ spot \notin Homes /\ spot # 0
      /\ file \in Fids /\ pc' = "idle"
  BY Sizes DEF Fill, Return, Inv, CallSound, InOperation, TypeOK
<1>2. Moving = <<file, want>> /\ Moving' = <<>> /\ Moving # <<>>
  BY <1>1 DEF Moving
<1>3. /\ \A g \in Fids : home'[g] = IF g = file THEN spot ELSE home[g]
      /\ \A g \in Fids : home[g] # 0 => home[g] # spot /\ home[g] \in Cells
      /\ content' = [content EXCEPT ![spot] = want]
  BY <1>1, HomeFacts DEF Fill, Inv, TypeOK
<1>4. Files' = [Files EXCEPT ![file] = want]
  BY <1>1, <1>3 DEF Files, Inv, TypeOK
<1> QED BY <1>2, <1>4 DEF Map!PutBack, Map!Nothing

LEMMA MapWipe ==
  ASSUME Inv, Wipe
  PROVE  Map!PutBack \/ UNCHANGED Map!vars
<1>1. /\ pc = "wipe" /\ spot \notin Homes /\ home[file] = 0 /\ file \in Fids
      /\ home' = home /\ content' = [content EXCEPT ![spot] = <<>>]
  BY DEF Wipe, Inv, CallSound, InOperation, TypeOK
<1>2. Moving = <<file, want>> /\ Moving # <<>>
  BY <1>1 DEF Moving
<1>3. Files' = Files /\ Files[file] = Missing
  <2>1. \A f \in Fids : home[f] # 0 => content'[home[f]] = content[home[f]]
    BY <1>1, HomeFacts DEF Inv, TypeOK
  <2> QED BY <2>1, <1>1, FilesKept DEF Files
<1>4. CASE want = Missing
  <2>1. Moving' = <<>>
    BY <1>1, <1>4 DEF Wipe, AfterWipe, Return, Moving
  <2>2. Files = [Files EXCEPT ![file] = Missing]
    BY <1>3 DEF Files
  <2> QED BY <1>2, <1>3, <1>4, <2>1, <2>2 DEF Map!PutBack, Map!Nothing
<1>5. CASE want # Missing
  BY <1>1, <1>3, <1>5 DEF Wipe, AfterWipe, Moving, Map!vars
<1> QED BY <1>4, <1>5

LEMMA MapWalk ==
  ASSUME Inv, Walk
  PROVE  Map!NoRoom \/ UNCHANGED Map!vars
<1>1. pc = "walk" /\ home' = home /\ content' = content
  BY DEF Walk, Prepare, nodes
<1>2. Files' = Files /\ Moving = <<file, want>> /\ Moving # <<>>
  BY <1>1, FilesKept DEF Moving
<1>3. CASE Return
  BY <1>2, <1>3 DEF Return, Moving, Map!NoRoom, Map!Nothing
<1>4. CASE ~Return
  <2>1. pc' \in {"walk", "link", "spilled"} /\ file' = file /\ want' = want
    BY <1>1, <1>4 DEF Walk, Prepare, call
  <2> QED BY <2>1, <1>2 DEF Moving, Map!vars
<1> QED BY <1>3, <1>4

LEMMA MapStep == Inv /\ [Next]_vars => [Map!Next]_(Map!vars)
<1> SUFFICES ASSUME Inv, [Next]_vars PROVE [Map!Next]_(Map!vars)
  OBVIOUS
<1>1. ASSUME NEW f \in Fids, NEW c \in Contents, Write(f, c)
      PROVE  Map!Next \/ UNCHANGED Map!vars
  <2>1. CASE UNCHANGED <<nodes, home, pc>>
    BY <1>1, <2>1, FilesKept DEF Write, nodes, Moving, Map!vars
  <2>2. CASE ~UNCHANGED <<nodes, home, pc>>
    BY <1>1, <2>2, MapOverwrite, MapTakeOut DEF Write, Map!Next
  <2> QED BY <2>1, <2>2
<1>2. ASSUME NEW f \in Fids, Delete(f) PROVE Map!Next \/ UNCHANGED Map!vars
  <2>1. pc = "idle"
    BY <1>2 DEF Delete
  <2>2. CASE Unlink(f, Missing)
    BY <2>1, <2>2, MapTakeOut DEF Map!Next
  <2>3. CASE UNCHANGED <<nodes, home, pc>>
    BY <2>1, <2>3, FilesKept DEF nodes, Moving, Map!vars
  <2> QED BY <1>2, <2>2, <2>3 DEF Delete
<1>3. ASSUME Format PROVE Map!Format
  <2>1. Moving = <<>> /\ Moving' = <<>> /\ Files' = [f \in Fids |-> Missing]
    BY <1>3 DEF Format, Moving, Files
  <2> QED BY <2>1 DEF Map!Format, Map!Nothing
<1>4. ASSUME Rescan \/ ScanNode PROVE UNCHANGED Map!vars
  <2>1. home' = home /\ content' = content /\ pc \in {"idle", "scan"} /\ pc' \in {"idle", "scan"}
    BY <1>4 DEF Rescan, ScanNode, Return, nodes
  <2> QED BY <2>1, FilesKept DEF Moving, Map!vars
<1>5. ASSUME Link PROVE UNCHANGED Map!vars
  <2>1. home' = home /\ content' = content /\ pc = "link" /\ pc' = "fill"
        /\ file' = file /\ want' = want
    BY <1>5 DEF Link, nodes, call
  <2> QED BY <2>1, FilesKept DEF Moving, Map!vars
<1>6. CASE UNCHANGED vars
  <2>1. home' = home /\ content' = content /\ pc' = pc /\ file' = file /\ want' = want
    BY <1>6 DEF vars, nodes, call
  <2> QED BY <2>1, FilesKept DEF Moving, Map!vars
<1> QED BY <1>1, <1>2, <1>3, <1>4, <1>5, <1>6, MapWipe, MapWalk, MapFill
        DEF Next, Step, Spilled, Map!Next

\* Whatever flash.c does to its links, a caller sees a map from files to
\* contents: every operation replaces the content of its own file or loses it.
THEOREM FlashIsMap == Spec => ImplementsMap
<1> QED BY MapInit, MapStep, InvHolds, PTL DEF Spec, ImplementsMap, Map!Spec
=============================================================================
