-------------------------- MODULE EnumerationProofs --------------------------
(***************************************************************************)
(* Proofs about the enumerations of Credentials, for any number of slots:  *)
(* the types of their counters, and that a walk tells all that is due once.*)
(* What a walk has told are the values at the first slots of a set, in the *)
(* order of the loops; the slots' values differ, so nothing is told twice. *)
(***************************************************************************)
EXTENDS CredentialsProofs
-----------------------------------------------------------------------------
(* Types of the counters and of the walks.                                 *)

RamTypes ==
  /\ who \in Rps \cup {Nobody}
  /\ rp_counter \in 1..SLOTS + 1 /\ rp_total \in 0..SLOTS
  /\ cred_counter \in 1..SLOTS + 1 /\ cred_total \in 0..SLOTS
  /\ rpIdHashx \in Rps \cup {Nobody, Freed}
  /\ credsx \in Seq(Slots) /\ Len(credsx) <= SLOTS /\ credentialCounter \in 0..SLOTS
  /\ rpWalk \in Walk(Rps) /\ credWalk \in Walk(Slots) /\ listWalk \in Walk(Slots)
  /\ client \in {"relyingParties", "credentials", "assertions"}

LEMMA TypesFromParts ==
  RamTypes /\ CountsInv => TypeOK
<1> SUFFICES ASSUME RamTypes, CountsInv PROVE TypeOK
  OBVIOUS
<1>1. chip \in [creds : [Slots -> Cred \cup {NoCred}], rps : [Slots -> Rp \cup {NoRp}],
               torn : Nat, wiped : BOOLEAN]
  BY DEF CountsInv, Filled, IsChip, RpsFilled, InTurn
<1> QED BY <1>1 DEF RamTypes, CountsInv, Filled, RpsFilled, InTurn, TypeOK

LEMMA OffIsWalk ==
  ASSUME NEW S
  PROVE  Off \in Walk(S)
BY DEF Off, Walk

LEMMA TellingIsWalk ==
  ASSUME NEW S, NEW w \in Walk(S), NEW x \in S
  PROVE  LET more == [w EXCEPT !.told = Append(@, x)]
         IN  /\ more \in Walk(S)
             /\ more.told = Append(w.told, x) /\ more.due = w.due /\ more.on = w.on
<1>1. w.told \in Seq(S) /\ w.due \in SUBSET S /\ w.on \in BOOLEAN
  BY DEF Walk
<1>2. Append(w.told, x) \in Seq(S)
  BY <1>1
<1> QED BY <1>1, <1>2 DEF Walk

LEMMA BeginIsWalk ==
  ASSUME NEW S, NEW x \in S, NEW due \in SUBSET S
  PROVE  [on |-> TRUE, told |-> <<x>>, due |-> due] \in Walk(S)
BY DEF Walk

\* No set of slots is larger than the slots.
LEMMA SlotsBound ==
  ASSUME NEW S \in SUBSET Slots
  PROVE  IsFiniteSet(S) /\ Cardinality(S) \in 0..SLOTS
<1>1. IsFiniteSet(Slots) /\ Cardinality(Slots) = SLOTS
  BY CredentialsAssumption, FS_Interval DEF Slots
<1> QED BY <1>1, SlotSets, FS_Subset, CredentialsAssumption

LEMMA CountedFacts ==
  ASSUME CountsInv
  PROVE  /\ Counted \in SUBSET Slots
         /\ \A i \in Counted : rps[i].rp \in Rps /\ rps[i].count > 0
BY DEF Counted, RpUsed, CountsInv, RpsFilled, Rp

LEMMA UsedByFacts ==
  ASSUME NEW r
  PROVE  UsedBy(r) \in SUBSET Slots
BY DEF UsedBy

LEMMA VisibleBound ==
  ASSUME NEW r \in Rps, NEW uv \in BOOLEAN
  PROVE  /\ Visible(r, uv) \in SUBSET Slots
         /\ IsFiniteSet(Visible(r, uv)) /\ Cardinality(Visible(r, uv)) \in 0..SLOTS
<1>1. Visible(r, uv) \in SUBSET Slots
  BY DEF Visible, Listed, UsedBy
<1> QED BY <1>1, SlotsBound

LEMMA WritesKeepTypes ==
  ASSUME CountsInv, RamTypes, Write, client' = client
  PROVE  RamTypes'
<1>1. CASE PowerCut
  <2>1. InitRam' /\ who' = Nobody
    BY <1>1 DEF PowerCut, InitRam
  <2>2. 1 \in 1..SLOTS + 1 /\ 0 \in 0..SLOTS /\ 1 \in 0..SLOTS
    BY CredentialsAssumption
  <2>3. <<>> \in Seq(Slots) /\ Len(<<>>) <= SLOTS
    BY CredentialsAssumption
  <2> QED BY <2>1, <2>2, <2>3, OffIsWalk DEF RamTypes, InitRam
<1>2. CASE CountUp \/ CountDown \/ Abort \/ Commit
  <2>1. who' \in {who, Nobody} /\ UNCHANGED <<rpCounters, credCounters, list>>
    BY <1>2 DEF CountUp, CountDown, Abort, Commit
  <2> QED BY <2>1 DEF RamTypes, rpCounters, credCounters, list
<1>3. ASSUME WalksOff, who' \in Rps \cup {Nobody} PROVE RamTypes'
  BY <1>3, OffIsWalk DEF RamTypes, WalksOff
<1>4. CASE Reset
  BY <1>3, <1>4 DEF Reset, RamTypes
<1>5. ASSUME NEW i \in Slots, Delete(i) PROVE RamTypes'
  <2>1. who' \in Rps
    BY <1>5 DEF Delete, Used, CountsInv, Filled, Cred
  <2> QED BY <1>3, <1>5, <2>1 DEF Delete
<1>6. ASSUME NEW r \in Rps, NEW u \in Users, StoreOver(r, u) PROVE RamTypes'
  BY <1>3, <1>6 DEF StoreOver, RamTypes
<1>7. ASSUME NEW r \in Rps, NEW u \in Users, StoreNew(r, u) PROVE RamTypes'
  BY <1>3, <1>7 DEF StoreNew
<1> QED BY <1>1, <1>2, <1>4, <1>5, <1>6, <1>7 DEF Write

LEMMA RpsKeepTypes ==
  ASSUME CountsInv, RamTypes, EnumerateRps, client' = client
  PROVE  RamTypes'
<1>1. UNCHANGED <<files, credCounters, list>>
  BY DEF EnumerateRps, RpsBegin, RpsNext
<1>2. Cardinality(Counted) \in 0..SLOTS
  BY CountedFacts, SlotsBound
<1>3. CASE RpsBegin /\ Counted = {}
  BY <1>1, <1>2, <1>3, OffIsWalk, CredentialsAssumption
     DEF RpsBegin, RamTypes, files, credCounters, list
<1>4. CASE RpsBegin /\ Counted # {}
  <2>1. rps[First(Counted)].rp \in Rps
    BY <1>4, CountedFacts, FirstIsFound
  <2>2. {rps[i].rp : i \in Counted} \in SUBSET Rps
    BY CountedFacts
  <2>3. rpWalk' \in Walk(Rps)
    BY <1>4, <2>1, <2>2, BeginIsWalk DEF RpsBegin
  <2>4. rp_counter' = 2 /\ rp_total' = Cardinality(Counted)
    BY <1>4 DEF RpsBegin
  <2> QED BY <1>1, <1>2, <2>3, <2>4, CredentialsAssumption
          DEF RamTypes, files, credCounters, list
<1>5. CASE RpsNext
  <2>1. PICK i \in Counted :
          /\ rp_counter' = rp_counter + 1
          /\ rpWalk' = IF rpWalk.on THEN [rpWalk EXCEPT !.told = Append(@, rps[i].rp)]
                       ELSE Off
    BY <1>5 DEF RpsNext
  <2>2. rpWalk' \in Walk(Rps)
    <3>1. rps[i].rp \in Rps
      BY CountedFacts
    <3>2. [rpWalk EXCEPT !.told = Append(@, rps[i].rp)] \in Walk(Rps)
      BY <3>1, TellingIsWalk DEF RamTypes
    <3> QED BY <2>1, <3>2, OffIsWalk
  <2>3. rp_counter <= rp_total /\ rp_total' = rp_total
    BY <1>5 DEF RpsNext
  <2>4. rp_counter' \in 1..SLOTS + 1
    BY <2>1, <2>3, CredentialsAssumption DEF RamTypes
  <2> QED BY <1>1, <2>2, <2>3, <2>4 DEF RamTypes, files, credCounters, list
<1> QED BY <1>3, <1>4, <1>5 DEF EnumerateRps

LEMMA CredsKeepTypes ==
  ASSUME CountsInv, RamTypes, EnumerateCreds, client' = client
  PROVE  RamTypes'
<1>1. UNCHANGED <<files, rpCounters, list>>
  BY DEF EnumerateCreds, CredsBegin, CredsNext
<1>2. \A r : Cardinality(UsedBy(r)) \in 0..SLOTS
  BY UsedByFacts, SlotsBound
<1>3. ASSUME NEW r \in Rps, CredsBegin(r) PROVE RamTypes'
  <2>1. /\ cred_total' = Cardinality(UsedBy(r)) /\ cred_counter' \in {1, 2}
        /\ rpIdHashx' \in {r, rpIdHashx}
    BY <1>3 DEF CredsBegin
  <2>2. cred_counter' \in 1..SLOTS + 1
    BY <2>1, CredentialsAssumption
  <2>3. CASE UsedBy(r) = {}
    BY <1>1, <1>2, <1>3, <2>1, <2>2, <2>3, OffIsWalk
       DEF CredsBegin, RamTypes, files, rpCounters, list
  <2>4. CASE UsedBy(r) # {}
    <3>1. First(UsedBy(r)) \in Slots
      BY <2>4, UsedByFacts, FirstIsFound
    <3>2. UsedBy(r) \in SUBSET Slots
      BY UsedByFacts
    <3>3. credWalk' \in Walk(Slots)
      BY <1>3, <2>4, <3>1, <3>2, BeginIsWalk DEF CredsBegin
    <3> QED BY <1>1, <1>2, <2>1, <2>2, <3>3 DEF RamTypes, files, rpCounters, list
  <2> QED BY <2>3, <2>4
<1>4. CASE CredsNext
  <2>1. cred_counter' \in 1..SLOTS + 1 /\ cred_total' = cred_total
    <3>1. cred_counter <= cred_total /\ cred_counter' \in {cred_counter, cred_counter + 1}
      BY <1>4 DEF CredsNext
    <3> QED BY <1>4, <3>1, CredentialsAssumption DEF CredsNext, RamTypes
  <2>2. rpIdHashx' \in {rpIdHashx, Freed}
    BY <1>4 DEF CredsNext
  <2>3. credWalk' \in Walk(Slots)
    <3>1. \/ credWalk' = Off
          \/ \E r \in Hash : \E i \in UsedBy(r) :
               credWalk' = [credWalk EXCEPT !.told = Append(@, i)]
      BY <1>4 DEF CredsNext
    <3>2. ASSUME NEW r, NEW i \in UsedBy(r),
                 credWalk' = [credWalk EXCEPT !.told = Append(@, i)]
          PROVE  credWalk' \in Walk(Slots)
      <4>1. i \in Slots
        BY UsedByFacts
      <4> QED BY <3>2, <4>1, TellingIsWalk DEF RamTypes
    <3> QED BY <3>1, <3>2, OffIsWalk
  <2> QED BY <1>1, <2>1, <2>2, <2>3 DEF RamTypes, files, rpCounters, list
<1> QED BY <1>3, <1>4 DEF EnumerateCreds

LEMMA AskingKeepsTypes ==
  ASSUME CountsInv, RamTypes, AskAssertions, client' = client
  PROVE  RamTypes'
<1>1. UNCHANGED <<files, rpCounters, credCounters>>
  BY DEF AskAssertions, GetAssertion, GetNextAssertion, Expire
<1>2. SUFFICES /\ credsx' \in Seq(Slots) /\ Len(credsx') <= SLOTS
               /\ credentialCounter' \in 0..SLOTS /\ listWalk' \in Walk(Slots)
  BY <1>1 DEF RamTypes, files, rpCounters, credCounters
<1>3. ASSUME DropList, listWalk' = Off
      PROVE  /\ credsx' \in Seq(Slots) /\ Len(credsx') <= SLOTS
             /\ credentialCounter' \in 0..SLOTS /\ listWalk' \in Walk(Slots)
  <2>1. credsx' = <<>> /\ credentialCounter' = 0
    BY <1>3 DEF DropList
  <2> QED BY <1>3, <2>1, OffIsWalk, CredentialsAssumption
<1>4. ASSUME NEW r \in Rps, NEW uv \in BOOLEAN, NEW up \in BOOLEAN, NEW fails \in BOOLEAN,
             GetAssertion(r, uv, up, fails)
      PROVE  /\ credsx' \in Seq(Slots) /\ Len(credsx') <= SLOTS
             /\ credentialCounter' \in 0..SLOTS /\ listWalk' \in Walk(Slots)
  <2>1. CASE Cardinality(Visible(r, uv)) > 1 /\ up
    <3> DEFINE V == Visible(r, uv)
    <3>1. V \in SUBSET Slots /\ IsFiniteSet(V) /\ Cardinality(V) \in 0..SLOTS
      BY VisibleBound
    <3>2. /\ credsx' \in Orders(V) /\ credentialCounter' = 1
          /\ \/ listWalk' = Off
             \/ listWalk' = [on |-> TRUE, told |-> <<credsx'[1]>>, due |-> V]
      BY <1>4, <2>1 DEF GetAssertion
    <3>3. credsx' \in Seq(V) /\ Len(credsx') = Cardinality(V)
      BY <3>1, <3>2, OrderFacts
    <3>4. Cardinality(V) > 1
      BY <2>1
    <3> HIDE DEF V
    <3>5. credsx' \in Seq(Slots) /\ credsx'[1] \in Slots
      BY <3>1, <3>3, <3>4
    <3>6. listWalk' \in Walk(Slots)
      BY <3>1, <3>2, <3>5, BeginIsWalk, OffIsWalk
    <3> QED BY <3>1, <3>2, <3>3, <3>5, <3>6, CredentialsAssumption
  <2>2. CASE ~(Cardinality(Visible(r, uv)) > 1 /\ up)
    BY <1>4, <2>2, OffIsWalk DEF GetAssertion, RamTypes
  <2> QED BY <2>1, <2>2
<1>5. CASE GetNextAssertion
  <2>1. CASE DropList /\ listWalk' = Off
    BY <1>3, <2>1
  <2>2. CASE ~(DropList /\ listWalk' = Off)
    <3>1. /\ credentialCounter < Len(credsx)
          /\ listWalk' = IF listWalk.on
                THEN [listWalk EXCEPT !.told = Append(@, credsx[credentialCounter + 1])]
                ELSE Off
          /\ \/ DropList
             \/ /\ credentialCounter + 1 # Len(credsx)
                /\ credentialCounter' = credentialCounter + 1 /\ credsx' = credsx
      BY <1>5, <2>2 DEF GetNextAssertion
    <3>2. credsx[credentialCounter + 1] \in Slots
      BY <3>1 DEF RamTypes
    <3>3. [listWalk EXCEPT !.told = Append(@, credsx[credentialCounter + 1])] \in Walk(Slots)
      BY <3>2, TellingIsWalk DEF RamTypes
    <3>4. listWalk' \in Walk(Slots)
      BY <3>1, <3>3, OffIsWalk
    <3>5. CASE DropList
      <4>1. credsx' = <<>> /\ credentialCounter' = 0
        BY <3>5 DEF DropList
      <4> QED BY <3>4, <4>1, CredentialsAssumption
    <3>6. CASE /\ credentialCounter + 1 # Len(credsx)
               /\ credentialCounter' = credentialCounter + 1 /\ credsx' = credsx
      BY <3>1, <3>4, <3>6, CredentialsAssumption DEF RamTypes
    <3> QED BY <3>1, <3>5, <3>6
  <2> QED BY <2>1, <2>2
<1>6. CASE Expire
  BY <1>3, <1>6 DEF Expire
<1> QED BY <1>4, <1>5, <1>6 DEF AskAssertions

LEMMA TypesKept ==
  CountsInv /\ RamTypes /\ [Next]_vars => RamTypes'
<1> SUFFICES ASSUME CountsInv, RamTypes, [Next]_vars PROVE RamTypes'
  OBVIOUS
<1>1. CASE UNCHANGED vars
  BY <1>1 DEF vars, files, rpCounters, credCounters, list, RamTypes
<1> QED BY <1>1, WritesKeepTypes, RpsKeepTypes, CredsKeepTypes, AskingKeepsTypes DEF Next

LEMMA TypesInit ==
  Init => RamTypes
<1> SUFFICES ASSUME Init PROVE RamTypes
  OBVIOUS
<1>1. InitRam /\ who = Nobody /\ client \in {"relyingParties", "credentials", "assertions"}
  BY DEF Init
<1>2. 1 \in 1..SLOTS + 1 /\ 0 \in 0..SLOTS /\ 1 \in 0..SLOTS
  BY CredentialsAssumption
<1>3. <<>> \in Seq(Slots) /\ Len(<<>>) <= SLOTS
  BY CredentialsAssumption
<1> QED BY <1>1, <1>2, <1>3, OffIsWalk DEF RamTypes, InitRam

\* Every variable keeps its type: no counter of an enumeration or of
\* getNextAssertion leaves the slots, although only the commands that go on
\* look at it (rp_counter, cred_counter, credentialCounter).
THEOREM TypeCorrect == Spec => []TypeOK
<1> QED BY InitCounts, NextCounts, TypesInit, TypesKept,
           TypesFromParts, PTL DEF Spec

-----------------------------------------------------------------------------
(* What a walk has told.                                                   *)

\* The k-th that was told is the value v of the k-th slot of S.
InOrder(told, S, v) ==
  \A k \in 1..Len(told) : \E i \in S : IsNth(i, k, S) /\ told[k] = v[i]

\* Values that differ from slot to slot are told once, and all of them when as
\* many were told as there are slots.
LEMMA Walked ==
  ASSUME NEW S \in SUBSET Slots, NEW v, NEW w, NEW T, w \in Walk(T),
         \A i, j \in S : v[i] = v[j] => i = j,
         w.due = {v[i] : i \in S}, InOrder(w.told, S, v)
  PROVE  /\ Cardinality(Told(w)) = Len(w.told)
         /\ Told(w) \subseteq w.due
         /\ Len(w.told) >= Cardinality(S) => Told(w) = w.due
<1> DEFINE told == w.told
           m == Len(told)
           f == [k \in 1..m |-> told[k]]
           g == [i \in S |-> v[i]]
<1>1. m \in Nat
  BY DEF Walk
<1>2. Told(w) = {told[k] : k \in 1..m}
  BY DEF Told
<1>3. ASSUME NEW j \in 1..m, NEW k \in 1..m, told[j] = told[k] PROVE j = k
  <2>1. PICK a \in S : IsNth(a, j, S) /\ told[j] = v[a]
    BY DEF InOrder
  <2>2. PICK b \in S : IsNth(b, k, S) /\ told[k] = v[b]
    BY DEF InOrder
  <2>3. a = b
    BY <1>3, <2>1, <2>2
  <2> QED BY <2>1, <2>2, <2>3 DEF IsNth
<1>4. Told(w) \in SUBSET w.due
  <2>1. \A k \in 1..m : told[k] \in w.due
    BY DEF InOrder
  <2> QED BY <1>2, <2>1
<1> HIDE DEF told
<1>5. f \in Surjection(1..m, Told(w)) /\ f \in Injection(1..m, Told(w))
  BY <1>2, <1>3 DEF Surjection, Injection, IsInjective
<1> HIDE DEF f, m
<1>6. Cardinality(Told(w)) = m
  BY <1>1, <1>5, CountsOf, FS_Surjection
<1>7. IsFiniteSet(w.due) /\ Cardinality(w.due) <= Cardinality(S) /\ Cardinality(S) \in Nat
  <2>1. g \in Surjection(S, w.due)
    BY DEF Surjection
  <2> QED BY <2>1, SlotSets, FS_Surjection
<1>8. ASSUME m >= Cardinality(S) PROVE Told(w) = w.due
  <2>1. Cardinality(w.due) \in Nat /\ Cardinality(Told(w)) <= Cardinality(w.due)
    BY <1>4, <1>7, FS_Subset, FS_CardinalityType
  <2>2. Cardinality(w.due) = Cardinality(Told(w))
    BY <1>1, <1>6, <1>7, <1>8, <2>1
  <2> QED BY <1>4, <1>7, <2>2, FS_Subset
<1> QED BY <1>4, <1>6, <1>8 DEF m, told

LEMMA FirstIsNth ==
  ASSUME NEW S \in SUBSET Slots, S # {}
  PROVE  IsNth(First(S), 1, S)
<1>1. First(S) \in S /\ (\A j \in S : First(S) <= j) /\ S \subseteq Nat
  BY FirstIsFound, CredentialsAssumption DEF Slots
<1>2. {j \in S : j <= First(S)} = {First(S)}
  <2>1. PICK i \in Nat : i = First(S)
    BY <1>1
  <2>2. \A j \in S : j <= i <=> j = i
    BY <1>1, <2>1
  <2> QED BY <1>1, <2>1, <2>2
<1> QED BY <1>1, <1>2, FS_Singleton DEF IsNth

LEMMA BeginsInOrder ==
  ASSUME NEW S \in SUBSET Slots, S # {}, NEW v
  PROVE  InOrder(<<v[First(S)]>>, S, v)
<1>1. First(S) \in S /\ IsNth(First(S), 1, S)
  BY FirstIsFound, FirstIsNth
<1> QED BY <1>1 DEF InOrder

LEMMA GoesOnInOrder ==
  ASSUME NEW S, NEW v, NEW T, NEW told \in Seq(T), NEW i \in S, v[i] \in T,
         InOrder(told, S, v), IsNth(i, Len(told) + 1, S)
  PROVE  InOrder(Append(told, v[i]), S, v) /\ Len(Append(told, v[i])) = Len(told) + 1
<1> DEFINE more == Append(told, v[i])
<1>1. /\ Len(more) = Len(told) + 1 /\ more[Len(told) + 1] = v[i] /\ Len(told) \in Nat
      /\ \A k \in 1..Len(told) : more[k] = told[k]
  OBVIOUS
<1> HIDE DEF more
<1>2. ASSUME NEW k \in 1..Len(told) + 1
      PROVE  \E j \in S : IsNth(j, k, S) /\ more[k] = v[j]
  <2>1. CASE k = Len(told) + 1
    BY <1>1, <2>1
  <2>2. CASE k # Len(told) + 1
    BY <1>1, <2>2 DEF InOrder
  <2> QED BY <2>1, <2>2
<1> QED BY <1>1, <1>2 DEF InOrder, more
-----------------------------------------------------------------------------
(* Each relying party has one file, torn or not, so that an enumeration    *)
(* tells it once.                                                          *)

\* Whose file a slot holds, or will hold after a power cut.
RpsIn(i) == {x.rp : x \in {rps[i], chip.rps[i]} \ {NoRp}}
OneFilePerRp == \A i, j \in Slots : i # j => RpsIn(i) \cap RpsIn(j) = {}

LEMMA FewerFiles ==
  ASSUME OneFilePerRp, \A i \in Slots : RpsIn(i)' \subseteq RpsIn(i)
  PROVE  OneFilePerRp'
BY DEF OneFilePerRp

\* A slot whose file stays with its relying party, or goes.
LEMMA SlotKeepsRp ==
  ASSUME CountsInv, NEW j \in RpUsed, NEW n, chip' = chip,
         rps' = [rps EXCEPT ![j].count = n] \/ rps' = [rps EXCEPT ![j] = NoRp]
  PROVE  \A i \in Slots : RpsIn(i)' \subseteq RpsIn(i)
<1>1. j \in Slots /\ rps[j] \in Rp /\ rps[j] # NoRp
  BY DEF RpUsed, CountsInv, RpsFilled
<1>2. \A i \in Slots \ {j} : rps'[i] = rps[i]
  BY <1>1 DEF CountsInv, RpsFilled
<1>3. rps'[j] = NoRp \/ rps'[j].rp = rps[j].rp
  BY <1>1 DEF CountsInv, RpsFilled, Rp
<1>4. \A i \in Slots \ {j} : RpsIn(i)' = RpsIn(i)
  BY <1>2 DEF RpsIn
<1>5. RpsIn(j)' \subseteq RpsIn(j)
  BY <1>1, <1>3 DEF RpsIn
<1> QED BY <1>4, <1>5

LEMMA CountUpKeepsFiles ==
  ASSUME CountsInv, OneFilePerRp, CountUp
  PROVE  OneFilePerRp'
<1>1. chip' = chip /\ Behind
  BY DEF CountUp, CountsInv, InTurn
<1>2. CASE RpSlot(who) # {}
  <2>1. First(RpSlot(who)) \in RpUsed
    <3>1. RpSlot(who) \in SUBSET Slots
      BY DEF RpSlot, RpUsed
    <3> QED BY <1>2, <3>1, FirstIsFound DEF RpSlot
  <2>2. rps' = [rps EXCEPT ![First(RpSlot(who))].count
                             = (rps[First(RpSlot(who))].count + 1) % COUNTS]
    BY <1>2 DEF CountUp
  <2> QED BY <1>1, <2>1, <2>2, SlotKeepsRp, FewerFiles
<1>3. CASE RpSlot(who) = {} /\ rps' # rps
  <2>1. PICK k \in Slots \ RpUsed : rps' = [rps EXCEPT ![k] = [rp |-> who, count |-> 1]]
    <3>1. Slots \ RpUsed # {}
      BY <1>3 DEF CountUp, RpUsed
    <3> QED BY <1>3, <3>1, FirstIsFound DEF CountUp
  <2>2. \A i \in Slots \ {k} : RpsIn(i)' = RpsIn(i)
    BY <1>1, <2>1 DEF RpsIn, CountsInv, RpsFilled
  <2>3. RpsIn(k)' \subseteq {who}
    <3>1. rps'[k] = [rp |-> who, count |-> 1] /\ chip'.rps[k] = NoRp
      BY <1>1, <2>1 DEF CountsInv, RpsFilled, RpUsed, Behind
    <3> QED BY <3>1 DEF RpsIn
  <2>4. \A i \in Slots : who \notin RpsIn(i)
    BY <1>1, <1>3 DEF RpsIn, Behind, RpSlot, RpUsed
  <2> QED BY <2>2, <2>3, <2>4 DEF OneFilePerRp
<1>4. CASE rps' = rps
  BY <1>1, <1>4, FewerFiles DEF RpsIn
<1> QED BY <1>2, <1>3, <1>4

LEMMA CountDownKeepsFiles ==
  ASSUME CountsInv, OneFilePerRp, CountDown
  PROVE  OneFilePerRp'
<1>1. chip' = chip
  BY DEF CountDown
<1>2. CASE RpSlot(who) # {}
  <2>1. First(RpSlot(who)) \in RpUsed
    <3>1. RpSlot(who) \in SUBSET Slots
      BY DEF RpSlot, RpUsed
    <3> QED BY <1>2, <3>1, FirstIsFound DEF RpSlot
  <2>2. \/ rps' = [rps EXCEPT ![First(RpSlot(who))].count
                             = (rps[First(RpSlot(who))].count - 1) % COUNTS]
        \/ rps' = [rps EXCEPT ![First(RpSlot(who))] = NoRp]
    BY <1>2 DEF CountDown
  <2> QED BY <1>1, <2>1, <2>2, SlotKeepsRp, FewerFiles
<1>3. CASE RpSlot(who) = {}
  BY <1>1, <1>3, FewerFiles DEF CountDown, RpsIn
<1> QED BY <1>2, <1>3

LEMMA OneFileKept ==
  CountsInv /\ OneFilePerRp /\ [Next]_vars => OneFilePerRp'
<1> SUFFICES ASSUME CountsInv, OneFilePerRp, [Next]_vars PROVE OneFilePerRp'
  OBVIOUS
<1>1. ASSUME rps' = rps, chip' = chip PROVE OneFilePerRp'
  BY <1>1, FewerFiles DEF RpsIn
<1>2. ASSUME NEW r \in Rps, NEW u \in Users, StoreOver(r, u) \/ StoreNew(r, u)
      PROVE  OneFilePerRp'
  BY <1>1, <1>2 DEF StoreOver, StoreNew
<1>3. ASSUME NEW i \in Slots, Delete(i) PROVE OneFilePerRp'
  BY <1>1, <1>3 DEF Delete
<1>4. CASE CountUp
  BY <1>4, CountUpKeepsFiles
<1>5. CASE CountDown
  BY <1>5, CountDownKeepsFiles
<1>6. CASE Reset
  <2>1. rps' = [i \in Slots |-> NoRp] /\ chip'.rps = chip.rps
    BY <1>6, ResetStep, EmptyIsFilled DEF CountsInv, Filled
  <2> QED BY <2>1, FewerFiles DEF RpsIn
<1>7. CASE PowerCut
  <2>1. rps' = chip.rps /\ chip'.rps = chip.rps
    BY <1>7, PowerCutStep DEF CountsInv, Filled
  <2> QED BY <2>1, FewerFiles DEF RpsIn
<1>8. CASE Commit
  <2>1. /\ rps' = rps
        /\ \/ chip'.rps = [i \in Slots |-> NoRp]
           \/ chip'.rps = chip.rps
           \/ \E i \in Slots : chip'.rps = [chip.rps EXCEPT ![i] = rps[i]]
    <3>1. CASE chip' = Empty
      BY <1>8, <3>1, EmptyIsFilled DEF Commit
    <3>2. CASE chip' # Empty
      <4>1. PICK i \in Slots, t \in {torn, torn + 1} :
              \/ chip' = [chip EXCEPT !.creds = [@ EXCEPT ![i] = creds[i]], !.torn = t]
              \/ chip' = [chip EXCEPT !.rps = [@ EXCEPT ![i] = rps[i]], !.torn = t]
        BY <1>8, <3>2, CommitStep DEF CountsInv, Filled
      <4>2. \/ chip'.rps = [chip.rps EXCEPT ![i] = rps[i]]
            \/ chip'.rps = chip.rps
        BY <4>1 DEF CountsInv, Filled, IsChip
      <4> QED BY <1>8, <4>2 DEF Commit
    <3> QED BY <3>1, <3>2
  <2>2. \A j \in Slots : RpsIn(j)' \subseteq RpsIn(j)
    BY <2>1 DEF RpsIn, CountsInv, RpsFilled
  <2> QED BY <2>2, FewerFiles
<1>9. CASE Abort \/ EnumerateRps \/ EnumerateCreds \/ AskAssertions \/ UNCHANGED vars
  BY <1>1, <1>9 DEF Abort, EnumerateRps, RpsBegin, RpsNext, EnumerateCreds, CredsBegin,
     CredsNext, AskAssertions, GetAssertion, GetNextAssertion, Expire, files, vars
<1> QED BY <1>2, <1>3, <1>4, <1>5, <1>6, <1>7, <1>8, <1>9 DEF Next, Write
-----------------------------------------------------------------------------
(* The enumerations.                                                       *)

RpOf == [i \in Slots |-> rps[i].rp]

RpWalkSound ==
  rpWalk.on =>
    /\ Idle
    /\ rpWalk.due = {RpOf[i] : i \in Counted}
    /\ InOrder(rpWalk.told, Counted, RpOf)
    /\ rp_counter = Len(rpWalk.told) + 1
    /\ rp_total = Cardinality(Counted) /\ rp_counter <= rp_total + 1

SlotItself == [i \in Slots |-> i]

\* While there is more to tell, the hash kept is that of the relying party.
CredWalkSound ==
  credWalk.on =>
    /\ Idle
    /\ \E r \in Rps :
         /\ credWalk.due = UsedBy(r)
         /\ InOrder(credWalk.told, UsedBy(r), SlotItself)
         /\ cred_counter = Len(credWalk.told) + 1
         /\ cred_total = Cardinality(UsedBy(r)) /\ cred_counter <= cred_total + 1
         /\ cred_counter <= cred_total => rpIdHashx = r

\* A step that writes ends both walks, or none is under way, or it is a commit.
LEMMA WritesEndWalks ==
  ASSUME Write
  PROVE  \/ rpWalk' = Off /\ credWalk' = Off
         \/ ~Idle /\ rpWalk' = rpWalk /\ credWalk' = credWalk
         \/ UNCHANGED <<creds, rps, pc, rpCounters, credCounters>>
<1>1. CASE Commit
  BY <1>1 DEF Commit, rpCounters, credCounters
<1>2. CASE CountUp \/ CountDown \/ Abort \/ Reset \/ PowerCut
  BY <1>2 DEF CountUp, CountDown, Abort, Reset, PowerCut, WalksOff, Idle,
              rpCounters, credCounters
<1>3. ASSUME NEW i \in Slots, Delete(i) PROVE rpWalk' = Off /\ credWalk' = Off
  BY <1>3 DEF Delete, WalksOff
<1>4. ASSUME NEW r \in Rps, NEW u \in Users, StoreOver(r, u) \/ StoreNew(r, u)
      PROVE  rpWalk' = Off /\ credWalk' = Off
  BY <1>4 DEF StoreOver, StoreNew, WalksOff
<1> QED BY <1>1, <1>2, <1>3, <1>4 DEF Write

LEMMA RpWalkKept ==
  CountsInv /\ RamTypes /\ RpWalkSound /\ [Next]_vars => RpWalkSound'
<1> SUFFICES ASSUME CountsInv, RamTypes, RpWalkSound, [Next]_vars, rpWalk'.on
             PROVE  RpWalkSound'
  BY DEF RpWalkSound
<1>2. ASSUME UNCHANGED <<creds, rps, pc, rpCounters>> PROVE RpWalkSound'
  BY <1>2 DEF rpCounters, RpWalkSound, Idle, Counted, RpUsed, RpOf
<1>1. CASE Write
  BY <1>1, <1>2, WritesEndWalks DEF RpWalkSound, Off
<1>3. CASE EnumerateCreds \/ AskAssertions \/ UNCHANGED vars
  BY <1>2, <1>3 DEF EnumerateCreds, CredsBegin, CredsNext, AskAssertions, GetAssertion,
     GetNextAssertion, Expire, vars, credCounters, files
<1>4. Counted \in SUBSET Slots /\ \A i \in Counted : RpOf[i] = rps[i].rp /\ RpOf[i] \in Rps
  BY CountedFacts DEF RpOf
<1>5. ASSUME UNCHANGED files
      PROVE  Counted' = Counted /\ RpOf' = RpOf /\ Idle' = Idle
  BY <1>5 DEF files, Counted, RpUsed, RpOf, Idle
<1>6. CASE RpsBegin
  <2>1. /\ Counted # {} /\ UNCHANGED files /\ Idle
        /\ rp_counter' = 2 /\ rp_total' = Cardinality(Counted)
        /\ rpWalk' = [on |-> TRUE, told |-> <<rps[First(Counted)].rp>>,
                      due |-> {rps[i].rp : i \in Counted}]
    BY <1>6 DEF RpsBegin, Ready, Off
  <2>2. rpWalk'.told = <<RpOf[First(Counted)]>> /\ rpWalk'.due = {RpOf[i] : i \in Counted}
    BY <1>4, <2>1, FirstIsFound
  <2>3. InOrder(rpWalk'.told, Counted, RpOf) /\ Len(rpWalk'.told) = 1
    BY <1>4, <2>1, <2>2, BeginsInOrder
  <2>4. Cardinality(Counted) >= 1 /\ Cardinality(Counted) \in Nat
    BY <1>4, <2>1, SlotSets, FS_EmptySet
  <2>5. Counted' = Counted /\ RpOf' = RpOf /\ Idle'
    BY <1>5, <2>1
  <2>6. InOrder(rpWalk.told, Counted, RpOf)'
    BY <2>3, <2>5
  <2>7. /\ rp_counter' = Len(rpWalk'.told) + 1
        /\ rp_total' = Cardinality(Counted') /\ rp_counter' <= rp_total' + 1
    BY <2>1, <2>3, <2>4, <2>5
  <2> QED BY <2>2, <2>5, <2>6, <2>7 DEF RpWalkSound
<1>7. CASE RpsNext
  <2>1. PICK i \in Counted :
          /\ IsNth(i, rp_counter, Counted)
          /\ rp_counter' = rp_counter + 1
          /\ rpWalk' = IF rpWalk.on THEN [rpWalk EXCEPT !.told = Append(@, rps[i].rp)]
                       ELSE Off
    BY <1>7 DEF RpsNext
  <2>2. /\ rpWalk.on /\ rpWalk' = [rpWalk EXCEPT !.told = Append(@, rps[i].rp)]
        /\ rp_counter <= rp_total /\ rp_total' = rp_total /\ UNCHANGED files
    BY <1>7, <2>1 DEF RpsNext, Off
  <2>3. rpWalk.told \in Seq(Rps) /\ rpWalk \in Walk(Rps)
    BY DEF RamTypes, Walk
  <2>4. rpWalk'.told = Append(rpWalk.told, RpOf[i]) /\ rpWalk'.due = rpWalk.due
    BY <1>4, <2>2, <2>3, TellingIsWalk
  <2>5. IsNth(i, Len(rpWalk.told) + 1, Counted)
    BY <2>1, <2>2 DEF RpWalkSound
  <2>6. InOrder(rpWalk'.told, Counted, RpOf) /\ Len(rpWalk'.told) = Len(rpWalk.told) + 1
    BY <1>4, <2>2, <2>3, <2>4, <2>5, GoesOnInOrder DEF RpWalkSound
  <2> QED BY <1>5, <2>1, <2>2, <2>4, <2>6 DEF RpWalkSound, RamTypes
<1> QED BY <1>1, <1>3, <1>6, <1>7 DEF Next, EnumerateRps

LEMMA CredWalkKept ==
  CountsInv /\ RamTypes /\ CredWalkSound /\ [Next]_vars => CredWalkSound'
<1> SUFFICES ASSUME CountsInv, RamTypes, CredWalkSound, [Next]_vars, credWalk'.on
             PROVE  CredWalkSound'
  BY DEF CredWalkSound
<1>0. ASSUME UNCHANGED <<creds, rps, pc, credCounters>> PROVE CredWalkSound'
  BY <1>0 DEF credCounters, CredWalkSound, Idle, UsedBy
<1>1. CASE Write
  BY <1>0, <1>1, WritesEndWalks DEF CredWalkSound, Off
<1>2. CASE EnumerateRps \/ AskAssertions \/ UNCHANGED vars
  BY <1>0, <1>2 DEF EnumerateRps, RpsBegin, RpsNext, AskAssertions, GetAssertion,
     GetNextAssertion, Expire, vars, files
<1>3. ASSUME UNCHANGED files
      PROVE  (\A r : UsedBy(r)' = UsedBy(r)) /\ creds' = creds /\ Idle' = Idle
  BY <1>3 DEF files, UsedBy, Idle
<1>4. ASSUME NEW r \in Rps, CredsBegin(r) PROVE CredWalkSound'
  <2>1. /\ UsedBy(r) # {} /\ UNCHANGED files /\ Idle
        /\ cred_counter' = 2 /\ cred_total' = Cardinality(UsedBy(r))
        /\ credWalk' = [on |-> TRUE, told |-> <<First(UsedBy(r))>>,
                        due |-> UsedBy(r)]
        /\ Cardinality(UsedBy(r)) > 1 => rpIdHashx' = r
    BY <1>4 DEF CredsBegin, Ready, Off
  <2>2. /\ credWalk'.told = <<SlotItself[First(UsedBy(r))]>> /\ Len(credWalk'.told) = 1
        /\ credWalk'.due = UsedBy(r)
    BY <2>1, FirstIsFound, UsedByFacts DEF SlotItself
  <2>3. InOrder(credWalk'.told, UsedBy(r), SlotItself)
    BY <2>1, <2>2, UsedByFacts, BeginsInOrder
  <2>4. Cardinality(UsedBy(r)) >= 1 /\ Cardinality(UsedBy(r)) \in Nat
    BY <2>1, SlotSets, FS_EmptySet
  <2> QED BY <1>3, <2>1, <2>2, <2>3, <2>4 DEF CredWalkSound
<1>5. CASE CredsNext
  <2>1. PICK r \in Hash : \E i \in UsedBy(r) :
          /\ IsNth(i, cred_counter, UsedBy(r))
          /\ cred_counter' = cred_counter + 1
          /\ credWalk' = IF credWalk.on THEN [credWalk EXCEPT !.told = Append(@, i)]
                         ELSE Off
          /\ rpIdHashx' = IF cred_counter < cred_total THEN rpIdHashx ELSE Freed
    BY <1>5 DEF CredsNext, Off
  <2>2. PICK i \in UsedBy(r) :
          /\ IsNth(i, cred_counter, UsedBy(r))
          /\ cred_counter' = cred_counter + 1
          /\ credWalk' = IF credWalk.on THEN [credWalk EXCEPT !.told = Append(@, i)]
                         ELSE Off
          /\ rpIdHashx' = IF cred_counter < cred_total THEN rpIdHashx ELSE Freed
    BY <2>1
  <2>3. credWalk.on
    BY <2>2 DEF Off
  <2>4. /\ credWalk.on /\ credWalk' = [credWalk EXCEPT !.told = Append(@, i)]
        /\ IsNth(i, cred_counter, UsedBy(r)) /\ cred_counter' = cred_counter + 1
        /\ rpIdHashx' = IF cred_counter < cred_total THEN rpIdHashx ELSE Freed
    BY <2>2, <2>3
  <2>5. cred_counter <= cred_total /\ cred_total' = cred_total /\ UNCHANGED files
    BY <1>5 DEF CredsNext
  <2>6. PICK q \in Rps :
          /\ credWalk.due = UsedBy(q)
          /\ InOrder(credWalk.told, UsedBy(q), SlotItself)
          /\ cred_counter = Len(credWalk.told) + 1
          /\ cred_total = Cardinality(UsedBy(q)) /\ cred_counter <= cred_total + 1
          /\ cred_counter <= cred_total => rpIdHashx = q
    BY <2>4 DEF CredWalkSound
  <2>7. r = q
    BY <2>5, <2>6, CredentialsAssumption DEF Hash
  <2>8. credWalk \in Walk(Slots) /\ credWalk.told \in Seq(Slots) /\ i \in Slots /\ SlotItself[i] = i
    BY UsedByFacts DEF RamTypes, Walk, SlotItself
  <2>9. credWalk'.told = Append(credWalk.told, SlotItself[i]) /\ credWalk'.due = credWalk.due
    BY <2>4, <2>8, TellingIsWalk
  <2>10. /\ InOrder(credWalk'.told, UsedBy(q), SlotItself)
        /\ Len(credWalk'.told) = Len(credWalk.told) + 1
    BY <2>4, <2>6, <2>7, <2>8, <2>9, GoesOnInOrder
  <2>11. cred_counter' <= cred_total' => rpIdHashx' = q
    BY <2>4, <2>5, <2>6 DEF RamTypes
  <2> QED BY <1>3, <2>4, <2>5, <2>6, <2>9, <2>10, <2>11 DEF CredWalkSound, RamTypes
<1> QED BY <1>1, <1>2, <1>4, <1>5 DEF Next, EnumerateCreds

\* An enumeration of the relying parties tells each of those that were due
\* once, and unless a write was lost these are the ones with credentials
\* (cbor_cred_mgmt 0x02 and 0x03).
THEOREM EveryRpOnce == Spec => []RpsComplete
<1> DEFINE I == CountsInv /\ RamTypes /\ OneFilePerRp /\ RpWalkSound
<1>1. Init => I
  <2>1. Init => OneFilePerRp /\ RpWalkSound
    <3> SUFFICES ASSUME Init PROVE OneFilePerRp /\ RpWalkSound
      OBVIOUS
    <3>1. \A i \in Slots : RpsIn(i) = {}
      BY EmptyIsFilled DEF Init, RpsIn
    <3> QED BY <3>1 DEF Init, InitRam, OneFilePerRp, RpWalkSound, Off
  <2> QED BY <2>1, InitCounts, TypesInit
<1>2. I /\ [Next]_vars => I'
  BY NextCounts, TypesKept, OneFileKept, RpWalkKept
<1>3. I => RpsComplete
  <2> SUFFICES ASSUME I, rpWalk.on
               PROVE  /\ Cardinality(Told(rpWalk)) = Len(rpWalk.told)
                      /\ Told(rpWalk) \subseteq rpWalk.due
                      /\ rp_counter > rp_total => Told(rpWalk) = rpWalk.due
                      /\ torn = 0 => rpWalk.due = {r \in Rps : UsedBy(r) # {}}
    BY DEF RpsComplete, Complete
  <2>1. /\ Idle /\ rpWalk.due = {RpOf[i] : i \in Counted}
        /\ InOrder(rpWalk.told, Counted, RpOf)
        /\ rp_counter = Len(rpWalk.told) + 1 /\ rp_total = Cardinality(Counted)
    BY DEF RpWalkSound
  <2>2. Counted \in SUBSET Slots /\ \A i, j \in Counted : RpOf[i] = RpOf[j] => i = j
    <3>1. Counted \in SUBSET Slots /\ \A i \in Counted : RpOf[i] \in RpsIn(i)
      BY CountedFacts DEF RpOf, RpsIn, Counted, RpUsed
    <3> QED BY <3>1 DEF OneFilePerRp
  <2>3. rpWalk \in Walk(Rps)
    BY DEF RamTypes
  <2>4. /\ Cardinality(Told(rpWalk)) = Len(rpWalk.told)
        /\ Told(rpWalk) \subseteq rpWalk.due
        /\ Len(rpWalk.told) >= Cardinality(Counted) => Told(rpWalk) = rpWalk.due
    BY <2>1, <2>2, <2>3, Walked
  <2>5. Len(rpWalk.told) \in Nat /\ Cardinality(Counted) \in Nat
    BY <2>2, <2>3, SlotSets DEF Walk
  <2>6. ASSUME torn = 0 PROVE rpWalk.due = {r \in Rps : UsedBy(r) # {}}
    <3>1. \A r \in Rps : Counts(r, Cardinality(UsedBy(r)))
      BY <2>1, <2>6 DEF CountsInv, Awaited, Idle
    <3>2. \A r \in Rps : UsedBy(r) # {} => \E i \in Counted : RpOf[i] = r
      <4> SUFFICES ASSUME NEW r \in Rps, UsedBy(r) # {} PROVE \E i \in Counted : RpOf[i] = r
        OBVIOUS
      <4>1. Cardinality(UsedBy(r)) # 0
        BY SlotSets, FS_EmptySet
      <4>2. PICK i \in Slots : RpSlot(r) = {i} /\ rps[i].count = Cardinality(UsedBy(r))
        BY <3>1, <4>1 DEF Counts
      <4>3. rps[i].count > 0
        BY <4>1, <4>2, SlotSets
      <4> QED BY <4>2, <4>3 DEF Counted, RpSlot, RpOf
    <3>3. \A i \in Counted : RpOf[i] \in Rps /\ UsedBy(RpOf[i]) # {}
      <4> SUFFICES ASSUME NEW i \in Counted, UsedBy(rps[i].rp) = {}
                   PROVE  FALSE
        BY CountedFacts DEF RpOf
      <4>1. rps[i].rp \in Rps /\ i \in RpSlot(rps[i].rp)
        BY CountedFacts DEF Counted, RpSlot
      <4>2. Cardinality(UsedBy(rps[i].rp)) = 0
        BY FS_EmptySet
      <4> QED BY <3>1, <4>1, <4>2 DEF Counts
    <3> QED BY <2>1, <3>2, <3>3
  <2> QED BY <2>1, <2>4, <2>5, <2>6
<1> QED BY <1>1, <1>2, <1>3, PTL DEF Spec

\* An enumeration of the credentials of a relying party tells each of them once
\* and ends when all were told (cbor_cred_mgmt 0x04 and 0x05): the hash that the
\* calls go on with is the right one until then.
THEOREM EveryCredOnce == Spec => []CredsComplete
<1> DEFINE I == CountsInv /\ RamTypes /\ CredWalkSound
<1>1. Init => I
  <2>1. Init => CredWalkSound
    BY DEF Init, InitRam, CredWalkSound, Off
  <2> QED BY <2>1, InitCounts, TypesInit
<1>2. I /\ [Next]_vars => I'
  BY NextCounts, TypesKept, CredWalkKept
<1>3. I => CredsComplete
  <2> SUFFICES ASSUME I, credWalk.on
               PROVE  /\ Cardinality(Told(credWalk)) = Len(credWalk.told)
                      /\ Told(credWalk) \subseteq credWalk.due
                      /\ cred_counter > cred_total => Told(credWalk) = credWalk.due
    BY DEF CredsComplete, Complete
  <2>1. PICK r \in Rps :
          /\ credWalk.due = UsedBy(r)
          /\ InOrder(credWalk.told, UsedBy(r), SlotItself)
          /\ cred_counter = Len(credWalk.told) + 1
          /\ cred_total = Cardinality(UsedBy(r))
    BY DEF CredWalkSound
  <2>2. /\ UsedBy(r) \in SUBSET Slots /\ UsedBy(r) = {SlotItself[i] : i \in UsedBy(r)}
        /\ \A i, j \in UsedBy(r) : SlotItself[i] = SlotItself[j] => i = j
    BY UsedByFacts DEF SlotItself
  <2>3. credWalk \in Walk(Slots)
    BY DEF RamTypes
  <2>4. /\ Cardinality(Told(credWalk)) = Len(credWalk.told)
        /\ Told(credWalk) \subseteq credWalk.due
        /\ Len(credWalk.told) >= Cardinality(UsedBy(r)) => Told(credWalk) = credWalk.due
    BY <2>1, <2>2, <2>3, Walked
  <2>5. Len(credWalk.told) \in Nat /\ Cardinality(UsedBy(r)) \in Nat
    BY <2>3, SlotSets DEF Walk
  <2> QED BY <2>1, <2>4, <2>5
<1> QED BY <1>1, <1>2, <1>3, PTL DEF Spec
=============================================================================
