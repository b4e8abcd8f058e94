------------------------- MODULE CredentialsProofs -------------------------
(***************************************************************************)
(* Proofs about Credentials for any number of slots and users.  Only       *)
(* OneCredentialPerUser needs that likeness of ids is transitive; all else *)
(* holds for ids of any lengths.                                           *)
(***************************************************************************)
EXTENDS Credentials, FiniteSetTheorems, WellFoundedInduction, TLAPS

IsChip == chip = [creds |-> chip.creds, rps |-> chip.rps,
                  torn |-> chip.torn, wiped |-> chip.wiped]
Filled == /\ creds \in [Slots -> Cred \cup {NoCred}]
          /\ chip.creds \in [Slots -> Cred \cup {NoCred}]
          /\ IsChip /\ chip.wiped \in BOOLEAN
          /\ chip.wiped => creds = Empty.creds

\* What a slot holds, or will hold after a power cut.
HeldIn(i) == {creds[i], chip.creds[i]} \ {NoCred}
\* OneCredentialPerUser for every mixture of the two, which is inductive.
Apart ==
  \A i, j \in Slots :
    i # j => \A x \in HeldIn(i), y \in HeldIn(j) : x.rp = y.rp => ~Alike(x.user, y.user)
Inv == Filled /\ Apart
-----------------------------------------------------------------------------
(* The loops of credential_store find the first slot of a set.             *)

LEMMA FirstIsFound ==
  ASSUME NEW S \in SUBSET Slots, S # {}
  PROVE  First(S) \in S /\ \A j \in S : First(S) <= j
<1>1. S \subseteq Nat
  BY CredentialsAssumption DEF Slots
<1>2. PICK i \in S : \A j \in S : <<j, i>> \notin OpToRel(<, Nat)
  BY <1>1, NatLessThanWellFounded, WFMin
<1>3. \A j \in S : i <= j
  <2> SUFFICES ASSUME NEW j \in S, j < i PROVE FALSE
    BY <1>1
  <2>1. <<j, i>> \in Nat \X Nat /\ <<j, i>>[1] < <<j, i>>[2]
    BY <1>1
  <2>2. <<j, i>> \in OpToRel(<, Nat)
    BY <2>1, Zenon DEF OpToRel
  <2> QED BY <1>2, <2>2
<1> QED BY <1>3 DEF First

LEMMA Found ==
  ASSUME NEW r \in Rps, NEW u \in Users
  PROVE  /\ LikeIt(r, u) # {} =>
              /\ First(LikeIt(r, u)) \in Used
              /\ creds[First(LikeIt(r, u))].rp = r
              /\ Alike(creds[First(LikeIt(r, u))].user, u)
         /\ Used # Slots => First(Slots \ Used) \in Slots \ Used
<1>1. LikeIt(r, u) \in SUBSET Slots
  BY DEF LikeIt, UsedBy
<1>2. Used # Slots => Slots \ Used # {}
  BY DEF Used
<1> QED BY <1>1, <1>2, FirstIsFound DEF LikeIt, UsedBy, Used

-----------------------------------------------------------------------------
(* How the steps change the slots.                                         *)

LEMMA EmptyIsFilled ==
  /\ Empty.creds = [i \in Slots |-> NoCred] /\ Empty.rps = [i \in Slots |-> NoRp]
  /\ Empty.creds \in [Slots -> Cred \cup {NoCred}]
  /\ Empty.torn = 0 /\ Empty.wiped = FALSE
  /\ Empty = [creds |-> Empty.creds, rps |-> Empty.rps, torn |-> 0, wiped |-> FALSE]
BY DEF Empty

\* A slot is overwritten, filled, emptied, or left.
LEMMA StoreOverStep ==
  ASSUME Filled, NEW r \in Rps, NEW u \in Users, StoreOver(r, u)
  PROVE  \E i \in Used, x \in {[rp |-> r, user |-> u], NoCred} :
           /\ creds[i].rp = r /\ Alike(creds[i].user, u)
           /\ creds' = [creds EXCEPT ![i] = x]
           /\ torn' = IF x = NoCred THEN torn + 1 ELSE torn
           /\ UNCHANGED <<rps, chip, pc, who>>
<1> DEFINE new == [rp |-> r, user |-> u]
<1>1. PICK i \in Used : i = First(LikeIt(r, u)) /\ creds[i].rp = r /\ Alike(creds[i].user, u)
  BY Found DEF StoreOver
<1>2. PICK written \in BOOLEAN :
        /\ creds' = [creds EXCEPT ![i] = IF written THEN new ELSE NoCred]
        /\ LoseUnless(written)
  BY <1>1 DEF StoreOver
<1>3. new # NoCred
  BY CredentialsAssumption
<1>4. UNCHANGED <<rps, chip, pc, who>>
  BY DEF StoreOver
<1> HIDE DEF new
<1>5. CASE written
  BY <1>1, <1>2, <1>3, <1>4, <1>5 DEF LoseUnless, new
<1>6. CASE ~written
  BY <1>1, <1>2, <1>4, <1>6 DEF LoseUnless, Lose
<1> QED BY <1>5, <1>6

LEMMA StoreNewStep ==
  ASSUME Filled, NEW r \in Rps, NEW u \in Users, StoreNew(r, u)
  PROVE  /\ UNCHANGED <<rps, chip>> /\ pc = "idle" /\ pc' = "countUp" /\ who' = r
         /\ \/ creds' = creds /\ torn' = torn + 1
            \/ /\ HasRoom /\ torn' = torn
               /\ \E i \in Slots \ Used : creds' = [creds EXCEPT ![i] = [rp |-> r, user |-> u]]
<1>1. First(Slots \ Used) \in Slots \ Used
  BY Found DEF StoreNew
<1>2. PICK written \in BOOLEAN :
        /\ written => HasRoom
        /\ creds' = IF written
                      THEN [creds EXCEPT ![First(Slots \ Used)] = [rp |-> r, user |-> u]]
                      ELSE creds
        /\ LoseUnless(written)
  BY DEF StoreNew
<1>3. UNCHANGED <<rps, chip>> /\ pc = "idle" /\ pc' = "countUp" /\ who' = r
  BY DEF StoreNew, Ready, Idle
<1>4. CASE written
  BY <1>1, <1>2, <1>3, <1>4 DEF LoseUnless
<1>5. CASE ~written
  BY <1>2, <1>3, <1>5 DEF LoseUnless, Lose
<1> QED BY <1>4, <1>5

LEMMA CommitStep ==
  ASSUME IsChip, Commit
  PROVE  /\ UNCHANGED <<creds, rps, pc, who, torn>>
         /\ \/ chip.wiped /\ chip' = Empty
            \/ /\ ~chip.wiped
               /\ \E i \in Slots, t \in {torn, torn + 1} :
                    \/ chip' = [chip EXCEPT !.creds = [@ EXCEPT ![i] = creds[i]], !.torn = t]
                    \/ chip' = [chip EXCEPT !.rps = [@ EXCEPT ![i] = rps[i]], !.torn = t]
               /\ \/ Idle /\ chip'.creds = creds /\ chip'.rps = rps /\ chip'.torn = torn
                  \/ chip'.torn = torn + 1
<1>1. UNCHANGED <<creds, rps, pc, who, torn>>
  BY DEF Commit
<1>2. CASE chip.wiped /\ chip' = Empty
  BY <1>1, <1>2
<1>3. CASE ~(chip.wiped /\ chip' = Empty)
  <2>1. PICK new \in {[chip EXCEPT !.creds[i] = creds[i]] : i \in Slots}
                       \cup {[chip EXCEPT !.rps[i] = rps[i]] : i \in Slots} :
          /\ ~chip.wiped
          /\ chip' = [new EXCEPT !.torn =
                 IF Idle /\ new.creds = creds /\ new.rps = rps THEN torn ELSE torn + 1]
    BY <1>3 DEF Commit
  <2>2. PICK i \in Slots : \/ new = [chip EXCEPT !.creds = [@ EXCEPT ![i] = creds[i]]]
                           \/ new = [chip EXCEPT !.rps = [@ EXCEPT ![i] = rps[i]]]
    BY <2>1
  <2> DEFINE t == IF Idle /\ new.creds = creds /\ new.rps = rps THEN torn ELSE torn + 1
  <2>3. t \in {torn, torn + 1} /\ chip' = [new EXCEPT !.torn = t]
    BY <2>1
  <2>4. new = [creds |-> new.creds, rps |-> new.rps, torn |-> new.torn, wiped |-> new.wiped]
    BY <2>2 DEF IsChip
  <2>5. /\ chip'.torn = t /\ chip'.creds = new.creds /\ chip'.rps = new.rps
    BY <2>3, <2>4
  <2>6. \/ Idle /\ chip'.creds = creds /\ chip'.rps = rps /\ chip'.torn = torn
        \/ chip'.torn = torn + 1
    BY <2>5
  <2> HIDE DEF t
  <2>7. \/ chip' = [chip EXCEPT !.creds = [@ EXCEPT ![i] = creds[i]], !.torn = t]
        \/ chip' = [chip EXCEPT !.rps = [@ EXCEPT ![i] = rps[i]], !.torn = t]
    BY <2>2, <2>3
  <2> QED BY <1>1, <2>1, <2>3, <2>6, <2>7
<1> QED BY <1>2, <1>3

LEMMA OthersKeepCreds ==
  ASSUME \/ CountUp \/ CountDown \/ Abort
         \/ EnumerateRps \/ EnumerateCreds \/ AskAssertions
         \/ UNCHANGED vars
  PROVE  creds' = creds /\ chip' = chip
BY DEF CountUp, CountDown, Abort, EnumerateRps, RpsBegin, RpsNext,
       EnumerateCreds, CredsBegin, CredsNext, AskAssertions, GetAssertion,
       GetNextAssertion, Expire, files, vars

LEMMA ResetStep ==
  ASSUME IsChip, Reset
  PROVE  /\ creds' = Empty.creds /\ rps' = Empty.rps /\ torn' = 0
         /\ pc = "idle" /\ pc' = "idle" /\ who' = who
         /\ chip' = [creds |-> chip.creds, rps |-> chip.rps,
                     torn |-> chip.torn, wiped |-> TRUE]
BY DEF Reset, Ready, Idle, IsChip

LEMMA PowerCutStep ==
  ASSUME IsChip, PowerCut
  PROVE  /\ creds' = chip.creds /\ rps' = chip.rps /\ torn' = chip.torn
         /\ pc' = "idle"
         /\ chip' = [creds |-> chip.creds, rps |-> chip.rps,
                     torn |-> chip.torn, wiped |-> FALSE]
BY DEF PowerCut, IsChip

LEMMA NextFilled ==
  ASSUME Filled, [Next]_vars
  PROVE  Filled'
<1>1. ASSUME NEW r \in Rps, NEW u \in Users, StoreOver(r, u) PROVE Filled'
  <2>1. PICK i \in Used, x \in {[rp |-> r, user |-> u], NoCred} :
          creds' = [creds EXCEPT ![i] = x]
    BY <1>1, StoreOverStep
  <2>2. [rp |-> r, user |-> u] \in Cred /\ ~chip.wiped /\ chip' = chip
    BY <1>1 DEF Cred, StoreOver, Ready
  <2> QED BY <2>1, <2>2 DEF Filled, IsChip
<1>2. ASSUME NEW r \in Rps, NEW u \in Users, StoreNew(r, u) PROVE Filled'
  <2>1. [rp |-> r, user |-> u] \in Cred /\ ~chip.wiped /\ chip' = chip
    BY <1>2 DEF Cred, StoreNew, Ready
  <2>2. CASE creds' = creds
    BY <2>1, <2>2 DEF Filled, IsChip
  <2>3. CASE creds' # creds
    <3>1. PICK i \in Slots \ Used : creds' = [creds EXCEPT ![i] = [rp |-> r, user |-> u]]
      BY <1>2, <2>3, StoreNewStep
    <3> QED BY <2>1, <3>1 DEF Filled, IsChip
  <2> QED BY <2>2, <2>3
<1>3. ASSUME NEW i \in Slots, Delete(i) PROVE Filled'
  BY <1>3 DEF Delete, Ready, Filled, IsChip
<1>4. CASE Reset
  <2>1. /\ creds' = Empty.creds /\ chip'.creds = chip.creds /\ chip'.wiped = TRUE
        /\ IsChip'
    BY <1>4, ResetStep DEF Filled, IsChip
  <2> QED BY <2>1, EmptyIsFilled DEF Filled
<1>5. CASE PowerCut
  <2>1. /\ creds' = chip.creds /\ chip'.creds = chip.creds /\ chip'.wiped = FALSE
        /\ IsChip'
    BY <1>5, PowerCutStep DEF Filled, IsChip
  <2> QED BY <2>1 DEF Filled
<1>6. CASE Commit
  <2>1. creds' = creds
    BY <1>6, CommitStep DEF Filled
  <2>2. CASE chip.wiped /\ chip' = Empty
    BY <2>1, <2>2, EmptyIsFilled DEF Filled, IsChip
  <2>3. CASE ~(chip.wiped /\ chip' = Empty)
    <3>1. PICK i \in Slots, t \in {torn, torn + 1} :
            /\ ~chip.wiped
            /\ \/ chip' = [chip EXCEPT !.creds = [@ EXCEPT ![i] = creds[i]], !.torn = t]
               \/ chip' = [chip EXCEPT !.rps = [@ EXCEPT ![i] = rps[i]], !.torn = t]
      BY <1>6, <2>3, CommitStep DEF Filled
    <3>2. \/ chip' = [creds |-> [chip.creds EXCEPT ![i] = creds[i]], rps |-> chip.rps,
                      torn |-> t, wiped |-> FALSE]
          \/ chip' = [creds |-> chip.creds, rps |-> [chip.rps EXCEPT ![i] = rps[i]],
                      torn |-> t, wiped |-> FALSE]
      <4>1. chip.wiped = FALSE
        BY <1>6, <3>1 DEF Filled
      <4> QED BY <3>1, <4>1 DEF Filled, IsChip
    <3>3. chip'.creds \in [Slots -> Cred \cup {NoCred}] /\ chip'.wiped = FALSE /\ IsChip'
      BY <3>2 DEF Filled, IsChip
    <3> QED BY <2>1, <3>3 DEF Filled
  <2> QED BY <2>2, <2>3
<1>7. CASE \/ CountUp \/ CountDown \/ Abort
           \/ EnumerateRps \/ EnumerateCreds \/ AskAssertions
           \/ UNCHANGED vars
  BY <1>7, OthersKeepCreds DEF Filled, IsChip
<1> QED BY <1>1, <1>2, <1>3, <1>4, <1>5, <1>6, <1>7 DEF Next, Write

LEMMA InitFilled ==
  ASSUME Init
  PROVE  Filled
BY EmptyIsFilled DEF Init, Filled, IsChip

-----------------------------------------------------------------------------
(* No two slots hold alike credentials, nor will after a power cut.        *)

\* A slot that gets nothing but what it held, here or on the chip, disturbs
\* nobody.
LEMMA FewerKeep ==
  ASSUME Apart, \A i \in Slots : HeldIn(i)' \subseteq HeldIn(i)
  PROVE  Apart'
<1> SUFFICES ASSUME NEW i \in Slots, NEW j \in Slots, i # j,
                    NEW x \in HeldIn(i)', NEW y \in HeldIn(j)', x.rp = y.rp
             PROVE  ~Alike(x.user, y.user)
  BY DEF Apart
<1> QED BY DEF Apart

\* A new one is apart if it is from what the other slots held.
LEMMA OneMoreKeeps ==
  ASSUME Filled, Apart, NEW i \in Slots, NEW new \in Cred,
         \A j \in Slots \ {i} : HeldIn(j)' \subseteq HeldIn(j),
         HeldIn(i)' \subseteq HeldIn(i) \cup {new},
         \A j \in Slots \ {i} : \A x \in HeldIn(j) : x.rp = new.rp => ~Alike(x.user, new.user)
  PROVE  Apart'
<1> SUFFICES ASSUME NEW j \in Slots, NEW k \in Slots, j # k,
                    NEW x \in HeldIn(j)', NEW y \in HeldIn(k)', x.rp = y.rp
             PROVE  ~Alike(x.user, y.user)
  BY DEF Apart
<1>1. CASE j # i /\ k # i
  BY <1>1 DEF Apart
<1>2. CASE k = i
  <2>1. CASE y = new
    BY <1>2, <2>1
  <2>2. CASE y # new
    BY <1>2, <2>2 DEF Apart
  <2> QED BY <2>1, <2>2
<1>3. CASE j = i
  <2>1. y \in HeldIn(k)
    BY <1>3
  <2>2. CASE x = new
    <3>1. y.user \in Users /\ new.user \in Users
      BY <2>1 DEF Filled, HeldIn, Cred
    <3>2. ~Alike(y.user, new.user)
      BY <1>3, <2>1, <2>2
    <3> QED BY <2>2, <3>1, <3>2, AlikeAssumption
  <2>3. CASE x # new
    BY <1>3, <2>1, <2>3 DEF Apart
  <2> QED BY <2>2, <2>3
<1> QED BY <1>1, <1>2, <1>3

LEMMA StoreOverKeeps ==
  ASSUME AlikeIsTransitive, Inv, NEW r \in Rps, NEW u \in Users, StoreOver(r, u)
  PROVE  Apart'
<1>1. PICK i \in Used, x \in {[rp |-> r, user |-> u], NoCred} :
        /\ creds[i].rp = r /\ Alike(creds[i].user, u)
        /\ creds' = [creds EXCEPT ![i] = x]
        /\ chip' = chip
  BY StoreOverStep DEF Inv
<1>2. i \in Slots /\ creds[i] \in HeldIn(i) /\ creds[i] \in Cred
  BY DEF Used, HeldIn, Inv, Filled
<1>3. \A j \in Slots \ {i} : HeldIn(j)' = HeldIn(j)
  BY <1>1 DEF HeldIn, Inv, Filled
<1>4. CASE x = NoCred
  <2>1. HeldIn(i)' \subseteq HeldIn(i)
    BY <1>1, <1>2, <1>4 DEF HeldIn, Inv, Filled
  <2> QED BY <1>3, <2>1, FewerKeep DEF Inv
<1>5. CASE x = [rp |-> r, user |-> u]
  <2>1. x \in Cred /\ x.rp = r /\ x.user = u
    BY <1>5 DEF Cred
  <2>2. HeldIn(i)' \subseteq HeldIn(i) \cup {x}
    BY <1>1, <1>2 DEF HeldIn, Inv, Filled
  <2>3. ASSUME NEW j \in Slots \ {i}, NEW y \in HeldIn(j), y.rp = r, Alike(y.user, u)
        PROVE  FALSE
    <3>1. y.user \in Users /\ creds[i].user \in Users
      BY <1>2 DEF HeldIn, Inv, Filled, Cred
    <3>2. Alike(u, creds[i].user)
      BY <1>1, <3>1, AlikeAssumption
    <3>3. Alike(y.user, creds[i].user)
      BY <2>3, <3>1, <3>2 DEF AlikeIsTransitive
    <3> QED BY <1>1, <1>2, <2>3, <3>3 DEF Inv, Apart
  <2> QED BY <1>2, <1>3, <2>1, <2>2, <2>3, OneMoreKeeps DEF Inv
<1> QED BY <1>4, <1>5

LEMMA StoreNewKeeps ==
  ASSUME Inv, NEW r \in Rps, NEW u \in Users, StoreNew(r, u)
  PROVE  Apart'
<1> DEFINE new == [rp |-> r, user |-> u]
<1>1. /\ chip' = chip
      /\ \/ creds' = creds
         \/ \E i \in Slots \ Used : creds' = [creds EXCEPT ![i] = new]
  BY StoreNewStep DEF Inv
<1>2. CASE creds' = creds
  BY <1>1, <1>2, FewerKeep DEF Inv, HeldIn
<1>3. CASE creds' # creds
  <2>1. PICK i \in Slots \ Used : creds' = [creds EXCEPT ![i] = new]
    BY <1>1, <1>3
  <2>2. new \in Cred /\ new.rp = r /\ new.user = u
    BY DEF Cred
  <2> HIDE DEF new
  <2>3. \A j \in Slots \ {i} : HeldIn(j)' = HeldIn(j)
    BY <1>1, <2>1 DEF HeldIn, Inv, Filled
  <2>4. HeldIn(i)' \subseteq HeldIn(i) \cup {new}
    BY <1>1, <2>1 DEF HeldIn, Inv, Filled
  <2>5. \A j \in Slots : HeldIn(j) \subseteq {creds[j]} /\ (HeldIn(j) # {} => j \in Used)
    BY DEF StoreNew, Ready, HeldIn, Used
  <2>6. \A j \in Used : creds[j].rp = r => ~Alike(creds[j].user, u)
    BY DEF StoreNew, LikeIt, UsedBy, Used
  <2>7. \A j \in Slots \ {i} : \A x \in HeldIn(j) : x.rp = new.rp => ~Alike(x.user, new.user)
    BY <2>2, <2>5, <2>6
  <2> QED BY <2>1, <2>2, <2>3, <2>4, <2>7, OneMoreKeeps DEF Inv
<1> QED BY <1>2, <1>3

\* Neither a deletion, a reset, a commit nor a power cut brings anything new.
LEMMA NothingNew ==
  ASSUME Inv,
         \/ \E i \in Slots : Delete(i)
         \/ Reset \/ Commit \/ PowerCut
  PROVE  Apart'
<1>1. ASSUME NEW i \in Slots, Delete(i) PROVE Apart'
  <2>1. creds' = [creds EXCEPT ![i] = NoCred] /\ chip' = chip
    BY <1>1 DEF Delete
  <2> QED BY <2>1, FewerKeep DEF HeldIn, Inv, Filled
<1>2. CASE Reset
  <2>1. creds' = [i \in Slots |-> NoCred] /\ chip'.creds = chip.creds
    BY <1>2, ResetStep, EmptyIsFilled DEF Inv, Filled
  <2> QED BY <2>1, FewerKeep DEF HeldIn, Inv
<1>3. CASE PowerCut
  <2>1. creds' = chip.creds /\ chip'.creds = chip.creds
    BY <1>3, PowerCutStep DEF Inv, Filled
  <2> QED BY <2>1, FewerKeep DEF HeldIn, Inv
<1>4. CASE Commit
  <2>1. /\ creds' = creds
        /\ \/ chip'.creds = [i \in Slots |-> NoCred]
           \/ chip'.creds = chip.creds
           \/ \E i \in Slots : chip'.creds = [chip.creds EXCEPT ![i] = creds[i]]
    <3>1. creds' = creds
      BY <1>4, CommitStep DEF Inv, Filled
    <3>2. CASE chip' = Empty
      BY <3>1, <3>2, EmptyIsFilled
    <3>3. CASE chip' # Empty
      <4>1. PICK i \in Slots, t \in {torn, torn + 1} :
              \/ chip' = [chip EXCEPT !.creds = [@ EXCEPT ![i] = creds[i]], !.torn = t]
              \/ chip' = [chip EXCEPT !.rps = [@ EXCEPT ![i] = rps[i]], !.torn = t]
        BY <1>4, <3>3, CommitStep DEF Inv, Filled
      <4>2. \/ chip'.creds = [chip.creds EXCEPT ![i] = creds[i]]
            \/ chip'.creds = chip.creds
        BY <4>1 DEF Inv, Filled, IsChip
      <4> QED BY <3>1, <4>2
    <3> QED BY <3>2, <3>3
  <2>2. \A j \in Slots : HeldIn(j)' \subseteq HeldIn(j)
    BY <2>1 DEF HeldIn, Inv, Filled
  <2> QED BY <2>2, FewerKeep DEF Inv
<1> QED BY <1>1, <1>2, <1>3, <1>4

LEMMA InitInv ==
  Init => Inv
<1> SUFFICES ASSUME Init PROVE Inv
  OBVIOUS
<1>1. \A i \in Slots : HeldIn(i) = {}
  BY EmptyIsFilled DEF Init, HeldIn
<1> QED BY <1>1, InitFilled DEF Inv, Apart

LEMMA NextInv ==
  AlikeIsTransitive /\ Inv /\ [Next]_vars => Inv'
<1> SUFFICES ASSUME AlikeIsTransitive, Inv, [Next]_vars PROVE Apart'
  BY NextFilled DEF Inv
<1>1. ASSUME NEW r \in Rps, NEW u \in Users, StoreOver(r, u) PROVE Apart'
  BY <1>1, StoreOverKeeps
<1>2. ASSUME NEW r \in Rps, NEW u \in Users, StoreNew(r, u) PROVE Apart'
  BY <1>2, StoreNewKeeps
<1>3. ASSUME NEW i \in Slots, Delete(i) PROVE Apart'
  BY <1>3, NothingNew
<1>4. CASE Reset \/ Commit \/ PowerCut
  BY <1>4, NothingNew
<1>5. CASE \/ CountUp \/ CountDown \/ Abort
           \/ EnumerateRps \/ EnumerateCreds \/ AskAssertions
           \/ UNCHANGED vars
  BY <1>5, OthersKeepCreds, FewerKeep DEF HeldIn, Inv
<1> QED BY <1>1, <1>2, <1>3, <1>4, <1>5 DEF Next, Write

\* Where likeness of user ids is transitive, as it is when they have one length,
\* no relying party ever has two credentials for one user, or for two whose ids
\* are alike, however stores, updates, deletions, aborts, resets and power cuts
\* follow each other (credential_store), also when the chip had only some of the
\* files, for any number of slots.
THEOREM NeverTwoCredentials ==
  ASSUME AlikeIsTransitive
  PROVE  Spec => []OneCredentialPerUser
<1>1. Inv => OneCredentialPerUser
  BY DEF Inv, Apart, HeldIn, OneCredentialPerUser, Used
<1>2. Inv /\ [Next]_vars => Inv'
  BY NextInv
<1> QED BY InitInv, <1>1, <1>2, PTL DEF Spec
-----------------------------------------------------------------------------
(* The slots implement Accounts.                                           *)

One(x) == IF x = NoCred THEN {} ELSE {<<x.rp, x.user>>}
But(c, i) == {<<c[j].rp, c[j].user>> : j \in {k \in Slots \ {i} : c[k] # NoCred}}

LEMMA AccountsApart ==
  ASSUME NEW c, NEW i \in Slots
  PROVE  AccountsOf(c) = But(c, i) \cup One(c[i])
BY DEF AccountsOf, But, One

LEMMA ApartAfter ==
  ASSUME NEW c \in [Slots -> Cred \cup {NoCred}], NEW i \in Slots, NEW x,
         NEW d, d = [c EXCEPT ![i] = x]
  PROVE  AccountsOf(d) = But(c, i) \cup One(x)
<1>1. d[i] = x /\ \A j \in Slots \ {i} : d[j] = c[j]
  OBVIOUS
<1>2. But(d, i) = But(c, i)
  BY <1>1 DEF But
<1> QED BY <1>1, <1>2, AccountsApart

LEMMA SlotChanges ==
  ASSUME Filled, NEW i \in Slots, NEW x, creds' = [creds EXCEPT ![i] = x]
  PROVE  AccountsOf(creds)' = But(creds, i) \cup One(x)
<1>1. creds \in [Slots -> Cred \cup {NoCred}]
  BY DEF Filled
<1>2. PICK d : d = creds'
  OBVIOUS
<1>3. AccountsOf(d) = But(creds, i) \cup One(x)
  BY <1>1, <1>2, ApartAfter
<1>4. AccountsOf(creds)' = AccountsOf(creds')
  BY DEF AccountsOf
<1> QED BY <1>2, <1>3, <1>4

LEMMA StoreOverRegisters ==
  ASSUME Filled, NEW r \in Rps, NEW u \in Users, StoreOver(r, u)
  PROVE  Store!Next \/ UNCHANGED <<AccountsOf(creds), AccountsOf(chip.creds)>>
<1> DEFINE new == [rp |-> r, user |-> u]
<1>1. PICK i \in Used, x \in {new, NoCred} :
        /\ creds[i].rp = r /\ Alike(creds[i].user, u)
        /\ creds' = [creds EXCEPT ![i] = x]
        /\ chip' = chip
  BY StoreOverStep
<1>2. /\ i \in Slots /\ creds[i] # NoCred /\ new \in Cred
      /\ One(new) = {<<r, u>>} /\ One(NoCred) = {}
      /\ One(creds[i]) = {<<creds[i].rp, creds[i].user>>}
  BY CredentialsAssumption DEF Used, Cred, One
<1> DEFINE A == AccountsOf(creds)
           B == But(creds, i)
           a == <<creds[i].rp, creds[i].user>>
<1>3. A = B \cup {a} /\ A' = B \cup One(x)
  <2>1. A = B \cup One(creds[i])
    BY <1>2, AccountsApart
  <2>2. A' = B \cup One(x)
    BY <1>1, <1>2, SlotChanges
  <2> QED BY <1>2, <2>1, <2>2
<1>4. a[1] = r /\ Alike(a[2], u) /\ AccountsOf(chip.creds)' = AccountsOf(chip.creds)
  BY <1>1
<1> HIDE DEF new, B, a
<1>5. \/ A' = A \cup {<<r, u>>}
      \/ A' = (A \ {a}) \cup {<<r, u>>}
      \/ A' = A \ {a}
      \/ A' = A
  <2>1. CASE a \in B
    BY <1>1, <1>2, <1>3, <2>1
  <2>2. CASE a \notin B
    BY <1>1, <1>2, <1>3, <2>2
  <2> QED BY <2>1, <2>2
<1>6. a \in A
  BY <1>3
<1> QED BY <1>4, <1>5, <1>6 DEF Store!Next, Store!Register

LEMMA StoreNewRegisters ==
  ASSUME Filled, NEW r \in Rps, NEW u \in Users, StoreNew(r, u)
  PROVE  Store!Next \/ UNCHANGED <<AccountsOf(creds), AccountsOf(chip.creds)>>
<1> DEFINE new == [rp |-> r, user |-> u]
           A == AccountsOf(creds)
<1>1. /\ chip' = chip
      /\ \/ creds' = creds
         \/ \E i \in Slots \ Used : creds' = [creds EXCEPT ![i] = new]
  BY StoreNewStep
<1>2. CASE creds' = creds
  BY <1>1, <1>2
<1>3. CASE creds' # creds
  <2>1. PICK i \in Slots \ Used : creds' = [creds EXCEPT ![i] = new]
    BY <1>1, <1>3
  <2>2. new \in Cred /\ creds[i] = NoCred /\ One(new) = {<<r, u>>} /\ One(NoCred) = {}
    BY CredentialsAssumption DEF Used, Cred, One
  <2> HIDE DEF new
  <2>3. A' = A \cup {<<r, u>>}
    <3>1. A = But(creds, i) \cup One(creds[i])
      BY AccountsApart
    <3>2. A' = But(creds, i) \cup One(new)
      BY <2>1, SlotChanges
    <3> QED BY <2>2, <3>1, <3>2
  <2>4. AccountsOf(chip.creds)' = AccountsOf(chip.creds)
    BY <1>1
  <2> QED BY <2>3, <2>4 DEF Store!Next, Store!Register
<1> QED BY <1>2, <1>3

LEMMA DeleteRemoves ==
  ASSUME Filled, NEW i \in Slots, Delete(i)
  PROVE  Store!Next \/ UNCHANGED <<AccountsOf(creds), AccountsOf(chip.creds)>>
<1> DEFINE A == AccountsOf(creds)
           B == But(creds, i)
           a == <<creds[i].rp, creds[i].user>>
<1>1. /\ creds[i] # NoCred /\ creds' = [creds EXCEPT ![i] = NoCred]
      /\ AccountsOf(chip.creds)' = AccountsOf(chip.creds)
  BY DEF Delete, Used
<1>2. A = B \cup {a} /\ A' = B
  <2>1. A = B \cup One(creds[i])
    BY AccountsApart
  <2>2. A' = B \cup One(NoCred)
    BY <1>1, SlotChanges
  <2> QED BY <1>1, <2>1, <2>2 DEF One
<1> HIDE DEF B, a
<1>3. a \in A /\ (A' = A \/ A' = A \ {a})
  BY <1>2
<1> QED BY <1>1, <1>3 DEF Store!Next, Store!Remove

\* A file that reaches the chip brings its account, and takes away the one it
\* held there.
LEMMA CommitKeeps ==
  ASSUME Filled, Commit
  PROVE  Store!Next \/ UNCHANGED <<AccountsOf(creds), AccountsOf(chip.creds)>>
<1> DEFINE A == AccountsOf(creds)
           K == AccountsOf(chip.creds)
<1>1. creds' = creds
  BY CommitStep DEF Filled
<1>2. AccountsOf(Empty.creds) = {}
  BY EmptyIsFilled DEF AccountsOf
<1>3. CASE chip.wiped /\ chip' = Empty
  <2>1. A = {} /\ A' = A /\ K' = {}
    BY <1>1, <1>2, <1>3 DEF Filled
  <2> QED BY <2>1 DEF Store!Next, Store!KeepNone
<1>4. CASE ~(chip.wiped /\ chip' = Empty)
  <2>1. PICK i \in Slots, t \in {torn, torn + 1} :
          \/ chip' = [chip EXCEPT !.creds = [@ EXCEPT ![i] = creds[i]], !.torn = t]
          \/ chip' = [chip EXCEPT !.rps = [@ EXCEPT ![i] = rps[i]], !.torn = t]
    BY <1>4, CommitStep DEF Filled
  <2>2. CASE chip'.creds = chip.creds
    BY <1>1, <2>2
  <2>3. CASE chip'.creds # chip.creds
    <3> DEFINE B == But(chip.creds, i)
    <3>1. chip'.creds = [chip.creds EXCEPT ![i] = creds[i]]
      BY <2>1, <2>3 DEF Filled, IsChip
    <3>2. K = B \cup One(chip.creds[i]) /\ K' = B \cup One(creds[i])
      <4>1. K = B \cup One(chip.creds[i])
        BY AccountsApart
      <4>2. AccountsOf(chip'.creds) = B \cup One(creds[i])
        BY <3>1, ApartAfter DEF Filled
      <4>3. K' = AccountsOf(chip'.creds)
        BY DEF AccountsOf
      <4> QED BY <4>1, <4>2, <4>3
    <3>3. One(creds[i]) \subseteq A
      BY AccountsApart DEF Filled
    <3>4. /\ One(creds[i]) = {} \/ \E a : One(creds[i]) = {a}
          /\ One(chip.creds[i]) = {} \/ \E b : One(chip.creds[i]) = {b}
      BY DEF One
    <3> HIDE DEF A, K, B
    <3>5. \/ K' = K
          \/ \E a \in A \cup K, b \in A \cup K :
               K' \in {K \cup (A \cap {a}), K \ {b}, (K \ {b}) \cup (A \cap {a})}
      <4>1. CASE One(creds[i]) = {}
        BY <3>2, <3>4, <4>1
      <4>2. ASSUME NEW a, One(creds[i]) = {a}
            PROVE  \E b \in A \cup K : K' \in {K \cup (A \cap {a}), (K \ {b}) \cup (A \cap {a})}
        <5>1. a \in A /\ A \cap {a} = {a} /\ K' = B \cup {a}
          BY <3>2, <3>3, <4>2
        <5>2. CASE One(chip.creds[i]) \subseteq B
          BY <3>2, <5>1, <5>2
        <5>3. CASE ~(One(chip.creds[i]) \subseteq B)
          <6>1. PICK b : One(chip.creds[i]) = {b} /\ b \notin B
            BY <3>4, <5>3
          <6>2. b \in K /\ K' = (K \ {b}) \cup {a}
            BY <3>2, <5>1, <6>1
          <6> QED BY <5>1, <6>2
        <5> QED BY <5>2, <5>3
      <4> QED BY <3>3, <3>4, <4>1, <4>2
    <3>6. CASE K' = K
      BY <1>1, <3>6 DEF A, K
    <3>7. CASE K' # K
      <4>1. Store!Keep
        BY <1>1, <3>5, <3>7 DEF Store!Keep, A, K
      <4> QED BY <4>1 DEF Store!Next
    <3> QED BY <3>6, <3>7
  <2> QED BY <2>2, <2>3
<1> QED BY <1>3, <1>4

LEMMA StepImplements ==
  Filled /\ [Next]_vars =>
    /\ Filled'
    /\ [Store!Next]_(<<AccountsOf(creds), AccountsOf(chip.creds)>>)
<1> DEFINE Step == Store!Next \/ UNCHANGED <<AccountsOf(creds), AccountsOf(chip.creds)>>
<1> SUFFICES ASSUME Filled, [Next]_vars PROVE Step
  BY NextFilled
<1>1. ASSUME NEW r \in Rps, NEW u \in Users, StoreOver(r, u) PROVE Step
  BY <1>1, StoreOverRegisters
<1>2. ASSUME NEW r \in Rps, NEW u \in Users, StoreNew(r, u) PROVE Step
  BY <1>2, StoreNewRegisters
<1>3. ASSUME NEW i \in Slots, Delete(i) PROVE Step
  BY <1>3, DeleteRemoves
<1>4. CASE Reset
  <2>1. AccountsOf(creds)' = {} /\ AccountsOf(chip.creds)' = AccountsOf(chip.creds)
    BY <1>4, ResetStep, EmptyIsFilled DEF AccountsOf, Filled
  <2> QED BY <2>1 DEF Store!Next, Store!Reset
<1>5. CASE PowerCut
  <2>1. AccountsOf(creds)' = AccountsOf(chip.creds) /\ UNCHANGED AccountsOf(chip.creds)
    BY <1>5, PowerCutStep DEF Filled
  <2> QED BY <2>1 DEF Store!Next, Store!PowerCut
<1>6. CASE Commit
  BY <1>6, CommitKeeps
<1>7. CASE \/ CountUp \/ CountDown \/ Abort
           \/ EnumerateRps \/ EnumerateCreds \/ AskAssertions
           \/ UNCHANGED vars
  BY <1>7, OthersKeepCreds
<1> QED BY <1>1, <1>2, <1>3, <1>4, <1>5, <1>6, <1>7 DEF Next, Write

\* The slots behave as a set of accounts that changes by one account at a time:
\* a store loses no account but one like its own, a deletion none but the one it
\* names (credential_store, cbor_cred_mgmt 0x06), and a power cut leaves the
\* accounts whose files were on the chip (do_flash), for any number of slots and
\* ids of any lengths.
THEOREM SlotsImplementAccounts == Spec => ImplementsAccounts
<1>1. Init => Filled /\ Store!Init
  <2> SUFFICES ASSUME Init PROVE AccountsOf(creds) = {} /\ AccountsOf(chip.creds) = {}
    BY InitFilled DEF Store!Init
  <2> QED BY EmptyIsFilled DEF Init, AccountsOf
<1> QED BY StepImplements, <1>1, PTL DEF Spec, ImplementsAccounts, Store!Spec, Store!vars
-----------------------------------------------------------------------------
(* The list of getNextAssertion.  While the client follows it, what it was *)
(* told is the beginning of an order of what is due; the rest of it is     *)
(* kept, or there is no rest.                                              *)

ListSound ==
  listWalk.on =>
    LET told == listWalk.told
        n == Cardinality(listWalk.due)
    IN  /\ IsFiniteSet(listWalk.due)
        /\ told \in Seq(listWalk.due)
        /\ \E s \in Orders(listWalk.due) :
             /\ \A k \in 1..Len(told) : told[k] = s[k]
             /\ \/ Len(told) < n /\ credsx = s /\ credentialCounter = Len(told)
                \/ Len(told) = n /\ credsx = <<>> /\ credentialCounter = 0

LEMMA VisibleIsFinite ==
  ASSUME NEW r \in Rps, NEW uv \in BOOLEAN
  PROVE  IsFiniteSet(Visible(r, uv))
<1>1. Visible(r, uv) \in SUBSET Slots
  BY DEF Visible, Listed, UsedBy
<1>2. IsFiniteSet(Slots)
  BY CredentialsAssumption, FS_Interval DEF Slots
<1> QED BY <1>1, <1>2, FS_Subset

LEMMA CountsOf ==
  ASSUME NEW k \in Nat
  PROVE  IsFiniteSet(1..k) /\ Cardinality(1..k) = k
BY FS_Interval

\* An order of a finite set is one of its length without repetition.
LEMMA OrderFacts ==
  ASSUME NEW S, IsFiniteSet(S), NEW s \in Orders(S)
  PROVE  /\ Cardinality(S) \in Nat
         /\ s \in Seq(S) /\ Len(s) = Cardinality(S)
         /\ s \in Injection(1..Cardinality(S), S)
         /\ s \in Surjection(1..Cardinality(S), S)
<1>1. Cardinality(S) \in Nat
  BY FS_CardinalityType
<1>2. s \in [1..Cardinality(S) -> S] /\ \A c \in S : \E k \in 1..Cardinality(S) : s[k] = c
  BY DEF Orders
<1>3. s \in Surjection(1..Cardinality(S), S)
  BY <1>2 DEF Surjection
<1>4. IsFiniteSet(1..Cardinality(S)) /\ Cardinality(1..Cardinality(S)) = Cardinality(S)
  BY <1>1, CountsOf
<1>5. s \in Injection(1..Cardinality(S), S)
  BY <1>3, <1>4, FS_SurjSameCardinalityImpliesInj
<1> QED BY <1>1, <1>2, <1>3, <1>5

LEMMA SoundIsComplete ==
  ListSound => AssertionsComplete
<1> SUFFICES ASSUME ListSound, listWalk.on
             PROVE  /\ Cardinality(Told(listWalk)) = Len(listWalk.told)
                    /\ Told(listWalk) \subseteq listWalk.due
                    /\ credentialCounter >= Len(credsx) => Told(listWalk) = listWalk.due
  BY DEF AssertionsComplete, Complete
<1> DEFINE due == listWalk.due
           told == listWalk.told
           n == Cardinality(due)
           m == Len(told)
<1>1. IsFiniteSet(due) /\ told \in Seq(due)
  BY DEF ListSound
<1>2. PICK s \in Orders(due) :
        /\ \A k \in 1..m : told[k] = s[k]
        /\ \/ m < n /\ credsx = s /\ credentialCounter = m
           \/ m = n /\ credsx = <<>> /\ credentialCounter = 0
  BY DEF ListSound
<1> HIDE DEF due, told
<1>3. n \in Nat /\ m \in Nat /\ m <= n
  BY <1>1, <1>2, OrderFacts
<1>4. s \in Injection(1..n, due) /\ s \in Surjection(1..n, due) /\ Len(s) = n
  BY <1>1, OrderFacts
<1>5. Told(listWalk) = {told[k] : k \in 1..m}
  BY DEF Told, told
<1>6. \A k \in 1..m : told[k] \in due
  BY <1>1
<1>7. Cardinality(Told(listWalk)) = m
  <2> DEFINE f == [k \in 1..m |-> told[k]]
  <2>1. \A j, k \in 1..m : told[j] = told[k] => j = k
    <3> SUFFICES ASSUME NEW j \in 1..m, NEW k \in 1..m, told[j] = told[k] PROVE j = k
      OBVIOUS
    <3>1. j \in 1..n /\ k \in 1..n /\ s[j] = s[k]
      BY <1>2, <1>3
    <3> QED BY <1>4, <3>1 DEF Injection, IsInjective
  <2>2. f \in Surjection(1..m, Told(listWalk)) /\ f \in Injection(1..m, Told(listWalk))
    BY <1>5, <2>1 DEF Surjection, Injection, IsInjective
  <2>3. IsFiniteSet(1..m) /\ Cardinality(1..m) = m
    BY <1>3, CountsOf
  <2> HIDE DEF f
  <2>4. Cardinality(Told(listWalk)) = Cardinality(1..m)
    BY <2>2, <2>3, FS_Surjection
  <2> QED BY <2>3, <2>4
<1>8. ASSUME credentialCounter >= Len(credsx) PROVE due \subseteq Told(listWalk)
  <2>1. m = n
    BY <1>2, <1>3, <1>4, <1>8
  <2>2. ASSUME NEW c \in due PROVE c \in Told(listWalk)
    <3>1. PICK k \in 1..n : s[k] = c
      BY <1>4 DEF Surjection
    <3> QED BY <1>2, <1>5, <2>1, <3>1
  <2> QED BY <2>2
<1> QED BY <1>5, <1>6, <1>7, <1>8 DEF due, told

LEMMA AskingIsSound ==
  ASSUME NEW r \in Rps, NEW uv \in BOOLEAN, NEW up \in BOOLEAN, NEW fails \in BOOLEAN,
         GetAssertion(r, uv, up, fails)
  PROVE  ListSound'
<1> SUFFICES ASSUME listWalk'.on PROVE ListSound'
  BY DEF ListSound
<1> DEFINE V == Visible(r, uv)
<1>1. /\ Cardinality(V) > 1 /\ credsx' \in Orders(V) /\ credentialCounter' = 1
      /\ listWalk' = [on |-> TRUE, told |-> <<credsx'[1]>>, due |-> V]
  BY DEF GetAssertion, Off
<1>2. IsFiniteSet(V)
  BY VisibleIsFinite
<1> HIDE DEF V
<1>3. Cardinality(V) \in Nat /\ credsx' \in [1..Cardinality(V) -> V]
  BY <1>1, <1>2, FS_CardinalityType DEF Orders
<1>4. credsx'[1] \in V
  BY <1>1, <1>3
<1>5. /\ listWalk'.due = V /\ listWalk'.told = <<credsx'[1]>>
      /\ listWalk'.told \in Seq(V) /\ Len(listWalk'.told) = 1
      /\ \A k \in 1..Len(listWalk'.told) : listWalk'.told[k] = credsx'[k]
  BY <1>1, <1>4
<1> QED BY <1>1, <1>2, <1>3, <1>5 DEF ListSound, Orders

LEMMA NextIsSound ==
  ASSUME ListSound, GetNextAssertion
  PROVE  ListSound'
<1> SUFFICES ASSUME listWalk'.on PROVE ListSound'
  BY DEF ListSound
<1>1. /\ credentialCounter < Len(credsx) /\ listWalk.on
      /\ listWalk' = [listWalk EXCEPT !.told = Append(@, credsx[credentialCounter + 1])]
      /\ IF credentialCounter + 1 = Len(credsx)
           THEN DropList
           ELSE credentialCounter' = credentialCounter + 1 /\ UNCHANGED credsx
  BY DEF GetNextAssertion, Off
<1> DEFINE due == listWalk.due
           told == listWalk.told
           n == Cardinality(due)
           m == Len(told)
<1>2. IsFiniteSet(due) /\ told \in Seq(due)
  BY <1>1 DEF ListSound
<1>3. PICK s \in Orders(due) :
        /\ \A k \in 1..m : told[k] = s[k]
        /\ \/ m < n /\ credsx = s /\ credentialCounter = m
           \/ m = n /\ credsx = <<>> /\ credentialCounter = 0
  BY <1>1 DEF ListSound
<1>4. m < n /\ credsx = s /\ credentialCounter = m
  BY <1>1, <1>3
<1> DEFINE more == Append(told, s[m + 1])
<1>5. listWalk'.due = due /\ listWalk'.told = more
  BY <1>1, <1>4
<1> HIDE DEF due, told
<1>6. m \in Nat /\ n \in Nat /\ Len(s) = n /\ s[m + 1] \in due
  <2>1. n \in Nat /\ s \in Seq(due) /\ Len(s) = n
    BY <1>2, OrderFacts
  <2>2. m \in Nat
    BY <1>2
  <2> QED BY <1>4, <2>1, <2>2
<1>7. /\ more \in Seq(due) /\ Len(more) = m + 1
      /\ \A k \in 1..m + 1 : more[k] = s[k]
  <2>1. /\ more \in Seq(due) /\ Len(more) = m + 1 /\ more[m + 1] = s[m + 1]
        /\ \A k \in 1..m : more[k] = told[k]
    BY <1>2, <1>6
  <2> QED BY <1>3, <1>6, <2>1
<1>8. \/ m + 1 < n /\ credsx' = s /\ credentialCounter' = m + 1
      \/ m + 1 = n /\ credsx' = <<>> /\ credentialCounter' = 0
  BY <1>1, <1>4, <1>6 DEF DropList
<1> HIDE DEF more
<1>9. s \in Orders(listWalk'.due)
  BY <1>3, <1>5
<1> QED BY <1>2, <1>5, <1>7, <1>8, <1>9 DEF ListSound, Orders

LEMMA OthersKeepTheList ==
  ASSUME ListSound, [Next]_vars,
         \A r \in Rps, uv, up, fails \in BOOLEAN : ~GetAssertion(r, uv, up, fails),
         ~GetNextAssertion
  PROVE  ListSound'
<1> DEFINE Kept == ~listWalk'.on \/ UNCHANGED list
<1> SUFFICES Kept
  BY DEF ListSound, list, Orders
<1>1. ASSUME NEW r \in Rps, NEW u \in Users, StoreOver(r, u) \/ StoreNew(r, u) PROVE Kept
  BY <1>1 DEF StoreOver, StoreNew, WalksOff, Off, list
<1>2. ASSUME NEW i \in Slots, Delete(i) PROVE Kept
  BY <1>2 DEF Delete, WalksOff, Off, list
<1>3. CASE CountUp \/ CountDown \/ Abort \/ Reset \/ Commit \/ PowerCut
  BY <1>3 DEF CountUp, CountDown, Abort, Reset, Commit, PowerCut, WalksOff, Off, list
<1>4. CASE EnumerateRps \/ EnumerateCreds
  BY <1>4 DEF EnumerateRps, RpsBegin, RpsNext, EnumerateCreds, CredsBegin, CredsNext, list
<1>5. CASE Expire \/ UNCHANGED vars
  BY <1>5 DEF Expire, Off, vars, list
<1> QED BY <1>1, <1>2, <1>3, <1>4, <1>5 DEF Next, Write, AskAssertions

\* getAssertion and the calls of getNextAssertion after it give every credential
\* that the client may see once and no other, among the first LIST of the
\* relying party (cbor_get_assertion.c collects no more), for any number of
\* slots and any LIST, as long as no command that changes them comes between
\* (credsx, credentialCounter).
THEOREM EveryAssertionOnce == Spec => []AssertionsComplete
<1>1. Init => ListSound
  BY DEF Init, InitRam, ListSound, Off
<1>2. ListSound /\ [Next]_vars => ListSound'
  BY AskingIsSound, NextIsSound, OthersKeepTheList
<1> QED BY <1>1, <1>2, SoundIsComplete, PTL DEF Spec
-----------------------------------------------------------------------------
(* The counts.  Between the two writes the count of one relying party is   *)
(* one behind or ahead; the table of files bounds every count, so that     *)
(* none comes round to 0.                                                  *)

Awaited(r) ==
  CASE pc = "countUp" /\ who = r   -> Cardinality(UsedBy(r)) - 1
    [] pc = "countDown" /\ who = r -> Cardinality(UsedBy(r)) + 1
    [] OTHER                       -> Cardinality(UsedBy(r))

Counts(r, n) ==
  IF n = 0 THEN RpSlot(r) = {}
  ELSE \E i \in Slots : RpSlot(r) = {i} /\ rps[i].count = n

\* What the chip holds between commands, when nothing was torn.
Agree(c, s) ==
  \A r \in Rps :
    LET n == Cardinality({i \in Slots : c[i] # NoCred /\ c[i].rp = r})
        S == {i \in Slots : s[i] # NoRp /\ s[i].rp = r}
    IN  IF n = 0 THEN S = {} ELSE \E i \in Slots : S = {i} /\ s[i].count = n

\* Files that are there, or will be after a power cut.
CredFiles == Used \cup {i \in Slots : chip.creds[i] # NoCred}
RpFiles == RpUsed \cup {i \in Slots : chip.rps[i] # NoRp}
Behind == /\ ~chip.wiped /\ chip.rps = rps
          /\ \A i \in Slots : chip.creds[i] \in {creds[i], NoCred}

RpsFilled == /\ rps \in [Slots -> Rp \cup {NoRp}]
             /\ chip.rps \in [Slots -> Rp \cup {NoRp}]
InTable == Cardinality(CredFiles) + Cardinality(RpFiles) <= TABLE
InTurn == /\ pc \in {"idle", "countUp", "countDown"}
          /\ pc # "idle" => who \in Rps
          /\ pc = "countUp" => Behind
          /\ torn \in Nat /\ chip.torn \in Nat
CountsInv == /\ Filled /\ RpsFilled /\ InTable /\ InTurn
             /\ torn = 0 => \A r \in Rps : Counts(r, Awaited(r))
             /\ chip.torn = 0 => Agree(chip.creds, chip.rps)

LEMMA SlotSets ==
  /\ IsFiniteSet(Slots)
  /\ \A S \in SUBSET Slots : IsFiniteSet(S) /\ Cardinality(S) \in Nat
  /\ IsFiniteSet(Used) /\ IsFiniteSet(RpUsed)
  /\ Cardinality(Used) \in Nat /\ Cardinality(RpUsed) \in Nat
  /\ \A r : IsFiniteSet(UsedBy(r)) /\ Cardinality(UsedBy(r)) \in Nat
<1>1. IsFiniteSet(Slots)
  BY CredentialsAssumption, FS_Interval DEF Slots
<1>2. \A S \in SUBSET Slots : IsFiniteSet(S) /\ Cardinality(S) \in Nat
  BY <1>1, FS_Subset, FS_CardinalityType
<1>3. /\ Used \in SUBSET Slots /\ RpUsed \in SUBSET Slots
      /\ \A r : UsedBy(r) \in SUBSET Slots
  BY DEF Used, RpUsed, UsedBy
<1> QED BY <1>1, <1>2, <1>3

LEMMA FewerFit ==
  ASSUME InTable, CredFiles' \subseteq CredFiles, RpFiles' \subseteq RpFiles
  PROVE  InTable'
<1>1. /\ CredFiles \in SUBSET Slots /\ CredFiles' \in SUBSET Slots
      /\ RpFiles \in SUBSET Slots /\ RpFiles' \in SUBSET Slots
  BY DEF CredFiles, Used, RpFiles, RpUsed
<1>2. /\ Cardinality(CredFiles) \in Nat /\ Cardinality(CredFiles') \in Nat
      /\ Cardinality(RpFiles) \in Nat /\ Cardinality(RpFiles') \in Nat
      /\ IsFiniteSet(CredFiles) /\ IsFiniteSet(RpFiles)
  BY <1>1, SlotSets
<1>3. /\ Cardinality(CredFiles') <= Cardinality(CredFiles)
      /\ Cardinality(RpFiles') <= Cardinality(RpFiles)
  BY <1>2, FS_Subset
<1> QED BY <1>2, <1>3, CredentialsAssumption DEF InTable

LEMMA BehindFiles ==
  Behind => CredFiles = Used /\ RpFiles = RpUsed
BY DEF Behind, CredFiles, Used, RpFiles, RpUsed

LEMMA BehindFits ==
  ASSUME CountsInv, Behind
  PROVE  Cardinality(Used) + Cardinality(RpUsed) <= TABLE
BY BehindFiles DEF CountsInv, InTable

\* Between commands the two writes are done.
LEMMA IdleAgrees ==
  Idle => ((\A q \in Rps : Counts(q, Awaited(q))) <=> Agree(creds, rps))
<1> SUFFICES ASSUME Idle
             PROVE  (\A q \in Rps : Counts(q, Awaited(q))) <=> Agree(creds, rps)
  OBVIOUS
<1>1. \A r \in Rps : Awaited(r) = Cardinality(UsedBy(r))
  BY DEF Awaited, Idle
<1>2. \A r \in Rps :
        /\ UsedBy(r) = {i \in Slots : creds[i] # NoCred /\ creds[i].rp = r}
        /\ RpSlot(r) = {i \in Slots : rps[i] # NoRp /\ rps[i].rp = r}
  BY DEF UsedBy, RpSlot, RpUsed
<1> QED BY <1>1, <1>2 DEF Agree, Counts

\* A step that leaves the chip alone leaves its files in agreement.
LEMMA ChipStays ==
  ASSUME CountsInv, chip' = chip
  PROVE  /\ chip'.torn \in Nat /\ chip'.rps \in [Slots -> Rp \cup {NoRp}]
         /\ chip'.torn = 0 => Agree(chip'.creds, chip'.rps)
BY DEF CountsInv, InTurn, RpsFilled

LEMMA StoreOverCounts ==
  ASSUME CountsInv, Filled', NEW r \in Rps, NEW u \in Users, StoreOver(r, u)
  PROVE  CountsInv'
<1>1. PICK i \in Used, x \in {[rp |-> r, user |-> u], NoCred} :
        /\ creds[i].rp = r
        /\ creds' = [creds EXCEPT ![i] = x]
        /\ torn' = IF x = NoCred THEN torn + 1 ELSE torn
        /\ UNCHANGED <<rps, chip, pc, who>>
  BY StoreOverStep DEF CountsInv
<1>2. pc = "idle" /\ i \in Slots
  BY DEF StoreOver, Ready, Idle, Used
<1>3. RpsFilled' /\ InTurn' /\ RpFiles' = RpFiles
  BY <1>1, <1>2 DEF CountsInv, RpsFilled, InTurn, RpFiles, RpUsed
<1>4. InTable'
  <2>1. CredFiles' \subseteq CredFiles
    BY <1>1, <1>2 DEF CredFiles, Used, CountsInv, Filled
  <2> QED BY <1>3, <2>1, FewerFit DEF CountsInv
<1>5. ASSUME torn' = 0, NEW q \in Rps PROVE Counts(q, Awaited(q))'
  <2>1. x = [rp |-> r, user |-> u] /\ torn = 0
    BY <1>1, <1>5 DEF CountsInv, InTurn
  <2>2. x # NoCred /\ x.rp = r
    BY <2>1, CredentialsAssumption
  <2>3. UsedBy(q)' = UsedBy(q)
    BY <1>1, <1>2, <2>2 DEF Used, UsedBy, CountsInv, Filled
  <2>4. Awaited(q)' = Awaited(q)
    BY <1>1, <2>3 DEF Awaited
  <2>5. Counts(q, Awaited(q))
    BY <2>1 DEF CountsInv
  <2> QED BY <1>1, <2>4, <2>5 DEF Counts, RpSlot, RpUsed
<1> QED BY <1>1, <1>3, <1>4, <1>5, ChipStays DEF CountsInv

LEMMA StoreNewCounts ==
  ASSUME CountsInv, Filled', NEW r \in Rps, NEW u \in Users, StoreNew(r, u)
  PROVE  CountsInv'
<1> DEFINE new == [rp |-> r, user |-> u]
<1>1. /\ UNCHANGED <<rps, chip>> /\ pc = "idle" /\ pc' = "countUp" /\ who' = r
      /\ \/ creds' = creds /\ torn' = torn + 1
         \/ /\ HasRoom /\ torn' = torn
            /\ \E i \in Slots \ Used : creds' = [creds EXCEPT ![i] = new]
  BY StoreNewStep DEF CountsInv
<1>2. Behind
  BY DEF StoreNew, Ready, Behind
<1>3. RpsFilled' /\ RpUsed' = RpUsed /\ RpFiles' = RpFiles
  BY <1>1 DEF CountsInv, RpsFilled, RpUsed, RpFiles
<1>4. CASE creds' = creds /\ torn' = torn + 1
  <2>1. InTurn' /\ torn' # 0
    BY <1>1, <1>2, <1>4 DEF CountsInv, InTurn, Behind
  <2>2. InTable'
    BY <1>1, <1>3, <1>4, FewerFit DEF CountsInv, CredFiles, Used
  <2> QED BY <1>1, <1>3, <2>1, <2>2, ChipStays DEF CountsInv
<1>5. CASE HasRoom /\ torn' = torn /\ \E i \in Slots \ Used : creds' = [creds EXCEPT ![i] = new]
  <2>1. PICK i \in Slots \ Used : creds' = [creds EXCEPT ![i] = new]
    BY <1>5
  <2>2. new.rp = r /\ new \in Cred /\ new # NoCred
    BY CredentialsAssumption DEF Cred
  <2> HIDE DEF new
  <2>3. creds'[i] = new /\ \A j \in Slots \ {i} : creds'[j] = creds[j]
    BY <2>1 DEF CountsInv, Filled
  <2>4. /\ Used' = Used \cup {i} /\ i \notin UsedBy(r)
        /\ \A q : UsedBy(q)' = IF q = r THEN UsedBy(q) \cup {i} ELSE UsedBy(q)
    BY <2>1, <2>2, <2>3 DEF Used, UsedBy
  <2>5. Cardinality(Used') = Cardinality(Used) + 1
    BY <2>1, <2>4, SlotSets, FS_AddElement
  <2>6. Behind'
    <3>1. chip.creds[i] = NoCred
      BY <1>2, <2>1 DEF Behind, Used
    <3> QED BY <1>1, <1>2, <2>3, <3>1 DEF Behind
  <2>7. InTable'
    <3>1. CredFiles' = Used' /\ RpFiles' = RpUsed'
      <4>1. (CredFiles = Used /\ RpFiles = RpUsed)'
        BY <2>6, BehindFiles, PTL
      <4> QED BY <4>1
    <3> QED BY <1>3, <1>5, <2>5, <3>1, SlotSets, CredentialsAssumption DEF HasRoom, InTable
  <2>8. InTurn'
    BY <1>1, <1>5, <2>6 DEF CountsInv, InTurn
  <2>9. Cardinality(UsedBy(r)') = Cardinality(UsedBy(r)) + 1
    BY <2>4, SlotSets, FS_AddElement
  <2>10. \A q \in Rps : Awaited(q)' = Awaited(q)
    BY <1>1, <2>4, <2>9, SlotSets DEF Awaited
  <2>11. ASSUME torn = 0, NEW q \in Rps PROVE Counts(q, Awaited(q))'
    <3>1. Counts(q, Awaited(q))
      BY <2>11 DEF CountsInv
    <3> QED BY <1>1, <2>10, <3>1 DEF Counts, RpSlot, RpUsed
  <2> QED BY <1>1, <1>3, <1>5, <2>7, <2>8, <2>11, ChipStays DEF CountsInv
<1> QED BY <1>1, <1>4, <1>5

LEMMA DeleteCounts ==
  ASSUME CountsInv, Filled', NEW i \in Slots, Delete(i)
  PROVE  CountsInv'
<1>0. PICK r \in Rps : r = creds[i].rp
  BY DEF Delete, Used, CountsInv, Filled, Cred
<1>1. /\ i \in Used /\ creds' = [creds EXCEPT ![i] = NoCred] /\ UNCHANGED <<rps, chip, torn>>
      /\ pc = "idle" /\ pc' = "countDown" /\ who' = r
  BY <1>0 DEF Delete, Ready, Idle
<1>2. RpsFilled' /\ InTurn' /\ RpFiles' = RpFiles
  BY <1>1 DEF CountsInv, RpsFilled, InTurn, RpUsed, RpFiles
<1>3. /\ Used' = Used \ {i} /\ i \in UsedBy(r)
      /\ \A q : UsedBy(q)' = IF q = r THEN UsedBy(q) \ {i} ELSE UsedBy(q)
  BY <1>0, <1>1 DEF Used, UsedBy, CountsInv, Filled
<1>4. Cardinality(UsedBy(r)') = Cardinality(UsedBy(r)) - 1
  BY <1>1, <1>3, SlotSets, FS_RemoveElement
<1>5. InTable'
  <2>1. CredFiles' \subseteq CredFiles
    BY <1>1, <1>3 DEF CredFiles
  <2> QED BY <1>2, <2>1, FewerFit DEF CountsInv
<1>6. \A q \in Rps : Awaited(q)' = Awaited(q)
  BY <1>1, <1>3, <1>4, SlotSets DEF Awaited
<1>7. ASSUME torn = 0, NEW q \in Rps PROVE Counts(q, Awaited(q))'
  <2>1. Counts(q, Awaited(q))
    BY <1>7 DEF CountsInv
  <2> QED BY <1>1, <1>6, <2>1 DEF Counts, RpSlot, RpUsed
<1> QED BY <1>1, <1>2, <1>5, <1>7, ChipStays DEF CountsInv

LEMMA CountUpCounts ==
  ASSUME CountsInv, Filled', CountUp
  PROVE  CountsInv'
<1>0. /\ pc = "countUp" /\ who \in Rps /\ pc' = "idle" /\ creds' = creds /\ chip' = chip
      /\ torn' \in {torn, torn + 1}
      /\ Behind
  BY DEF CountUp, LoseUnless, Lose, CountsInv, InTurn
<1>1. InTurn' /\ Used' = Used /\ CredFiles' = CredFiles /\ \A q : UsedBy(q)' = UsedBy(q)
  BY <1>0 DEF CountsInv, InTurn, Used, CredFiles, UsedBy
<1>01. CredFiles = Used /\ RpFiles = RpUsed /\ chip.rps = rps
  BY <1>0, BehindFiles DEF Behind
<1>2. PICK r \in Rps : r = who
  BY <1>0
<1>3. \A q \in Rps : Awaited(q)' = Cardinality(UsedBy(q))
  BY <1>0, <1>1 DEF Awaited
<1>4. Awaited(r) = Cardinality(UsedBy(r)) - 1
  BY <1>0, <1>2 DEF Awaited
<1>5. \A q \in Rps : q # r => Awaited(q) = Cardinality(UsedBy(q))
  BY <1>0, <1>2 DEF Awaited
<1>6. Cardinality(UsedBy(r)) <= Cardinality(Used)
  <2>1. UsedBy(r) \in SUBSET Used
    BY DEF UsedBy, Used
  <2> QED BY <2>1, SlotSets, FS_Subset
<1>7. CASE RpSlot(r) # {}
  <2> DEFINE j == First(RpSlot(r))
  <2>1. j \in RpSlot(r) /\ RpSlot(r) \in SUBSET Slots
    BY <1>7, FirstIsFound DEF RpSlot, RpUsed
  <2>2. rps' = [rps EXCEPT ![j].count = (@ + 1) % COUNTS] /\ torn' = torn
    BY <1>2, <1>7 DEF CountUp
  <2> HIDE DEF j
  <2>3. j \in Slots /\ rps[j] \in Rp /\ rps[j].rp = r
    BY <2>1, CredentialsAssumption DEF RpSlot, RpUsed, CountsInv, RpsFilled
  <2>4. (rps[j].count + 1) % COUNTS \in 0..COUNTS - 1
    BY <2>3, CredentialsAssumption DEF Rp
  <2>5. /\ rps'[j] = [rp |-> r, count |-> (rps[j].count + 1) % COUNTS]
        /\ \A k \in Slots \ {j} : rps'[k] = rps[k]
    BY <2>2, <2>3 DEF CountsInv, RpsFilled, Rp
  <2>6. rps'[j] \in Rp
    BY <2>4, <2>5 DEF Rp
  <2>7. RpsFilled'
    BY <1>0, <2>2, <2>3, <2>5, <2>6 DEF CountsInv, RpsFilled
  <2>8. RpUsed' = RpUsed /\ \A q : RpSlot(q)' = RpSlot(q)
    BY <2>1, <2>3, <2>5, <2>6, CredentialsAssumption DEF RpUsed, RpSlot, Rp
  <2>9. InTable'
    <3>1. RpFiles' = RpFiles
      BY <1>0, <1>01, <2>8 DEF RpFiles, RpUsed
    <3> QED BY <1>1, <3>1 DEF CountsInv, InTable
  <2>10. ASSUME torn = 0, NEW q \in Rps PROVE Counts(q, Awaited(q))'
    <3>1. Counts(q, Awaited(q))
      BY <2>10 DEF CountsInv
    <3>2. CASE q # r
      <4>1. \A i \in RpSlot(q) : rps'[i] = rps[i]
        BY <2>3, <2>5, <3>2 DEF RpSlot, RpUsed
      <4> QED BY <1>3, <1>5, <2>8, <3>1, <3>2, <4>1 DEF Counts
    <3>3. CASE q = r
      <4>1. RpSlot(r) = {j} /\ rps[j].count = Cardinality(UsedBy(r)) - 1
        BY <1>4, <1>7, <2>1, <3>1, <3>3 DEF Counts
      <4>2. rps[j].count \in 0..COUNTS - 1
        BY <2>3 DEF Rp
      <4>3. Cardinality(RpUsed) >= 1
        <5>1. RpUsed # {}
          BY <2>1 DEF RpSlot
        <5> QED BY <5>1, SlotSets, FS_EmptySet
      <4>4. Cardinality(UsedBy(r)) < COUNTS /\ Cardinality(UsedBy(r)) > 0
        BY <1>0, <1>6, <4>1, <4>2, <4>3, BehindFits, SlotSets, CredentialsAssumption
      <4>5. rps'[j].count = Cardinality(UsedBy(r))
        BY <2>5, <4>1, <4>4, SlotSets, CredentialsAssumption
      <4> QED BY <1>3, <2>3, <2>8, <3>3, <4>1, <4>4, <4>5 DEF Counts
    <3> QED BY <3>2, <3>3
  <2> QED BY <1>0, <1>1, <2>2, <2>7, <2>9, <2>10, ChipStays DEF CountsInv
<1>8. CASE RpSlot(r) = {} /\ HasRoom /\ RpUsed # Slots /\ rps' # rps
  <2> DEFINE j == First(Slots \ RpUsed)
             new == [rp |-> r, count |-> 1]
  <2>1. j \in Slots \ RpUsed
    BY <1>8, FirstIsFound DEF RpUsed
  <2>2. rps' = [rps EXCEPT ![j] = new] /\ torn' = torn
    BY <1>0, <1>2, <1>8 DEF CountUp, LoseUnless
  <2>3. new \in Rp /\ new.rp = r /\ new.count = 1
    BY CredentialsAssumption DEF Rp
  <2> HIDE DEF j, new
  <2>4. rps'[j] = new /\ \A k \in Slots \ {j} : rps'[k] = rps[k]
    BY <2>1, <2>2 DEF CountsInv, RpsFilled
  <2>5. RpsFilled'
    BY <1>0, <2>2, <2>3 DEF CountsInv, RpsFilled
  <2>6. /\ RpUsed' = RpUsed \cup {j}
        /\ \A q : RpSlot(q)' = IF q = r THEN {j} ELSE RpSlot(q)
    <3>1. RpUsed' = RpUsed \cup {j}
      <4>1. new # NoRp
        BY <2>3, CredentialsAssumption DEF Rp
      <4> QED BY <2>1, <2>4, <4>1 DEF RpUsed
    <3>2. j \notin RpUsed /\ rps'[j].rp = r /\ \A k \in RpUsed : rps'[k] = rps[k]
      BY <2>1, <2>3, <2>4 DEF RpUsed
    <3>3. \A q : RpSlot(q)' = IF q = r THEN RpSlot(q) \cup {j} ELSE RpSlot(q)
      BY <3>1, <3>2 DEF RpSlot
    <3> QED BY <1>8, <3>1, <3>3
  <2>7. InTable'
    <3>1. Cardinality(RpUsed') = Cardinality(RpUsed) + 1
      BY <2>1, <2>6, SlotSets, FS_AddElement
    <3>2. RpFiles' = RpUsed'
      <4>1. {k \in Slots : chip.rps[k] # NoRp} = RpUsed
        BY <1>01 DEF RpUsed
      <4> QED BY <1>0, <2>6, <4>1 DEF RpFiles
    <3> QED BY <1>01, <1>1, <1>8, <3>1, <3>2, SlotSets, CredentialsAssumption
            DEF HasRoom, InTable
  <2>8. ASSUME torn = 0, NEW q \in Rps PROVE Counts(q, Awaited(q))'
    <3>1. Counts(q, Awaited(q))
      BY <2>8 DEF CountsInv
    <3>2. CASE q # r
      <4>1. \A i \in RpSlot(q) : rps'[i] = rps[i]
        BY <2>1, <2>4 DEF RpSlot, RpUsed
      <4> QED BY <1>3, <1>5, <2>6, <3>1, <3>2, <4>1 DEF Counts
    <3>3. CASE q = r
      <4>1. Cardinality(UsedBy(r)) = 1
        BY <1>4, <1>8, <3>1, <3>3, SlotSets DEF Counts
      <4> QED BY <1>3, <2>1, <2>3, <2>4, <2>6, <3>3, <4>1 DEF Counts
    <3> QED BY <3>2, <3>3
  <2> QED BY <1>0, <1>1, <2>2, <2>5, <2>7, <2>8, ChipStays DEF CountsInv
<1>9. CASE RpSlot(r) = {} /\ rps' = rps
  <2>1. torn' # 0
    <3>1. PICK written \in BOOLEAN :
            /\ written => HasRoom /\ RpUsed # Slots
            /\ rps' = IF written
                        THEN [rps EXCEPT ![First(Slots \ RpUsed)] = [rp |-> r, count |-> 1]]
                        ELSE rps
            /\ LoseUnless(written)
      BY <1>2, <1>9 DEF CountUp
    <3>2. CASE written
      <4>1. First(Slots \ RpUsed) \in Slots \ RpUsed
        BY <3>1, <3>2, FirstIsFound DEF RpUsed
      <4>2. rps'[First(Slots \ RpUsed)] = [rp |-> r, count |-> 1]
        BY <3>1, <3>2, <4>1 DEF CountsInv, RpsFilled
      <4>3. [rp |-> r, count |-> 1] \in Rp
        BY CredentialsAssumption DEF Rp
      <4>4. rps[First(Slots \ RpUsed)] = NoRp
        BY <4>1 DEF RpUsed
      <4> QED BY <1>9, <4>2, <4>3, <4>4, CredentialsAssumption DEF Rp
    <3>3. CASE ~written
      BY <3>1, <3>3 DEF LoseUnless, Lose, CountsInv, InTurn
    <3> QED BY <3>2, <3>3
  <2>2. RpsFilled' /\ InTable'
    BY <1>0, <1>1, <1>9 DEF CountsInv, RpsFilled, InTable, RpFiles, RpUsed
  <2> QED BY <1>0, <1>1, <2>1, <2>2, ChipStays DEF CountsInv
<1>10. RpSlot(r) = {} /\ rps' # rps => HasRoom /\ RpUsed # Slots
  BY <1>2 DEF CountUp
<1> QED BY <1>7, <1>8, <1>9, <1>10

LEMMA CountDownCounts ==
  ASSUME CountsInv, Filled', CountDown
  PROVE  CountsInv'
<1>0. /\ pc = "countDown" /\ who \in Rps /\ pc' = "idle" /\ creds' = creds
      /\ chip' = chip /\ torn' = torn
  BY DEF CountDown, CountsInv, InTurn
<1>1. InTurn' /\ CredFiles' = CredFiles /\ \A q : UsedBy(q)' = UsedBy(q)
  BY <1>0 DEF CountsInv, InTurn, Used, CredFiles, UsedBy
<1>2. PICK r \in Rps : r = who
  BY <1>0
<1>3. \A q \in Rps : Awaited(q)' = Cardinality(UsedBy(q))
  BY <1>0, <1>1 DEF Awaited
<1>4. Awaited(r) = Cardinality(UsedBy(r)) + 1
  BY <1>0, <1>2 DEF Awaited
<1>5. \A q \in Rps : q # r => Awaited(q) = Cardinality(UsedBy(q))
  BY <1>0, <1>2 DEF Awaited
<1>6. CASE RpSlot(r) = {}
  <2>1. rps' = rps
    BY <1>2, <1>6 DEF CountDown
  <2>2. RpsFilled' /\ InTable'
    BY <1>0, <1>1, <2>1 DEF CountsInv, RpsFilled, InTable, RpFiles, RpUsed
  <2>3. torn # 0
    <3> SUFFICES ASSUME torn = 0 PROVE FALSE
      OBVIOUS
    <3>1. Counts(r, Cardinality(UsedBy(r)) + 1)
      BY <1>4 DEF CountsInv
    <3> QED BY <1>6, <3>1, SlotSets DEF Counts
  <2> QED BY <1>0, <1>1, <2>2, <2>3, ChipStays DEF CountsInv
<1>7. CASE RpSlot(r) # {}
  <2> DEFINE j == First(RpSlot(r))
             n == rps[j].count
  <2>1. j \in RpSlot(r) /\ RpSlot(r) \in SUBSET Slots
    BY <1>7, FirstIsFound DEF RpSlot, RpUsed
  <2>2. rps' = IF n = 1 THEN [rps EXCEPT ![j] = NoRp]
               ELSE [rps EXCEPT ![j].count = (@ - 1) % COUNTS]
    BY <1>2, <1>7 DEF CountDown
  <2> HIDE DEF j
  <2>3. j \in Slots /\ rps[j] \in Rp /\ rps[j].rp = r /\ n \in 0..COUNTS - 1
    BY <2>1, CredentialsAssumption DEF RpSlot, RpUsed, CountsInv, RpsFilled, Rp
  <2>4. (n - 1) % COUNTS \in 0..COUNTS - 1
    BY <2>3, CredentialsAssumption
  <2>5. /\ rps'[j] = IF n = 1 THEN NoRp ELSE [rp |-> r, count |-> (n - 1) % COUNTS]
        /\ \A k \in Slots \ {j} : rps'[k] = rps[k]
    BY <2>2, <2>3 DEF CountsInv, RpsFilled, Rp
  <2>6. rps'[j] \in Rp \cup {NoRp}
    BY <2>4, <2>5 DEF Rp
  <2>7. RpsFilled'
    BY <1>0, <2>2, <2>3, <2>5, <2>6 DEF CountsInv, RpsFilled
  <2>8. /\ RpUsed' = IF n = 1 THEN RpUsed \ {j} ELSE RpUsed
        /\ \A q : RpSlot(q)' = IF n = 1 THEN RpSlot(q) \ {j} ELSE RpSlot(q)
    BY <2>1, <2>3, <2>4, <2>5, CredentialsAssumption DEF RpUsed, RpSlot, Rp
  <2>9. InTable'
    <3>1. RpFiles' \subseteq RpFiles
      BY <1>0, <2>8 DEF RpFiles
    <3> QED BY <1>1, <3>1, FewerFit DEF CountsInv
  <2>10. ASSUME torn = 0, NEW q \in Rps PROVE Counts(q, Awaited(q))'
    <3>1. Counts(q, Awaited(q))
      BY <2>10 DEF CountsInv
    <3>2. CASE q # r
      <4>1. j \notin RpSlot(q) /\ \A i \in RpSlot(q) : rps'[i] = rps[i]
        BY <2>3, <2>5, <3>2 DEF RpSlot, RpUsed
      <4> QED BY <1>3, <1>5, <2>8, <3>1, <3>2, <4>1 DEF Counts
    <3>3. CASE q = r
      <4>1. RpSlot(r) = {j} /\ n = Cardinality(UsedBy(r)) + 1
        BY <1>4, <1>7, <2>1, <3>1, <3>3 DEF Counts
      <4>2. n # 1 => (n - 1) % COUNTS = Cardinality(UsedBy(r))
        BY <2>3, <4>1, SlotSets, CredentialsAssumption
      <4> QED BY <1>3, <2>3, <2>5, <2>8, <3>3, <4>1, <4>2, SlotSets DEF Counts
    <3> QED BY <3>2, <3>3
  <2> QED BY <1>0, <1>1, <2>7, <2>9, <2>10, ChipStays DEF CountsInv
<1> QED BY <1>6, <1>7

LEMMA EmptyAgrees ==
  Agree(Empty.creds, Empty.rps)
<1>1. /\ \A r \in Rps : {i \in Slots : Empty.creds[i] # NoCred /\ Empty.creds[i].rp = r} = {}
      /\ \A r \in Rps : {i \in Slots : Empty.rps[i] # NoRp /\ Empty.rps[i].rp = r} = {}
  BY EmptyIsFilled
<1> QED BY <1>1, FS_EmptySet DEF Agree

\* What a commit completes agrees; what it leaves half done is torn.
LEMMA CommitCounts ==
  ASSUME CountsInv, Filled', Commit
  PROVE  CountsInv'
<1>1. UNCHANGED <<creds, rps, pc, who, torn>>
  BY CommitStep DEF CountsInv, Filled
<1>2. \A q \in Rps : Counts(q, Awaited(q))' = Counts(q, Awaited(q))
  BY <1>1 DEF Counts, Awaited, RpSlot, RpUsed, UsedBy
<1>3. CASE chip.wiped /\ chip' = Empty
  <2>1. /\ chip'.creds = [i \in Slots |-> NoCred] /\ chip'.rps = [i \in Slots |-> NoRp]
        /\ chip'.torn = 0 /\ Agree(chip'.creds, chip'.rps)
    BY <1>3, EmptyIsFilled, EmptyAgrees
  <2>2. RpsFilled'
    BY <1>1, <2>1 DEF CountsInv, RpsFilled
  <2>3. InTable'
    BY <1>1, <2>1, FewerFit DEF CountsInv, CredFiles, Used, RpFiles, RpUsed
  <2>4. InTurn'
    <3>1. pc # "countUp"
      BY <1>3 DEF CountsInv, InTurn, Behind
    <3> QED BY <1>1, <2>1, <3>1 DEF CountsInv, InTurn
  <2> QED BY <1>1, <1>2, <2>1, <2>2, <2>3, <2>4 DEF CountsInv
<1>4. CASE ~(chip.wiped /\ chip' = Empty)
  <2>1. /\ \E i \in Slots, t \in {torn, torn + 1} :
              \/ chip' = [chip EXCEPT !.creds = [@ EXCEPT ![i] = creds[i]], !.torn = t]
              \/ chip' = [chip EXCEPT !.rps = [@ EXCEPT ![i] = rps[i]], !.torn = t]
        /\ \/ Idle /\ chip'.creds = creds /\ chip'.rps = rps /\ chip'.torn = torn
           \/ chip'.torn = torn + 1
    BY <1>4, CommitStep DEF CountsInv, Filled
  <2>2. PICK i \in Slots :
          \/ /\ chip'.creds = [chip.creds EXCEPT ![i] = creds[i]]
             /\ chip'.rps = chip.rps /\ chip'.wiped = chip.wiped
          \/ /\ chip'.rps = [chip.rps EXCEPT ![i] = rps[i]]
             /\ chip'.creds = chip.creds /\ chip'.wiped = chip.wiped
    BY <2>1 DEF CountsInv, Filled, IsChip
  <2>3. RpsFilled'
    BY <1>1, <2>2 DEF CountsInv, RpsFilled
  <2>4. InTable'
    <3>1. CredFiles' \subseteq CredFiles
      BY <1>1, <2>2 DEF CountsInv, Filled, CredFiles, Used
    <3>2. RpFiles' \subseteq RpFiles
      BY <1>1, <2>2 DEF CountsInv, RpsFilled, RpFiles, RpUsed
    <3> QED BY <3>1, <3>2, FewerFit DEF CountsInv
  <2>5. InTurn'
    <3>1. Behind => Behind'
      <4> SUFFICES ASSUME Behind PROVE Behind'
        OBVIOUS
      <4>1. chip'.rps = rps /\ ~chip'.wiped
        BY <2>2 DEF Behind, CountsInv, RpsFilled
      <4>2. \A j \in Slots : chip'.creds[j] \in {creds[j], NoCred}
        BY <2>2 DEF Behind, CountsInv, Filled
      <4> QED BY <1>1, <4>1, <4>2 DEF Behind
    <3>2. chip'.torn \in Nat
      BY <2>1 DEF CountsInv, InTurn
    <3> QED BY <1>1, <3>1, <3>2 DEF CountsInv, InTurn
  <2>6. ASSUME chip'.torn = 0 PROVE Agree(chip'.creds, chip'.rps)
    <3>1. Idle /\ chip'.creds = creds /\ chip'.rps = rps /\ torn = 0
      BY <2>1, <2>6 DEF CountsInv, InTurn
    <3>2. Agree(creds, rps)
      BY <3>1, IdleAgrees DEF CountsInv
    <3> QED BY <3>1, <3>2
  <2> QED BY <1>1, <1>2, <2>3, <2>4, <2>5, <2>6 DEF CountsInv
<1> QED BY <1>3, <1>4

LEMMA ResetCounts ==
  ASSUME CountsInv, Filled', Reset
  PROVE  CountsInv'
<1>1. /\ creds' = [i \in Slots |-> NoCred] /\ rps' = [i \in Slots |-> NoRp]
      /\ chip'.creds = chip.creds /\ chip'.rps = chip.rps /\ chip'.torn = chip.torn
      /\ pc' = "idle" /\ torn' = 0
  BY ResetStep, EmptyIsFilled DEF CountsInv, Filled
<1>2. RpsFilled' /\ InTurn'
  BY <1>1 DEF CountsInv, RpsFilled, InTurn
<1>3. InTable'
  BY <1>1, FewerFit DEF CountsInv, CredFiles, Used, RpFiles, RpUsed
<1>4. \A q \in Rps : Counts(q, Awaited(q))'
  <2>1. \A q : UsedBy(q)' = {} /\ RpSlot(q)' = {}
    BY <1>1 DEF UsedBy, RpSlot, RpUsed
  <2>2. \A q \in Rps : Awaited(q)' = 0
    BY <1>1, <2>1, FS_EmptySet DEF Awaited
  <2> QED BY <2>1, <2>2 DEF Counts
<1> QED BY <1>1, <1>2, <1>3, <1>4 DEF CountsInv

LEMMA PowerCutCounts ==
  ASSUME CountsInv, Filled', PowerCut
  PROVE  CountsInv'
<1>1. /\ creds' = chip.creds /\ rps' = chip.rps /\ torn' = chip.torn /\ pc' = "idle"
      /\ chip'.creds = chip.creds /\ chip'.rps = chip.rps /\ chip'.torn = chip.torn
  BY PowerCutStep DEF CountsInv, Filled
<1>2. RpsFilled' /\ InTurn'
  BY <1>1 DEF CountsInv, RpsFilled, InTurn
<1>3. InTable'
  BY <1>1, FewerFit DEF CountsInv, CredFiles, Used, RpFiles, RpUsed
<1>4. ASSUME chip.torn = 0 PROVE \A q \in Rps : Counts(q, Awaited(q))'
  <2>1. Idle' /\ Agree(creds', rps')
    BY <1>1, <1>4 DEF CountsInv, Idle
  <2>2. Agree(creds, rps)'
    BY <2>1 DEF Agree
  <2>3. (\A q \in Rps : Counts(q, Awaited(q)))'
    BY <2>1, <2>2, IdleAgrees, PTL
  <2> QED BY <2>3
<1> QED BY <1>1, <1>2, <1>3, <1>4 DEF CountsInv

LEMMA OthersCount ==
  ASSUME CountsInv, Filled',
         \/ Abort \/ EnumerateRps \/ EnumerateCreds \/ AskAssertions \/ UNCHANGED vars
  PROVE  CountsInv'
<1>1. CASE Abort
  <2>1. creds' = creds /\ rps' = rps /\ chip' = chip /\ pc' = "idle" /\ torn' = torn + 1
    BY <1>1 DEF Abort, Lose
  <2>2. torn' # 0 /\ InTurn'
    BY <2>1 DEF CountsInv, InTurn
  <2>3. RpsFilled' /\ InTable'
    BY <2>1 DEF CountsInv, RpsFilled, InTable, CredFiles, RpFiles, Used, RpUsed
  <2> QED BY <2>1, <2>2, <2>3, ChipStays DEF CountsInv
<1>2. CASE EnumerateRps \/ EnumerateCreds \/ AskAssertions \/ UNCHANGED vars
  <2>1. UNCHANGED <<creds, rps, chip, pc, who, torn>>
    BY <1>2 DEF EnumerateRps, RpsBegin, RpsNext, EnumerateCreds, CredsBegin, CredsNext,
                AskAssertions, GetAssertion, GetNextAssertion, Expire, files, vars
  <2>2. RpsFilled' /\ InTable' /\ InTurn'
    BY <2>1 DEF CountsInv, RpsFilled, InTable, InTurn, Behind, CredFiles, RpFiles, Used, RpUsed
  <2>3. \A q \in Rps : Counts(q, Awaited(q))' = Counts(q, Awaited(q))
    BY <2>1 DEF Counts, Awaited, RpSlot, RpUsed, UsedBy
  <2> QED BY <2>1, <2>2, <2>3, ChipStays DEF CountsInv
<1> QED BY <1>1, <1>2

LEMMA InitCounts ==
  Init => CountsInv
<1> SUFFICES ASSUME Init PROVE CountsInv
  OBVIOUS
<1>1. /\ creds = [i \in Slots |-> NoCred] /\ rps = [i \in Slots |-> NoRp]
      /\ chip.creds = creds /\ chip.rps = rps /\ chip.torn = 0
      /\ pc = "idle" /\ torn = 0 /\ creds = Empty.creds /\ rps = Empty.rps
  BY EmptyIsFilled DEF Init
<1>2. CredFiles = {} /\ RpFiles = {}
  BY <1>1 DEF CredFiles, RpFiles, Used, RpUsed
<1>3. RpsFilled /\ InTurn
  BY <1>1 DEF RpsFilled, InTurn
<1>4. Agree(creds, rps) /\ \A q \in Rps : Counts(q, Awaited(q))
  BY <1>1, EmptyAgrees, IdleAgrees DEF Idle
<1>5. InTable
  BY <1>2, FS_EmptySet, CredentialsAssumption DEF InTable
<1> QED BY <1>1, <1>3, <1>4, <1>5, InitFilled DEF CountsInv

LEMMA NextCounts ==
  CountsInv /\ [Next]_vars => CountsInv'
<1> SUFFICES ASSUME CountsInv, [Next]_vars PROVE CountsInv'
  OBVIOUS
<1>0. Filled'
  BY NextFilled DEF CountsInv
<1>1. ASSUME NEW r \in Rps, NEW u \in Users, StoreOver(r, u) PROVE CountsInv'
  BY <1>0, <1>1, StoreOverCounts
<1>2. ASSUME NEW r \in Rps, NEW u \in Users, StoreNew(r, u) PROVE CountsInv'
  BY <1>0, <1>2, StoreNewCounts
<1>3. ASSUME NEW i \in Slots, Delete(i) PROVE CountsInv'
  BY <1>0, <1>3, DeleteCounts
<1>4. CASE CountUp
  BY <1>0, <1>4, CountUpCounts
<1>5. CASE CountDown
  BY <1>0, <1>5, CountDownCounts
<1>6. CASE Reset
  BY <1>0, <1>6, ResetCounts
<1>7. CASE Commit
  BY <1>0, <1>7, CommitCounts
<1>8. CASE PowerCut
  BY <1>0, <1>8, PowerCutCounts
<1>9. CASE Abort \/ EnumerateRps \/ EnumerateCreds \/ AskAssertions \/ UNCHANGED vars
  BY <1>0, <1>9, OthersCount
<1> QED BY <1>1, <1>2, <1>3, <1>4, <1>5, <1>6, <1>7, <1>8, <1>9 DEF Next, Write

\* Unless an abort came between two writes, a write found no room, or a power
\* cut found only one of them on the chip, the file of a relying party counts
\* its credentials, there is one, and none without them (credential_store,
\* deleteCredential, do_flash): the chip has only whole operations and torn
\* ones, and a table of files no longer than a count can go bounds every count.
THEOREM CountsAreRight == Spec => []CountsMatch
<1>1. CountsInv => CountsMatch
  <2> SUFFICES ASSUME CountsInv, Idle, torn = 0, NEW r \in Rps
               PROVE  IF UsedBy(r) = {} THEN RpSlot(r) = {}
                      ELSE \E i \in Slots : /\ RpSlot(r) = {i}
                                            /\ rps[i].count = Cardinality(UsedBy(r))
    BY DEF CountsMatch
  <2>1. Counts(r, Cardinality(UsedBy(r)))
    BY DEF CountsInv, Awaited, Idle
  <2>2. Cardinality(UsedBy(r)) = 0 <=> UsedBy(r) = {}
    BY SlotSets, FS_EmptySet
  <2> QED BY <2>1, <2>2 DEF Counts
<1> QED BY InitCounts, NextCounts, <1>1, PTL DEF Spec
=============================================================================
