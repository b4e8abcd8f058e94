---------------------------- MODULE Credentials ----------------------------
(***************************************************************************)
(* The discoverable credentials (fido/credential.c, cbor_cred_mgmt.c and   *)
(* the list of cbor_get_assertion.c).  A credential is a file in one of    *)
(* the slots EF_CRED+i; the files EF_RP+i count the credentials of a       *)
(* relying party.  Storing and deleting write the two files one after the  *)
(* other, and core 1 may be started again in between.  The chip gets them  *)
(* sector by sector, after the command, and the power may go at any step.  *)
(* The enumerations and getNextAssertion go on where counters in RAM say   *)
(* they stopped.                                                           *)
(***************************************************************************)
EXTENDS Integers, Sequences, FiniteSets

CONSTANTS
  Rps,               \* relying parties
  Users,             \* user ids
  Alike(_, _),       \* user ids that are equal as far as the shorter one goes
  Protected,         \* users whose credentials are not found without
                     \* verification (credProtect)
  SLOTS,             \* MAX_RESIDENT_CREDENTIALS
  TABLE,             \* dynamic files there is room for (MAX_DYNAMIC_FILES)
  COUNTS,            \* values of a count, a uint8_t: 256
  LIST,              \* MAX_CREDENTIAL_COUNT_IN_LIST
  TEARS,             \* bound: with so many torn operations since the last reset
                     \* nothing more is stored
  NoCred, NoRp       \* an empty slot

Slots == 1..SLOTS
Nobody == "nobody"   \* no relying party
Freed == "freed"     \* memory that was given back

ASSUME CredentialsAssumption ==
  /\ SLOTS \in Nat \ {0} /\ TABLE \in Nat /\ COUNTS \in Nat \ {0, 1}
  /\ LIST \in Nat \ {0} /\ TEARS \in Nat
  /\ TABLE <= COUNTS       \* 128 and 256; else a count could come round to 0
  /\ Protected \subseteq Users
  /\ Nobody \notin Rps /\ Freed \notin Rps
  /\ NoCred \notin [rp : Rps, user : Users] /\ NoRp \notin [rp : Rps, count : 0..COUNTS - 1]

\* memcmp over the shorter length: any two ids that begin alike.
ASSUME AlikeAssumption ==
  \A u, v \in Users : Alike(u, u) /\ (Alike(u, v) => Alike(v, u))

\* So it is where ids have one length, and not for "1", "12" and "13".
AlikeIsTransitive ==
  \A u, v, w \in Users : Alike(u, v) /\ Alike(v, w) => Alike(u, w)

VARIABLES
  creds,               \* EF_CRED+i, as readers see it
  rps,                 \* EF_RP+i, as readers see it
  chip,                \* what of them a power cut leaves
  pc, who,             \* the write to come and the relying party it is for
  rp_counter, rp_total,
  cred_counter, cred_total,
  rpIdHashx,           \* the relying party whose credentials are enumerated
  credsx,              \* the list kept for getNextAssertion: of which slots
                       \* its credentials are copies
  credentialCounter,   \* how many of it were given
  torn,                \* auxiliary: how many operations lost one of their two
                       \* writes, or a file that was to grow
  rpWalk, credWalk,    \* auxiliary: what an enumeration has told so far, as
  listWalk,            \* long as nothing came between
  client               \* bound: what is enumerated in a behaviour; the three
                       \* enumerations share no variable but the files

files == <<creds, rps, chip, pc, who, torn>>
rpCounters == <<rp_counter, rp_total, rpWalk>>
credCounters == <<cred_counter, cred_total, rpIdHashx, credWalk>>
list == <<credsx, credentialCounter, listWalk>>
vars == <<files, rpCounters, credCounters, list, client>>

Cred == [rp : Rps, user : Users]
Rp == [rp : Rps, count : 0..COUNTS - 1]
Empty == [creds |-> [i \in Slots |-> NoCred], rps |-> [i \in Slots |-> NoRp],
          torn |-> 0, wiped |-> FALSE]
Off == [on |-> FALSE, told |-> <<>>, due |-> {}]
Walk(S) == [on : BOOLEAN, told : Seq(S), due : SUBSET S]

TypeOK ==
  /\ creds \in [Slots -> Cred \cup {NoCred}]
  /\ rps \in [Slots -> Rp \cup {NoRp}]
  /\ chip \in [creds : [Slots -> Cred \cup {NoCred}], rps : [Slots -> Rp \cup {NoRp}],
               torn : Nat, wiped : BOOLEAN]
  /\ pc \in {"idle", "countUp", "countDown"} /\ who \in Rps \cup {Nobody}
  /\ rp_counter \in 1..SLOTS + 1 /\ rp_total \in 0..SLOTS
  /\ cred_counter \in 1..SLOTS + 1 /\ cred_total \in 0..SLOTS
  /\ rpIdHashx \in Rps \cup {Nobody, Freed}
  /\ credsx \in Seq(Slots) /\ credentialCounter \in 0..SLOTS
  /\ torn \in Nat
  /\ rpWalk \in Walk(Rps) /\ credWalk \in Walk(Slots) /\ listWalk \in Walk(Slots)
  /\ client \in {"relyingParties", "credentials", "assertions"}

Idle == pc = "idle"
\* A command finds the writes of the one before on the chip: do_flash comes
\* between its answer and the next request.  The first write of a store that
\* was aborted waits for the commit of another command.
Ready == /\ Idle /\ ~chip.wiped /\ chip.rps = rps
         /\ \A i \in Slots : chip.creds[i] \in {creds[i], NoCred}
UsedBy(r) == {i \in Slots : creds[i] # NoCred /\ creds[i].rp = r}
Used == {i \in Slots : creds[i] # NoCred}
RpUsed == {i \in Slots : rps[i] # NoRp}
\* Those that an enumeration shows.
Counted == {i \in RpUsed : rps[i].count > 0}
RpSlot(r) == {i \in RpUsed : rps[i].rp = r}
First(S) == CHOOSE i \in S : \A j \in S : i <= j
\* Fault: the first call does not move the counter.
IsNthAgain(i, n, S) == i \in S /\ Cardinality({j \in S : j < i}) = n - 2

\* The n-th of a set of slots, in the order of the loops.
IsNth(i, n, S) == i \in S /\ Cardinality({j \in S : j <= i}) = n
\* file_new has an entry to give.
HasRoom == Cardinality(Used) + Cardinality(RpUsed) < TABLE
Told(w) == {w.told[k] : k \in 1..Len(w.told)}

InitRam ==
  /\ rp_counter = 1 /\ rp_total = 0 /\ cred_counter = 1 /\ cred_total = 0
  /\ rpIdHashx = Nobody
  /\ credsx = <<>> /\ credentialCounter = 1
  /\ rpWalk = Off /\ credWalk = Off /\ listWalk = Off
Init ==
  /\ creds = Empty.creds /\ rps = Empty.rps /\ chip = Empty
  /\ pc = "idle" /\ who = Nobody /\ torn = 0
  /\ InitRam
  /\ client \in {"relyingParties", "credentials", "assertions"}

Lose == torn' = torn + 1
LoseUnless(written) == IF written THEN UNCHANGED torn ELSE Lose

\* A command that changes the files ends the enumerations for their caller; the
\* code keeps the counters.
WalksOff ==
  /\ rpWalk' = Off /\ credWalk' = Off /\ listWalk' = Off
  /\ UNCHANGED <<rp_counter, rp_total, cred_counter, cred_total, rpIdHashx,
                 credsx, credentialCounter>>

-----------------------------------------------------------------------------
(* credential_store, called by makeCredential and updateUserInformation,   *)
(* and deleteCredential.                                                   *)

\* Fault: the search ends at the first free slot.
LikeItUpToFree(r, u) ==
  {i \in UsedBy(r) : Alike(creds[i].user, u) /\ 1..i \subseteq Used}

\* Fault: the stored id has length 0 in the comparison.
LikeItAny(r, u) == UsedBy(r)

LikeIt(r, u) == {i \in UsedBy(r) : Alike(creds[i].user, u)}

\* The first credential of the user, or of one whose id is like it, is
\* overwritten, and the count stays.  A longer one is moved: without room in the
\* pool the old one is gone and the new one not there, which nobody looks at.
StoreOver(r, u) ==
  /\ Ready /\ torn < TEARS
  /\ LikeIt(r, u) # {}
  /\ \E written \in BOOLEAN :
       /\ creds' = [creds EXCEPT ![First(LikeIt(r, u))] =
                      IF written THEN [rp |-> r, user |-> u] ELSE NoCred]
       /\ LoseUnless(written)
  /\ UNCHANGED <<rps, chip, pc, who>>
  /\ WalksOff

\* The first free slot is taken.  When file_new gives NULL, or the pool has no
\* room, nothing is written, which nobody looks at.
StoreNew(r, u) ==
  /\ Ready /\ torn < TEARS
  /\ LikeIt(r, u) = {}
  /\ Used # Slots
  /\ \E written \in BOOLEAN :
       /\ written => HasRoom
       /\ creds' = IF written
                     THEN [creds EXCEPT ![First(Slots \ Used)] = [rp |-> r, user |-> u]]
                     ELSE creds
       /\ LoseUnless(written)
  /\ pc' = "countUp" /\ who' = r
  /\ UNCHANGED <<rps, chip>>
  /\ WalksOff

\* The count of the relying party goes up, or its file is made.
CountUp ==
  /\ pc = "countUp"
  /\ IF RpSlot(who) # {}
       THEN /\ rps' = [rps EXCEPT ![First(RpSlot(who))].count = (@ + 1) % COUNTS]
            /\ UNCHANGED torn
       ELSE \E written \in BOOLEAN :
              /\ written => HasRoom /\ RpUsed # Slots
              /\ rps' = IF written
                          THEN [rps EXCEPT ![First(Slots \ RpUsed)] = [rp |-> who, count |-> 1]]
                          ELSE rps
              /\ LoseUnless(written)
  /\ pc' = "idle" /\ who' = Nobody
  /\ UNCHANGED <<creds, chip, rpCounters, credCounters, list>>

Delete(i) ==
  /\ Ready
  /\ i \in Used
  /\ creds' = [creds EXCEPT ![i] = NoCred]
  /\ pc' = "countDown" /\ who' = creds[i].rp
  /\ UNCHANGED <<rps, chip, torn>>
  /\ WalksOff

\* Fault: a file with count 0 stays.
CountDownKeeps ==
  /\ pc = "countDown"
  /\ rps' = IF RpSlot(who) = {} THEN rps
            ELSE [rps EXCEPT ![First(RpSlot(who))].count = (@ - 1) % COUNTS]
  /\ pc' = "idle" /\ who' = Nobody
  /\ UNCHANGED <<creds, chip, torn, rpCounters, credCounters, list>>

\* The count goes down; a file with count 0 is deleted.
CountDown ==
  /\ pc = "countDown"
  /\ rps' = IF RpSlot(who) = {} THEN rps
            ELSE LET j == First(RpSlot(who)) IN
                 IF rps[j].count = 1 THEN [rps EXCEPT ![j] = NoRp]
                 ELSE [rps EXCEPT ![j].count = (@ - 1) % COUNTS]
  /\ pc' = "idle" /\ who' = Nobody
  /\ UNCHANGED <<creds, chip, torn, rpCounters, credCounters, list>>

\* card_start for another command, before the second write.
Abort ==
  /\ ~Idle
  /\ pc' = "idle" /\ who' = Nobody
  /\ Lose
  /\ UNCHANGED <<creds, rps, chip, rpCounters, credCounters, list>>

\* cbor_reset: the files go, the counters and the list stay.
Reset ==
  /\ Ready
  /\ creds' = Empty.creds /\ rps' = Empty.rps
  /\ chip' = [chip EXCEPT !.wiped = TRUE]
  /\ torn' = 0
  /\ UNCHANGED <<pc, who>>
  /\ WalksOff

\* do_flash brings one file more to the chip; the end of the list, which the
\* reset has stored, takes all files from it at once.
Commit ==
  /\ \/ chip.wiped /\ chip' = Empty
     \/ /\ ~chip.wiped
        /\ \E new \in {[chip EXCEPT !.creds[i] = creds[i]] : i \in Slots}
                       \cup {[chip EXCEPT !.rps[i] = rps[i]] : i \in Slots} :
             /\ new # chip
             /\ chip' = [new EXCEPT !.torn =
                     IF Idle /\ new.creds = creds /\ new.rps = rps THEN torn ELSE torn + 1]
  /\ UNCHANGED <<creds, rps, pc, who, torn, rpCounters, credCounters, list>>

\* What the chip has not got is undone: all of an operation, or one of its
\* writes, then or later.
PowerCut ==
  /\ creds' = chip.creds /\ rps' = chip.rps /\ torn' = chip.torn
  /\ chip' = [chip EXCEPT !.wiped = FALSE]
  /\ pc' = "idle" /\ who' = Nobody
  /\ rp_counter' = 1 /\ rp_total' = 0 /\ cred_counter' = 1 /\ cred_total' = 0
  /\ rpIdHashx' = Nobody
  /\ credsx' = <<>> /\ credentialCounter' = 1
  /\ rpWalk' = Off /\ credWalk' = Off /\ listWalk' = Off

-----------------------------------------------------------------------------
(* Enumeration.                                                            *)

\* Fault: rp_total is not set to 0 again.
RpsBeginAdds ==
  /\ Ready
  /\ rp_total' = rp_total + Cardinality(Counted)
  /\ rp_counter' = IF Counted = {} THEN 1 ELSE 2
  /\ rpWalk' = Off
  /\ UNCHANGED <<files, credCounters, list>>

RpsBegin ==
  /\ Ready
  /\ rp_total' = Cardinality(Counted)
  /\ IF Counted = {}
       THEN rp_counter' = 1 /\ rpWalk' = Off
       ELSE /\ rp_counter' = 2
            /\ rpWalk' = [on |-> TRUE, told |-> <<rps[First(Counted)].rp>>,
                          due |-> {rps[i].rp : i \in Counted}]
  /\ UNCHANGED <<files, credCounters, list>>

RpsNext ==
  /\ Ready
  /\ rp_counter <= rp_total
  /\ \E i \in Counted :
       /\ IsNth(i, rp_counter, Counted)
       /\ rp_counter' = rp_counter + 1
       /\ rpWalk' = IF rpWalk.on THEN [rpWalk EXCEPT !.told = Append(@, rps[i].rp)] ELSE Off
  /\ UNCHANGED <<files, rp_total, credCounters, list>>

\* Fault: cred_counter is not set to 1 again.
CredsBeginGoesOn(r) ==
  /\ Ready
  /\ cred_total' = Cardinality(UsedBy(r))
  /\ \E i \in UsedBy(r) :
       /\ IsNth(i, cred_counter, UsedBy(r))
       /\ credWalk' = [on |-> TRUE, told |-> <<i>>, due |-> UsedBy(r)]
  /\ cred_counter' = cred_counter + 1
  /\ rpIdHashx' = r
  /\ UNCHANGED <<files, rpCounters, list>>

\* rpIdHash stays for the next call if there is more to tell.
CredsBegin(r) ==
  /\ Ready
  /\ cred_total' = Cardinality(UsedBy(r))
  /\ IF UsedBy(r) = {}
       THEN cred_counter' = 1 /\ credWalk' = Off
       ELSE /\ cred_counter' = 2
            /\ credWalk' = [on |-> TRUE, told |-> <<First(UsedBy(r))>>, due |-> UsedBy(r)]
  /\ rpIdHashx' = IF Cardinality(UsedBy(r)) > 1 THEN r ELSE rpIdHashx
  /\ UNCHANGED <<files, rpCounters, list>>

\* What is at a hash that was given back may be anything.
Hash == IF rpIdHashx = Freed THEN Rps \cup {Nobody} ELSE {rpIdHashx}

CredsNext ==
  /\ Ready
  /\ cred_counter <= cred_total
  /\ \E r \in Hash :
       \/ \E i \in UsedBy(r) :
            /\ IsNth(i, cred_counter, UsedBy(r))
            /\ cred_counter' = cred_counter + 1
            /\ credWalk' = IF credWalk.on THEN [credWalk EXCEPT !.told = Append(@, i)]
                           ELSE Off
            /\ rpIdHashx' = IF cred_counter < cred_total THEN rpIdHashx ELSE Freed
       \/ \* no credentials: the error gives the hash back
          /\ cred_counter > Cardinality(UsedBy(r))
          /\ rpIdHashx' = Freed
          /\ credWalk' = Off
          /\ UNCHANGED cred_counter
  /\ UNCHANGED <<files, rpCounters, cred_total, list>>

-----------------------------------------------------------------------------
(* getAssertion without an allow list, and getNextAssertion.               *)

\* The loop over the slots ends when the list is full; those that may not be
\* seen are taken out after it.
Listed(r) == {i \in UsedBy(r) : Cardinality({j \in UsedBy(r) : j <= i}) <= LIST}
Visible(r, uv) == {i \in Listed(r) : uv \/ creds[i].user \notin Protected}

\* Fault: the exchange of two loses one of them.
OrdersLossy(S) == [1..Cardinality(S) -> S]

\* A set in some order: the newest first, but the clock starts anew with the
\* power.
Orders(S) == {s \in [1..Cardinality(S) -> S] : \A c \in S : \E k \in DOMAIN s : s[k] = c}

\* One credential, or none, or a command without user presence (up), leaves the
\* list of the last command as it was.  An error after the list is kept (fails)
\* leaves the client without the first.
GetAssertion(r, uv, up, fails) ==
  /\ Ready
  /\ IF Cardinality(Visible(r, uv)) > 1 /\ up
       THEN /\ credsx' \in Orders(Visible(r, uv))
            /\ credentialCounter' = 1
            /\ listWalk' = IF fails THEN Off
                           ELSE [on |-> TRUE, told |-> <<credsx'[1]>>, due |-> Visible(r, uv)]
       ELSE /\ listWalk' = Off
            /\ UNCHANGED <<credsx, credentialCounter>>
  /\ UNCHANGED <<files, rpCounters, credCounters>>

DropList == credsx' = <<>> /\ credentialCounter' = 0

\* The list goes after its last credential and with an error, of which there are
\* others than that it is over or too old.
GetNextAssertion ==
  /\ Ready
  /\ \/ /\ credentialCounter < Len(credsx)
        /\ listWalk' = IF listWalk.on
              THEN [listWalk EXCEPT !.told = Append(@, credsx[credentialCounter + 1])]
              ELSE Off
        /\ IF credentialCounter + 1 = Len(credsx)
             THEN DropList
             ELSE credentialCounter' = credentialCounter + 1 /\ UNCHANGED credsx
     \/ DropList /\ listWalk' = Off
  /\ UNCHANGED <<files, rpCounters, credCounters>>

\* 30 seconds without getNextAssertion: the list can only be dropped.
Expire ==
  /\ credsx # <<>>
  /\ DropList /\ listWalk' = Off
  /\ UNCHANGED <<files, rpCounters, credCounters>>

-----------------------------------------------------------------------------

Write ==
  \/ \E r \in Rps, u \in Users : StoreOver(r, u) \/ StoreNew(r, u)
  \/ CountUp
  \/ \E i \in Slots : Delete(i)
  \/ CountDown \/ Abort \/ Reset \/ Commit \/ PowerCut
EnumerateRps == RpsBegin \/ RpsNext
EnumerateCreds == CredsNext \/ \E r \in Rps : CredsBegin(r)
AskAssertions ==
  \/ \E r \in Rps, uv, up, fails \in BOOLEAN : GetAssertion(r, uv, up, fails)
  \/ GetNextAssertion \/ Expire
Next ==
  /\ \/ Write
     \/ client = "relyingParties" /\ EnumerateRps
     \/ client = "credentials" /\ EnumerateCreds
     \/ client = "assertions" /\ AskAssertions
  /\ UNCHANGED client

Spec == Init /\ [][Next]_vars

-----------------------------------------------------------------------------
(* Properties.                                                             *)

\* Where ids have one length, no relying party has two credentials for one user,
\* or for two whose ids are alike, in any order of stores, updates, deletions,
\* aborts and power cuts, also when the chip had only some of the files
\* (credential_store looks through all slots and stops at the first).
OneCredentialPerUser ==
  \A i, j \in Used :
    i # j /\ creds[i].rp = creds[j].rp => ~Alike(creds[i].user, creds[j].user)

\* test_022_discoverable.py:207: "A make credential request with a UserId & Rp
\* that is the same as an existing one should overwrite."
SameUserOverwrites == \A i, j \in Used : i # j => creds[i] # creds[j]

\* Between commands the file of a relying party counts its credentials, there
\* is one such file, and none for a party without credentials; except after an
\* abort between the two writes, a write that found no room, or a power cut
\* when the chip had only one of the two.
CountsMatch ==
  Idle /\ torn = 0 =>
    \A r \in Rps :
      IF UsedBy(r) = {} THEN RpSlot(r) = {}
      ELSE \E i \in Slots : RpSlot(r) = {i} /\ rps[i].count = Cardinality(UsedBy(r))

\* A walk tells nothing twice and nothing that is not due; when the device says
\* that there is no more, all was told.
Complete(w, over) ==
  w.on => /\ Cardinality(Told(w)) = Len(w.told)
          /\ Told(w) \subseteq w.due
          /\ over => Told(w) = w.due

\* An enumeration of the relying parties tells each of them once; and unless a
\* write was lost they are the ones that have credentials (rp_counter, rp_total,
\* and the files that stores and deletions left behind).
RpsComplete ==
  /\ Complete(rpWalk, rp_counter > rp_total)
  /\ rpWalk.on /\ torn = 0 => rpWalk.due = {r \in Rps : UsedBy(r) # {}}

\* An enumeration of the credentials of a relying party tells every one once,
\* and as many as it said (cred_counter, cred_total, rpIdHashx).
CredsComplete == Complete(credWalk, cred_counter > cred_total)

\* getAssertion and the calls of getNextAssertion after it give every
\* credential that the client may see once, and no other, among the first LIST
\* of the relying party: all of them if it has no more
\* (credentialCounter, numberOfCredentialsx).
AssertionsComplete == Complete(listWalk, credentialCounter >= Len(credsx))

AccountsOf(c) == {<<c[i].rp, c[i].user>> : i \in {j \in Slots : c[j] # NoCred}}
Store == INSTANCE Accounts WITH accounts <- AccountsOf(creds),
                                kept <- AccountsOf(chip.creds)

\* The slots implement a set of accounts: a store adds its own account and
\* loses one like it at most, a deletion loses the one it names at most, and a
\* power cut leaves those that were kept, which change by one at a time.
ImplementsAccounts == Store!Spec
=============================================================================
