-------------------------- MODULE ClientPinProofs --------------------------
(***************************************************************************)
(* Proofs about ClientPin: type correctness, the budget of wrong PINs, the *)
(* finality of a blocked PIN, the soundness of tokens, the enforcement of  *)
(* the minimum length and the refinement of PinGuard, for every set of     *)
(* PINs, permissions and relying parties and any number of retries.        *)
(***************************************************************************)
EXTENDS ClientPin, TLAPS

USE DEF files, tokenVars, chipVars, ghosts

\* The command core 1 runs is of the kind its place in the code says.
CurInv ==
  /\ pc \in {"compare", "restore"} => cur \in GetToken \cup ChangePin
  /\ pc \in {"newpin", "unforce", "newtoken"} => cur \in ChangePin
  /\ pc = "token" => cur \in GetToken

TypeInv == TypeOK /\ CurInv

\* Once the PIN was found right the count starts anew, and changePIN may write
\* the full number of retries.
BudgetInv == /\ GuessBudget
             /\ pc = "newpin" => wrong = 0 /\ budget = MAX_PIN_RETRIES

\* paut.data shows the token in the file, as long as there is one.
AuthInv == /\ \A t \in held : t <= drawn
           /\ ef_authtoken # NoToken => auth = ef_authtoken

\* Tokens given out were drawn, so that the next one is not among them; a token
\* that is not in use has no permissions; one that is authorises what it was
\* given for, except while changePIN or a reset has yet to replace it.
TokenInv ==
  /\ AuthInv
  /\ ~paut.in_use => paut.permissions = {}
  /\ pc = "wiped" => ef_authtoken \notin held
  /\ (pc \notin {"unforce", "newtoken", "wiped"} /\ Authentic /\ paut.in_use) =>
       /\ grant.token = auth
       /\ paut.permissions \subseteq grant.permissions \cup {"lbw"}
       /\ grant.rp # NoRp => paut.rp = grant.rp

\* A PIN file that is too short for a minimum file is marked in it.
Marked(p, m) == p.pin # NoPin /\ PinLen[p.pin] < m.len => m.force

MarkInv ==
  /\ Marked(ef_pin, ef_minpin) \/ torn
  /\ Marked(chip.pin, chip.minpin) \/ apart \/ torn
  /\ pc = "newpin" => PinLen[cur.new] >= ef_minpin.len
  /\ pc = "unforce" => PinLen[ef_pin.pin] >= ef_minpin.len
-----------------------------------------------------------------------------
(* Type correctness.                                                       *)

LEMMA AttemptsTyped == Attempts \subseteq GetToken \cup ChangePin
BY PinAssumption DEF Attempts, GetToken, ChangePin

LEMMA NullsTyped == /\ NoPinFile \in PinFile
                    /\ NoMinPinFile \in MinPinFile
                    /\ NoFiles \in Chip
                    /\ NoPaut \in Paut
BY PinAssumption
   DEF NoPinFile, PinFile, NoMinPinFile, MinPinFile, NoFiles, Chip, NoPaut, Paut, NoToken

LEMMA TypeInit == Init => TypeInv
<1> SUFFICES ASSUME Init PROVE TypeInv
  OBVIOUS
<1>1. ef_authtoken \in Token /\ auth \in Token /\ drawn \in Token
  BY PinAssumption DEF Init, Token
<1>2. /\ ef_pin \in PinFile /\ ef_minpin \in MinPinFile /\ chip \in Chip
      /\ paut \in Paut
  BY NullsTyped DEF Init
<1>3. /\ new_pin_mismatches \in 0..3 /\ wrong \in Nat /\ budget \in Nat
  BY DEF Init
<1>4. /\ wiped \in BOOLEAN /\ hkey_init \in BOOLEAN /\ early \in BOOLEAN
      /\ pc = "idle" /\ cur = NoCommand /\ resp = "none" /\ grant = NoGrant
      /\ held \subseteq Token /\ apart \in BOOLEAN /\ torn \in BOOLEAN
  BY DEF Init
<1> QED BY <1>1, <1>2, <1>3, <1>4 DEF TypeInv, TypeOK, CurInv

\* clientPIN keeps the types, and the retries between 0 and MAX_PIN_RETRIES.
LEMMA ClientPinTyped ==
  ASSUME TypeInv,
         \/ Initialize \/ (\E p \in Pins : SetPin(p))
         \/ (\E c \in Attempts : StartAttempt(c))
         \/ RefuseBlocked \/ Mismatch \/ Undecryptable \/ Match \/ Restore
         \/ WriteNewPin \/ ClearForce \/ RenewToken \/ IssueToken
  PROVE  TypeInv'
<1> USE PinAssumption DEF TypeInv, TypeOK, CurInv, files, tokenVars, ghosts
<1>1. CASE Initialize
  BY <1>1 DEF Initialize, resetPinUvAuthToken, DrawToken, Token, Paut
<1>2. ASSUME NEW p \in Pins, SetPin(p) PROVE TypeInv'
  BY <1>2 DEF SetPin, PinFile
<1>3. ASSUME NEW c \in Attempts, StartAttempt(c) PROVE TypeInv'
  BY <1>3, AttemptsTyped DEF StartAttempt, PinFile
<1>4. CASE RefuseBlocked
  BY <1>4 DEF RefuseBlocked
<1>5. CASE Mismatch
  BY <1>5 DEF Mismatch
<1>6. CASE Undecryptable
  BY <1>6 DEF Undecryptable
<1>7. CASE Match
  BY <1>7 DEF Match
<1>8. CASE Restore
  BY <1>8 DEF Restore, PinFile, GetToken, ChangePin
<1>9. CASE WriteNewPin
  BY <1>9 DEF WriteNewPin, PinFile, ChangePin
<1>10. CASE ClearForce
  <2>1. ef_minpin' \in MinPinFile
    BY <1>10 DEF ClearForce, MinPinFile
  <2>2. pc' = "newtoken" /\ UNCHANGED cur
    BY <1>10 DEF ClearForce
  <2> QED BY <1>10, <2>1, <2>2 DEF ClearForce
<1>11. CASE RenewToken
  BY <1>11 DEF RenewToken, resetPinUvAuthToken, DrawToken, Token, Paut
<1>12. CASE IssueToken
  BY <1>12 DEF IssueToken, DrawToken, Token, Paut, GetToken, Grant
<1> QED BY <1>1, <1>2, <1>3, <1>4, <1>5, <1>6, <1>7, <1>8, <1>9, <1>10, <1>11, <1>12

\* A commit leaves three files on the chip, whichever of them it wrote.
LEMMA CommitTyped ==
  ASSUME TypeInv, Commit
  PROVE  TypeInv'
<1>1. /\ chip \in Chip /\ ef_pin \in PinFile /\ ef_minpin \in MinPinFile
      /\ ef_authtoken \in Token \cup {NoToken}
  BY DEF TypeInv, TypeOK
<1>2. Cached \in Chip
  BY <1>1 DEF Cached, Chip
<1>3. NoFiles \in Chip
  BY NullsTyped
<1>4. /\ [chip EXCEPT !.pin = ef_pin] \in Chip
      /\ [chip EXCEPT !.minpin = ef_minpin] \in Chip
      /\ [chip EXCEPT !.token = ef_authtoken] \in Chip
  BY <1>1 DEF Chip
<1>5. chip' \in Chip
  BY <1>2, <1>3, <1>4 DEF Commit
<1>6. wiped' \in BOOLEAN /\ apart' \in BOOLEAN
  BY DEF Commit, TypeInv, TypeOK
<1>7. UNCHANGED <<ef_pin, ef_minpin, tokenVars, torn, hkey_init, new_pin_mismatches,
                  early, pc, cur, resp, ghosts>>
  BY DEF Commit
<1> QED BY <1>5, <1>6, <1>7 DEF TypeInv, TypeOK, CurInv, files, ghosts

\* After a power cut the files are what the chip has, which are files.
LEMMA PowerCutTyped ==
  ASSUME TypeOK, PowerCut
  PROVE  TypeInv'
<1>1. /\ chip \in Chip /\ chip.pin \in PinFile /\ chip.minpin \in MinPinFile
      /\ chip.token \in Token \cup {NoToken}
  BY DEF TypeOK, Chip
<1>2. chip.pin.retries \in Nat
  BY <1>1, PinAssumption DEF PinFile
<1>3. drawn \in Token /\ held \subseteq Token
  BY DEF TypeOK
<1>4. ef_authtoken' \in Token /\ auth' \in Token /\ drawn' \in Token
  BY <1>1, <1>3, PinAssumption DEF PowerCut, DrawToken, Token
<1>5. paut' \in Paut
  BY NullsTyped DEF PowerCut
<1>6. /\ ef_pin' \in PinFile /\ ef_minpin' \in MinPinFile /\ budget' \in Nat
  BY <1>1, <1>2 DEF PowerCut
<1>7. /\ chip' \in Chip /\ held' \subseteq Token
      /\ apart' \in BOOLEAN /\ torn' \in BOOLEAN
  BY <1>1, <1>3 DEF PowerCut, TypeOK
<1>8. /\ wiped' \in BOOLEAN /\ hkey_init' \in BOOLEAN /\ early' \in BOOLEAN
      /\ pc' = "idle" /\ cur' = NoCommand /\ resp' = "none" /\ grant' = NoGrant
  BY DEF PowerCut
<1>9. new_pin_mismatches' \in 0..3 /\ wrong' \in Nat
  BY DEF PowerCut
<1> QED BY <1>4, <1>5, <1>6, <1>7, <1>8, <1>9 DEF TypeInv, TypeOK, CurInv

\* A reset leaves no PIN, no token and the default minimum.
LEMMA ResetTyped ==
  ASSUME TypeInv, Reset
  PROVE  TypeInv'
<1>1. /\ ef_pin \in PinFile /\ ef_minpin \in MinPinFile
      /\ ef_authtoken \in Token \cup {NoToken}
      /\ grant \in Grant \cup {NoGrant} /\ wrong \in Nat /\ budget \in Nat
      /\ wiped \in BOOLEAN
  BY DEF TypeInv, TypeOK
<1>2. ef_authtoken' \in Token \cup {NoToken}
  BY <1>1 DEF Reset
<1>3. ef_pin' \in PinFile /\ ef_minpin' \in MinPinFile
  BY <1>1, NullsTyped DEF Reset
<1>4. grant' \in Grant \cup {NoGrant} /\ wrong' \in Nat /\ budget' \in Nat
  BY <1>1 DEF Reset
<1>5. wiped' \in BOOLEAN /\ pc' \in {"idle", "wiped"}
  BY <1>1 DEF Reset
<1>6. UNCHANGED <<auth, drawn, paut, chip, apart, torn, hkey_init,
                  new_pin_mismatches, early, cur, resp, held>>
  BY DEF Reset
<1> QED BY <1>2, <1>3, <1>4, <1>5, <1>6 DEF TypeInv, TypeOK, CurInv

\* scan_files leaves a token in the file and under the pointer.
LEMMA ScanTyped ==
  ASSUME TypeInv, TokenFile
  PROVE  /\ ef_authtoken' \in Token \cup {NoToken} /\ auth' \in Token \cup {NoToken}
         /\ drawn' \in Token
BY PinAssumption DEF TypeInv, TypeOK, TokenFile, DrawToken, Token

\* So do the other commands and the rest of the device.
LEMMA OthersTyped ==
  ASSUME TypeInv,
         \/ (\E rp \in RPs : MakeCredential(rp)) \/ GetAssertion \/ Presence
         \/ (\E len \in MinLens, force \in BOOLEAN : SetMinPin(len, force))
         \/ StartReset \/ Reset \/ ScanFiles \/ Abort \/ Rescan \/ Reuse
         \/ TenSeconds \/ Commit \/ PowerCut \/ UNCHANGED vars
  PROVE  TypeInv'
<1> USE PinAssumption DEF TypeInv, TypeOK, CurInv, files, tokenVars, ghosts
<1>1. ASSUME NEW rp \in RPs, MakeCredential(rp) PROVE TypeInv'
  BY <1>1 DEF MakeCredential, Paut
<1>2. CASE GetAssertion
  BY <1>2 DEF GetAssertion
<1>3. CASE Presence
  <2>1. [paut EXCEPT !.user_verified = FALSE, !.permissions = {"lbw"}] \in Paut
    BY DEF Paut
  <2>2. paut' \in Paut
    BY <1>3, <2>1 DEF Presence, ClearedPaut
  <2> QED BY <1>3, <2>2 DEF Presence
<1>4. ASSUME NEW len \in MinLens, NEW force \in BOOLEAN, SetMinPin(len, force)
      PROVE  TypeInv'
  <2>1. Asked(len) \in Nat
    BY DEF Asked, MinPinFile
  <2>2. Asked(len) % 256 \in 0..255
    BY <2>1
  <2>3. ef_minpin' \in MinPinFile
    BY <1>4, <2>2 DEF SetMinPin, MinPinFile
  <2> QED BY <1>4, <2>3 DEF SetMinPin
<1>5. CASE StartReset
  BY <1>5 DEF StartReset
<1>6. CASE Reset
  BY <1>6, ResetTyped
<1>7. CASE Abort
  BY <1>7 DEF Abort
<1>8. CASE TenSeconds
  <2>1. early' \in BOOLEAN
    BY <1>8 DEF TenSeconds
  <2>2. UNCHANGED <<ef_pin, ef_minpin, tokenVars, chipVars, hkey_init,
                    new_pin_mismatches, pc, cur, resp, ghosts>>
    BY <1>8 DEF TenSeconds
  <2> QED BY <2>1, <2>2
<1>9. CASE Commit
  BY <1>9, CommitTyped
<1>10. CASE PowerCut
  BY <1>10, PowerCutTyped
<1>11. CASE UNCHANGED vars
  BY <1>11 DEF vars
<1>12. CASE ScanFiles
  BY <1>12, ScanTyped DEF ScanFiles
<1>13. CASE Rescan
  BY <1>13, ScanTyped DEF Rescan
<1>14. CASE Reuse
  BY <1>14 DEF Reuse
<1> QED BY <1>1, <1>2, <1>3, <1>4, <1>5, <1>6, <1>7, <1>8, <1>9, <1>10, <1>11, <1>12,
           <1>13, <1>14

\* Every variable keeps its type: the retries (a uint8_t decremented unchecked)
\* stay between 0 and MAX_PIN_RETRIES, core 1 runs the command its place says.
THEOREM TypeCorrect == Spec => []TypeOK
<1>1. Init => TypeInv
  BY TypeInit
<1>2. TypeInv /\ [Next]_vars => TypeInv'
  BY ClientPinTyped, OthersTyped DEF Next
<1>3. TypeInv => TypeOK
  BY DEF TypeInv
<1> QED BY <1>1, <1>2, <1>3, PTL DEF Spec
-----------------------------------------------------------------------------
(* The budget of wrong PINs.                                               *)

LEMMA TypeInvariant == Spec => []TypeInv
BY TypeInit, ClientPinTyped, OthersTyped, PTL DEF Spec, Next

LEMMA NumbersTyped ==
  ASSUME TypeInv
  PROVE  /\ ef_pin.retries \in 0..MAX_PIN_RETRIES
         /\ chip.pin.retries \in 0..MAX_PIN_RETRIES
         /\ wrong \in Nat /\ budget \in Nat /\ MAX_PIN_RETRIES \in Nat \ {0}
BY PinAssumption DEF TypeInv, TypeOK, PinFile, Chip

\* The steps that neither take nor give a retry, nor begin a comparison.
LEMMA BudgetUntouched ==
  ASSUME \/ Initialize \/ RefuseBlocked \/ Undecryptable \/ Match
         \/ ClearForce \/ RenewToken \/ IssueToken
         \/ (\E rp \in RPs : MakeCredential(rp)) \/ GetAssertion \/ Presence
         \/ (\E len \in MinLens, force \in BOOLEAN : SetMinPin(len, force))
         \/ StartReset \/ ScanFiles \/ Abort \/ Rescan \/ Reuse \/ TenSeconds
         \/ Commit \/ UNCHANGED vars
  PROVE  /\ UNCHANGED <<ef_pin, wrong, budget>>
         /\ pc' = pc \/ pc' \notin {"compare", "newpin"}
BY DEF Initialize, RefuseBlocked, Undecryptable, Match,
       ClearForce, RenewToken, IssueToken, MakeCredential, GetAssertion, Presence,
       SetMinPin, StartReset, ScanFiles, Abort, Rescan, Reuse, TenSeconds, Commit, vars

LEMMA BudgetStep ==
  ASSUME TypeInv, BudgetInv, [Next]_vars
  PROVE  BudgetInv'
<1> USE NumbersTyped DEF BudgetInv, GuessBudget
<1>1. ASSUME NEW p \in Pins, SetPin(p) PROVE BudgetInv'
  BY <1>1 DEF SetPin
<1>2. ASSUME NEW c \in Attempts, StartAttempt(c) PROVE BudgetInv'
  <2>1. /\ ef_pin'.retries = ef_pin.retries - 1 /\ pc' = "compare"
        /\ UNCHANGED <<wrong, budget>>
    BY <1>2 DEF StartAttempt, ghosts, TypeInv, TypeOK, PinFile
  <2> QED BY <2>1
<1>3. CASE Mismatch
  <2>1. /\ pc = "compare" /\ pc' = "idle" /\ wrong' = wrong + 1
        /\ UNCHANGED <<ef_pin, budget>>
    BY <1>3 DEF Mismatch, files
  <2> QED BY <2>1
<1>4. CASE Restore
  <2>1. /\ ef_pin'.retries = MAX_PIN_RETRIES /\ pc' # "compare"
        /\ wrong' = 0 /\ budget' = MAX_PIN_RETRIES
    BY <1>4 DEF Restore, TypeInv, TypeOK, PinFile
  <2> QED BY <2>1
<1>5. CASE WriteNewPin
  BY <1>5 DEF WriteNewPin
<1>6. CASE Reset
  <2>1. /\ pc' \in {"idle", "wiped"}
        /\ \/ ef_pin' = NoPinFile /\ wrong' = 0 /\ budget' = 0
           \/ UNCHANGED <<ef_pin, wrong, budget>>
    BY <1>6 DEF Reset, files
  <2> QED BY <2>1 DEF NoPinFile
<1>7. CASE PowerCut
  BY <1>7 DEF PowerCut
<1>8. ASSUME UNCHANGED <<ef_pin, wrong, budget>>, pc' = pc \/ pc' \notin {"compare", "newpin"}
      PROVE  BudgetInv'
  BY <1>8
<1> QED BY <1>1, <1>2, <1>3, <1>4, <1>5, <1>6, <1>7, <1>8, BudgetUntouched DEF Next

\* However attempts fail, are cut short or are followed by a right one, no host
\* has more wrong PINs compared than there were retries when the count began:
\* client_pin decrements retries before it compares.
THEOREM GuessesBounded == Spec => []GuessBudget
<1>1. Init => BudgetInv
  BY DEF Init, BudgetInv, GuessBudget, NoPinFile
<1>2. TypeInv /\ BudgetInv /\ [Next]_vars => BudgetInv'
  BY BudgetStep
<1>3. BudgetInv => GuessBudget
  BY DEF BudgetInv
<1> QED BY <1>1, <1>2, <1>3, TypeInvariant, PTL DEF Spec
-----------------------------------------------------------------------------
(* A blocked PIN.                                                          *)

\* A PIN out of retries gets none back from any command short of a reset, nor
\* from the power unless the last retry had not reached the chip.
THEOREM BlockedIsFinal == Spec => PinBlockedIsFinal
<1> DEFINE Step == (ef_pin.pin # NoPin /\ ef_pin.retries = 0 /\ pc = "idle")
                     => (ef_pin'.retries = 0 \/ ef_pin' = chip.pin)
<1>1. [Next]_vars => [Step]_vars
  <2> SUFFICES ASSUME Next, ef_pin.pin # NoPin, ef_pin.retries = 0, pc = "idle"
               PROVE  ef_pin'.retries = 0 \/ ef_pin' = chip.pin
    OBVIOUS
  <2>1. CASE \/ Initialize \/ RefuseBlocked \/ Undecryptable \/ Match
             \/ ClearForce \/ RenewToken \/ IssueToken
             \/ (\E rp \in RPs : MakeCredential(rp)) \/ GetAssertion \/ Presence
             \/ (\E len \in MinLens, force \in BOOLEAN : SetMinPin(len, force))
             \/ StartReset \/ ScanFiles \/ Abort \/ Rescan \/ Reuse \/ TenSeconds
             \/ Commit
    BY <2>1, BudgetUntouched
  <2>2. CASE PowerCut
    BY <2>2 DEF PowerCut
  <2> QED BY <2>1, <2>2 DEF Next, SetPin, StartAttempt, Mismatch, Restore, WriteNewPin, Reset
<1> QED BY <1>1, PTL DEF Spec, PinBlockedIsFinal
-----------------------------------------------------------------------------
(* Tokens.                                                                 *)

\* A token just drawn is not one the host holds.
LEMMA DrawnIsFresh ==
  ASSUME TypeInv, AuthInv, DrawToken, held' = held
  PROVE  ~Authentic' /\ AuthInv' /\ ef_authtoken' \notin held'
<1>1. drawn \in Nat /\ \A t \in held : t \in Nat /\ t <= drawn
  BY PinAssumption DEF TypeInv, TypeOK, Token, AuthInv
<1> QED BY <1>1 DEF DrawToken, Authentic, NoToken, AuthInv

\* The steps that touch neither the token nor its state, and do not end a
\* change of PIN.
LEMMA TokenUntouched ==
  ASSUME HostWaits,
         \/ (\E p \in Pins : SetPin(p)) \/ (\E c \in Attempts : StartAttempt(c))
         \/ RefuseBlocked \/ Mismatch \/ Undecryptable \/ Match \/ Restore \/ ClearForce
         \/ GetAssertion
         \/ (\E len \in MinLens, force \in BOOLEAN : SetMinPin(len, force))
         \/ StartReset \/ Abort \/ TenSeconds \/ Commit \/ UNCHANGED vars
  PROVE  /\ UNCHANGED <<ef_authtoken, auth, drawn, paut, held, grant>>
         /\ pc \in {"unforce", "newtoken"} => pc' \in {"unforce", "newtoken"}
         /\ pc' = "wiped" <=> pc = "wiped"
BY DEF SetPin, StartAttempt, RefuseBlocked, Mismatch, Undecryptable, Match, Restore,
       ClearForce, GetAssertion, SetMinPin, StartReset, Abort, TenSeconds, Commit, vars,
       files, tokenVars, ghosts

LEMMA TokenStep ==
  ASSUME HostWaits, TypeInv, TokenInv, [Next]_vars
  PROVE  TokenInv'
<1>1. /\ paut \in Paut /\ drawn \in Nat /\ \A t \in held : t \in Nat /\ t # NoToken
      /\ AuthInv
  BY PinAssumption DEF TypeInv, TypeOK, Token, NoToken, TokenInv
<1>2. CASE Initialize
  <2>1. DrawToken /\ held' = held /\ pc' = "idle"
    BY <1>2 DEF Initialize, resetPinUvAuthToken
  <2>2. paut'.permissions = {}
    BY <1>1, <1>2 DEF Initialize, resetPinUvAuthToken, Paut
  <2> QED BY <1>1, <2>1, <2>2, DrawnIsFresh DEF TokenInv
<1>3. CASE WriteNewPin
  BY <1>3 DEF WriteNewPin, TokenInv, AuthInv
<1>4. CASE RenewToken
  <2>1. DrawToken /\ held' = held /\ pc' = "idle"
    BY <1>4 DEF RenewToken, resetPinUvAuthToken
  <2>2. paut'.permissions = {}
    BY <1>1, <1>4 DEF RenewToken, resetPinUvAuthToken, Paut
  <2> QED BY <1>1, <2>1, <2>2, DrawnIsFresh DEF TokenInv
<1>5. CASE IssueToken
  <2>1. AuthInv' /\ pc' = "idle"
    BY <1>1, <1>5 DEF IssueToken, DrawToken, AuthInv
  <2>2. /\ paut'.in_use /\ grant'.token = auth'
        /\ grant'.permissions = paut'.permissions /\ grant'.rp = paut'.rp
    BY <1>5 DEF IssueToken, DrawToken
  <2> QED BY <2>1, <2>2 DEF TokenInv
<1>6. ASSUME NEW rp \in RPs, MakeCredential(rp) PROVE TokenInv'
  <2>1. /\ UNCHANGED <<ef_authtoken, auth, drawn, held, grant>>
        /\ pc = "idle" /\ pc' = "presence"
        /\ paut.permissions # {} /\ paut.rp \in {NoRp, rp}
    BY <1>6 DEF MakeCredential
  <2>2. /\ paut'.permissions = paut.permissions /\ paut'.rp = rp
        /\ paut'.in_use = paut.in_use
    BY <1>1, <1>6 DEF MakeCredential, Paut
  <2> QED BY <2>1, <2>2 DEF TokenInv, AuthInv, Authentic
<1>7. CASE Presence
  <2>1. /\ UNCHANGED <<ef_authtoken, auth, drawn, held, grant>>
        /\ pc = "presence" /\ pc' = "idle"
    BY <1>7 DEF Presence
  <2>2. /\ paut'.permissions \in {paut.permissions, {"lbw"}} /\ paut'.rp = paut.rp
        /\ paut'.in_use = paut.in_use
        /\ ~paut.in_use => paut' = paut
    BY <1>1, <1>7 DEF Presence, ClearedPaut, Paut
  <2> QED BY <2>1, <2>2 DEF TokenInv, AuthInv, Authentic
<1>8. CASE Reset
  <2>1. UNCHANGED <<auth, drawn, paut, held>>
    BY <1>8 DEF Reset
  <2>2. CASE ef_authtoken' = NoToken /\ pc' = "wiped"
    BY <1>1, <2>1, <2>2 DEF TokenInv, AuthInv
  <2>3. CASE UNCHANGED <<ef_authtoken, grant>> /\ pc = "reset" /\ pc' = "idle"
    BY <2>1, <2>3 DEF TokenInv, AuthInv, Authentic
  <2> QED BY <1>8, <2>2, <2>3 DEF Reset
<1>9. CASE PowerCut
  <2>1. held' = held /\ paut' = NoPaut /\ pc' = "idle"
    BY <1>9 DEF PowerCut
  <2>2. (drawn' = drawn \/ drawn' = drawn + 1) /\ auth' = ef_authtoken'
    BY <1>9 DEF PowerCut, DrawToken
  <2>3. AuthInv'
    BY <1>1, <2>1, <2>2 DEF AuthInv
  <2> QED BY <2>1, <2>3 DEF TokenInv, NoPaut
<1>10. CASE ScanFiles
  <2>1. /\ TokenFile /\ UNCHANGED <<held, paut>> /\ pc = "wiped" /\ pc' = "idle"
    BY <1>10 DEF ScanFiles
  <2>2. CASE ef_authtoken = NoToken
    BY <1>1, <2>1, <2>2, DrawnIsFresh DEF TokenFile, TokenInv
  <2>3. CASE ef_authtoken # NoToken
    <3>1. auth' = ef_authtoken /\ UNCHANGED <<ef_authtoken, drawn>>
      BY <2>1, <2>3 DEF TokenFile
    <3>2. ef_authtoken \notin held
      BY <2>1 DEF TokenInv
    <3> QED BY <1>1, <2>1, <3>1, <3>2 DEF TokenInv, AuthInv, Authentic
  <2> QED BY <2>2, <2>3
<1>11. CASE Rescan
  <2>1. /\ TokenFile /\ UNCHANGED <<held, paut, grant, pc>>
    BY <1>11 DEF Rescan
  <2>2. CASE ef_authtoken = NoToken
    BY <1>1, <2>1, <2>2, DrawnIsFresh DEF TokenFile, TokenInv
  <2>3. CASE ef_authtoken # NoToken
    <3>1. auth' = auth /\ UNCHANGED <<ef_authtoken, drawn>>
      BY <1>1, <2>1, <2>3 DEF TokenFile, AuthInv
    <3> QED BY <2>1, <3>1 DEF TokenInv, AuthInv, Authentic
  <2> QED BY <2>2, <2>3
<1>12. CASE Reuse
  <2>1. /\ ef_authtoken = NoToken /\ auth' = NoToken
        /\ UNCHANGED <<ef_authtoken, drawn, held, paut, pc>>
    BY <1>12 DEF Reuse
  <2> QED BY <1>1, <2>1 DEF TokenInv, AuthInv, Authentic
<1>13. ASSUME UNCHANGED <<ef_authtoken, auth, drawn, paut, held, grant>>,
              pc \in {"unforce", "newtoken"} => pc' \in {"unforce", "newtoken"},
              pc' = "wiped" <=> pc = "wiped"
       PROVE  TokenInv'
  BY <1>13 DEF TokenInv, AuthInv, Authentic
<1> QED BY <1>2, <1>3, <1>4, <1>5, <1>6, <1>7, <1>8, <1>9, <1>10, <1>11, <1>12, <1>13,
           TokenUntouched DEF Next

\* With a host that waits for its answers, a token authorises only what the last
\* one given for the current PIN was given for: resetPinUvAuthToken draws a token
\* nobody holds, and nothing but giving one out widens its permissions.
THEOREM TokensSound == ASSUME HostWaits PROVE Spec => []TokenSound
<1>1. Init => TokenInv
  BY DEF Init, TokenInv, AuthInv, NoPaut
<1>2. TypeInv /\ TokenInv /\ [Next]_vars => TokenInv'
  BY TokenStep
<1>3. TokenInv => TokenSound
  BY DEF TokenInv, TokenSound
<1> QED BY <1>1, <1>2, <1>3, TypeInvariant, PTL DEF Spec
-----------------------------------------------------------------------------
(* The minimum length.                                                     *)

LEMMA LengthsTyped ==
  ASSUME TypeInv
  PROVE  /\ \A p \in Pins : PinLen[p] \in Nat
         /\ ef_minpin.len \in Nat /\ MinLens \subseteq Nat
         /\ torn \in BOOLEAN /\ apart \in BOOLEAN
         /\ ef_pin.pin \in Pins \cup {NoPin}
         /\ pc \in {"newpin", "unforce", "newtoken"} => cur.new \in Pins
BY PinAssumption DEF TypeInv, TypeOK, CurInv, PinFile, MinPinFile, ChangePin

\* The steps that change neither a PIN nor a minimum, and begin no change of PIN.
LEMMA MarkUntouched ==
  ASSUME TypeInv,
         \/ Initialize \/ (\E c \in Attempts : StartAttempt(c)) \/ RefuseBlocked
         \/ Mismatch \/ Undecryptable \/ Match \/ RenewToken \/ IssueToken
         \/ (\E rp \in RPs : MakeCredential(rp)) \/ GetAssertion \/ Presence
         \/ StartReset \/ ScanFiles \/ Abort \/ Rescan \/ Reuse \/ TenSeconds
         \/ UNCHANGED vars
  PROVE  /\ ef_pin'.pin = ef_pin.pin /\ UNCHANGED <<ef_minpin, chip, apart, torn>>
         /\ pc' \notin {"newpin", "unforce"} \/ UNCHANGED <<pc, cur>>
<1>1. CASE \E c \in Attempts : StartAttempt(c)
  BY <1>1 DEF StartAttempt, TypeInv, TypeOK, PinFile
<1>2. CASE \/ Initialize \/ RefuseBlocked
           \/ Mismatch \/ Undecryptable \/ Match \/ RenewToken \/ IssueToken
           \/ (\E rp \in RPs : MakeCredential(rp)) \/ GetAssertion \/ Presence
           \/ StartReset \/ ScanFiles \/ Abort \/ Rescan \/ Reuse \/ TenSeconds
           \/ UNCHANGED vars
  BY <1>2 DEF Initialize, RefuseBlocked, Mismatch, Undecryptable, Match, RenewToken,
              IssueToken, MakeCredential, GetAssertion, Presence, StartReset, ScanFiles,
              Abort, Rescan, Reuse, TenSeconds, vars
<1> QED BY <1>1, <1>2

\* The length in the file is no more than the one that was compared.
LEMMA OneByte ==
  ASSUME TypeInv, NEW len \in MinLens
  PROVE  Asked(len) \in Nat /\ Asked(len) % 256 <= Asked(len)
<1>1. Asked(len) \in Nat
  BY LengthsTyped DEF Asked
<1> QED BY <1>1

\* A commit leaves the two files of one moment, or they are apart.
LEMMA CommitMarks ==
  ASSUME TypeInv, MarkInv, Commit
  PROVE  MarkInv'
<1>1. /\ UNCHANGED <<ef_pin, ef_minpin, torn, pc, cur>>
      /\ torn \in BOOLEAN /\ apart \in BOOLEAN
  BY LengthsTyped DEF Commit
<1>2. chip.pin \in PinFile /\ chip.minpin \in MinPinFile /\ chip \in Chip
  BY DEF TypeInv, TypeOK, Chip
<1>3. \/ chip'.pin.pin = NoPin
      \/ chip'.pin = ef_pin /\ chip'.minpin = ef_minpin
      \/ apart'
      \/ UNCHANGED <<chip.pin, chip.minpin, apart>>
  <2>1. CASE wiped
    BY <2>1 DEF Commit, NoFiles, NoPinFile
  <2>2. CASE chip' = [chip EXCEPT !.token = ef_authtoken] /\ UNCHANGED apart
    BY <1>2, <2>2 DEF Chip
  <2>3. CASE apart' = (chip'.pin # ef_pin \/ chip'.minpin # ef_minpin)
    BY <2>3
  <2> QED BY <2>1, <2>2, <2>3 DEF Commit
<1> QED BY <1>1, <1>3 DEF MarkInv, Marked

LEMMA MarkStep ==
  ASSUME TypeInv, MarkInv, [Next]_vars
  PROVE  MarkInv'
<1> USE LengthsTyped DEF MarkInv, Marked
<1>1. ASSUME NEW p \in Pins, SetPin(p) PROVE MarkInv'
  BY <1>1 DEF SetPin
<1>2. CASE Restore
  <2>1. /\ ef_pin'.pin = ef_pin.pin /\ UNCHANGED <<ef_minpin, chip, apart, torn>>
        /\ pc' # "unforce"
        /\ pc' = "newpin" => UNCHANGED cur /\ PinLen[cur.new] >= ef_minpin.len
    BY <1>2 DEF Restore, PolicyAllows, TypeInv, TypeOK, PinFile
  <2> QED BY <2>1
<1>3. CASE WriteNewPin
  BY <1>3 DEF WriteNewPin
<1>4. CASE ClearForce
  <2>1. /\ ef_minpin'.len = ef_minpin.len /\ pc' = "newtoken"
        /\ UNCHANGED <<ef_pin, chip, apart, torn>>
    BY <1>4 DEF ClearForce, TypeInv, TypeOK, MinPinFile
  <2>2. ef_pin.pin # NoPin => ~(PinLen[ef_pin.pin] < ef_minpin.len)
    BY <1>4 DEF ClearForce
  <2> QED BY <2>1, <2>2
<1>5. ASSUME NEW len \in MinLens, NEW force \in BOOLEAN, SetMinPin(len, force)
      PROVE  MarkInv'
  <2>1. /\ pc' = "idle" /\ UNCHANGED <<ef_pin, chip, apart, torn>>
        /\ ef_minpin'.len = Asked(len) % 256
        /\ ef_pin.pin # NoPin /\ PinLen[ef_pin.pin] < Asked(len) => ef_minpin'.force
    BY <1>5 DEF SetMinPin
  <2>2. Asked(len) \in Nat /\ ef_minpin'.len \in Nat /\ ef_minpin'.len <= Asked(len)
    BY <2>1, OneByte
  <2>3. Marked(ef_pin', ef_minpin')
    BY <2>1, <2>2
  <2> QED BY <2>1, <2>3
<1>6. CASE Reset
  <2>1. /\ pc' \in {"idle", "wiped"} /\ UNCHANGED <<chip, apart, torn>>
        /\ ef_pin'.pin = NoPin \/ UNCHANGED <<ef_pin, ef_minpin>>
    BY <1>6 DEF Reset, NoPinFile
  <2> QED BY <2>1
<1>7. CASE Commit
  BY <1>7, CommitMarks
<1>8. CASE PowerCut
  <2>1. /\ ef_pin' = chip.pin /\ ef_minpin' = chip.minpin /\ UNCHANGED <<chip, apart>>
        /\ pc' = "idle" /\ torn' = (torn \/ apart)
    BY <1>8 DEF PowerCut
  <2> QED BY <2>1
<1>9. ASSUME ef_pin'.pin = ef_pin.pin, UNCHANGED <<ef_minpin, chip, apart, torn>>,
             pc' \notin {"newpin", "unforce"} \/ UNCHANGED <<pc, cur>>
      PROVE  MarkInv'
  BY <1>9
<1> QED BY <1>1, <1>2, <1>3, <1>4, <1>5, <1>6, <1>7, <1>8, <1>9, MarkUntouched DEF Next

\* A PIN shorter than the minimum in its file is marked for change, whenever a
\* command is cut short, unless a power cut once fell between the two files of one
\* do_flash: changePIN writes the PIN, which is long enough, before it unmarks.
THEOREM MinimumEnforced == Spec => []MinPinEnforced
<1>1. Init => MarkInv
  BY DEF Init, MarkInv, Marked, NoFiles, NoPinFile
<1>2. TypeInv /\ MarkInv /\ [Next]_vars => MarkInv'
  BY MarkStep
<1>3. MarkInv => MinPinEnforced
  BY DEF MarkInv, Marked, MinPinEnforced
<1> QED BY <1>1, <1>2, <1>3, TypeInvariant, PTL DEF Spec
-----------------------------------------------------------------------------
(* ClientPin implements PinGuard.                                          *)

\* Core 1 gives retries back to the PIN that it compared, and the tokens that
\* were given out were drawn.
GuardInv ==
  /\ pc = "restore" => cur.guess = ef_pin.pin
  /\ AuthInv

\* The steps that move neither the PIN's file nor what is tried or shown.
LEMMA GuardUntouched ==
  ASSUME \/ Initialize \/ RefuseBlocked \/ Match \/ ClearForce \/ RenewToken
         \/ (\E rp \in RPs : MakeCredential(rp)) \/ GetAssertion \/ Presence
         \/ (\E len \in MinLens, force \in BOOLEAN : SetMinPin(len, force))
         \/ StartReset \/ ScanFiles \/ Rescan \/ Reuse \/ TenSeconds \/ Commit
         \/ UNCHANGED vars
  PROVE  /\ UNCHANGED <<ef_pin, held>>
         /\ Tried' = Tried /\ Shown' = Shown
         /\ Commit \/ UNCHANGED <<chip, wiped>>
         /\ pc' = "restore" =>
              (pc = "restore" /\ cur' = cur) \/ cur'.guess = ef_pin.pin
BY DEF Initialize, RefuseBlocked, Match, ClearForce, RenewToken, MakeCredential,
       GetAssertion, Presence, SetMinPin, StartReset, ScanFiles, Rescan, Reuse,
       TenSeconds, Commit, vars, Tried, Shown

LEMMA HeldTyped ==
  ASSUME TypeInv, GuardInv
  PROVE  /\ drawn \in Nat
         /\ \A t \in held : t \in Nat /\ t <= drawn
BY PinAssumption DEF TypeInv, TypeOK, Token, GuardInv, AuthInv

\* A token that is drawn is held by nobody, so none of the host's is in use.
LEMMA DrawCloses ==
  ASSUME TypeInv, GuardInv, DrawToken, held' = held
  PROVE  ~Authentic' /\ \A t \in held' : t <= drawn'
BY HeldTyped DEF DrawToken, Authentic

\* scan_files draws a token or finds the pointer where it is.
LEMMA ScanCloses ==
  ASSUME TypeInv, GuardInv, TokenFile, held' = held, paut' = paut
  PROVE  (InUse' = InUse) \/ (InUse' = FALSE)
<1>1. CASE ef_authtoken = NoToken
  BY <1>1, DrawCloses DEF TokenFile, InUse
<1>2. CASE ef_authtoken # NoToken
  <2>1. auth' = auth
    BY <1>2 DEF TokenFile, GuardInv, AuthInv
  <2> QED BY <2>1 DEF InUse, Authentic
<1> QED BY <1>1, <1>2

LEMMA GuardKept ==
  ASSUME TypeInv, GuardInv, [Next]_vars
  PROVE  GuardInv'
<1>1. /\ drawn \in Nat
      /\ \A t \in held : t \in Nat /\ t <= drawn
      /\ drawn' \in {drawn, drawn + 1}
      /\ held' = held \/ held' = held \cup {drawn'}
      /\ ef_authtoken' # NoToken => auth' = ef_authtoken'
  <2>1. /\ drawn \in Nat
        /\ \A t \in held : t \in Nat /\ t <= drawn
        /\ ef_authtoken # NoToken => auth = ef_authtoken
    BY HeldTyped DEF GuardInv, AuthInv
  <2>2. CASE \/ Initialize \/ RenewToken \/ IssueToken \/ PowerCut \/ ScanFiles \/ Rescan
    <3>1. /\ drawn' = drawn \/ (drawn' = drawn + 1 /\ ef_authtoken' = drawn')
          /\ auth' = ef_authtoken'
      BY <2>2 DEF Initialize, RenewToken, IssueToken, PowerCut, ScanFiles, Rescan,
                  TokenFile, resetPinUvAuthToken, DrawToken
    <3>2. held' = held \/ (IssueToken /\ held' = held \cup {ef_authtoken'})
      BY <2>2 DEF Initialize, RenewToken, IssueToken, PowerCut, ScanFiles, Rescan
    <3>3. IssueToken => ef_authtoken' = drawn'
      BY DEF IssueToken, DrawToken
    <3> QED BY <2>1, <3>1, <3>2, <3>3
  <2>3. CASE Reset \/ Reuse
    <3>1. /\ UNCHANGED <<drawn, held>>
          /\ ef_authtoken' = NoToken \/ UNCHANGED <<ef_authtoken, auth>>
      BY <2>3 DEF Reset, Reuse
    <3> QED BY <2>1, <3>1
  <2>4. CASE \/ (\E p \in Pins : SetPin(p)) \/ (\E c \in Attempts : StartAttempt(c))
             \/ RefuseBlocked \/ Mismatch \/ Undecryptable \/ Match \/ Restore
             \/ WriteNewPin \/ ClearForce \/ (\E rp \in RPs : MakeCredential(rp))
             \/ GetAssertion \/ Presence
             \/ (\E len \in MinLens, force \in BOOLEAN : SetMinPin(len, force))
             \/ StartReset \/ Abort \/ TenSeconds \/ Commit \/ UNCHANGED vars
    <3>1. UNCHANGED <<ef_authtoken, auth, drawn, held>>
      BY <2>4 DEF SetPin, StartAttempt, RefuseBlocked, Mismatch, Undecryptable, Match,
                  Restore, WriteNewPin, ClearForce, MakeCredential, GetAssertion,
                  Presence, SetMinPin, StartReset, Abort, TenSeconds, Commit, vars
    <3> QED BY <2>1, <3>1
  <2> QED BY <2>2, <2>3, <2>4 DEF Next
<1>2. AuthInv'
  BY <1>1 DEF AuthInv
<1>3. pc' = "restore" => cur'.guess = ef_pin'.pin
  <2>1. CASE \/ Initialize \/ RefuseBlocked \/ Match \/ ClearForce \/ RenewToken
             \/ (\E rp \in RPs : MakeCredential(rp)) \/ GetAssertion \/ Presence
             \/ (\E len \in MinLens, force \in BOOLEAN : SetMinPin(len, force))
             \/ StartReset \/ ScanFiles \/ Rescan \/ Reuse \/ TenSeconds \/ Commit
             \/ UNCHANGED vars
    <3>1. ef_pin' = ef_pin
      BY <2>1, GuardUntouched
    <3>2. pc' = "restore" => (pc = "restore" /\ cur' = cur) \/ cur'.guess = ef_pin.pin
      BY <2>1, GuardUntouched
    <3> QED BY <3>1, <3>2 DEF GuardInv
  <2>2. CASE \/ (\E p \in Pins : SetPin(p)) \/ (\E c \in Attempts : StartAttempt(c))
             \/ Mismatch \/ Undecryptable \/ Restore \/ WriteNewPin \/ IssueToken
             \/ Reset \/ Abort \/ PowerCut
    BY <2>2 DEF SetPin, StartAttempt, Mismatch, Undecryptable, Restore, WriteNewPin,
                IssueToken, Reset, Abort, PowerCut
  <2> QED BY <2>1, <2>2 DEF Next
<1> QED BY <1>2, <1>3 DEF GuardInv

\* The steps of the commands on the token, and of the rest of the device, that
\* bring no token into use.
LEMMA NoneOpens ==
  ASSUME TypeInv, GuardInv,
         \/ Initialize \/ RefuseBlocked \/ Match \/ ClearForce \/ RenewToken
         \/ (\E rp \in RPs : MakeCredential(rp)) \/ GetAssertion \/ Presence
         \/ (\E len \in MinLens, force \in BOOLEAN : SetMinPin(len, force))
         \/ StartReset \/ ScanFiles \/ Rescan \/ Reuse \/ TenSeconds \/ Commit
         \/ UNCHANGED vars
  PROVE  (InUse' = InUse) \/ (InUse' = FALSE)
<1>1. CASE Initialize \/ RenewToken
  <2>1. DrawToken /\ held' = held
    BY <1>1 DEF Initialize, RenewToken, resetPinUvAuthToken
  <2> QED BY <2>1, DrawCloses DEF InUse
<1>2. CASE (\E rp \in RPs : MakeCredential(rp)) \/ Presence
  <2>1. UNCHANGED <<auth, held>>
    BY <1>2 DEF MakeCredential, Presence
  <2>2. paut'.in_use = paut.in_use
    BY <1>2 DEF MakeCredential, Presence, ClearedPaut, TypeInv, TypeOK, Paut
  <2> QED BY <2>1, <2>2 DEF InUse, Authentic
<1>3. CASE \/ RefuseBlocked \/ Match \/ ClearForce \/ GetAssertion
           \/ (\E len \in MinLens, force \in BOOLEAN : SetMinPin(len, force))
           \/ StartReset \/ TenSeconds \/ Commit \/ UNCHANGED vars
  <2>1. UNCHANGED <<auth, held, paut>>
    BY <1>3 DEF RefuseBlocked, Match, ClearForce, GetAssertion, SetMinPin, StartReset,
                TenSeconds, Commit, vars
  <2> QED BY <2>1 DEF InUse, Authentic
<1>4. CASE ScanFiles \/ Rescan
  BY <1>4, ScanCloses DEF ScanFiles, Rescan
<1>5. CASE Reuse
  BY <1>5, PinAssumption DEF Reuse, InUse, Authentic, NoToken, Token, TypeInv, TypeOK
<1> QED BY <1>1, <1>2, <1>3, <1>4, <1>5

LEMMA UntouchedIsGuarded ==
  ASSUME TypeInv, GuardInv,
         \/ Initialize \/ RefuseBlocked \/ Match \/ ClearForce \/ RenewToken
         \/ (\E rp \in RPs : MakeCredential(rp)) \/ GetAssertion \/ Presence
         \/ (\E len \in MinLens, force \in BOOLEAN : SetMinPin(len, force))
         \/ StartReset \/ ScanFiles \/ Rescan \/ Reuse \/ TenSeconds \/ UNCHANGED vars
  PROVE  Guard!Close \/ UNCHANGED Guard!vars
<1>1. /\ UNCHANGED <<ef_pin, chip, wiped>>
      /\ Tried' = Tried /\ Shown' = Shown
  <2>1. UNCHANGED <<chip, wiped>>
    BY DEF Initialize, RefuseBlocked, Match, ClearForce, RenewToken, MakeCredential,
           GetAssertion, Presence, SetMinPin, StartReset, ScanFiles, Rescan, Reuse,
           TenSeconds, vars
  <2> QED BY <2>1, GuardUntouched
<1>2. (InUse' = InUse) \/ (InUse' = FALSE)
  BY NoneOpens
<1> QED BY <1>1, <1>2 DEF Guard!Close, Guard!vars

\* do_flash keeps the PIN's file as it is, leaves it for later, or keeps the
\* erased list that a reset left.
LEMMA CommitIsGuarded ==
  ASSUME TypeInv, GuardInv, Commit
  PROVE  Guard!Keep \/ UNCHANGED Guard!vars
<1>1. /\ UNCHANGED ef_pin
      /\ Tried' = Tried /\ Shown' = Shown
  BY GuardUntouched
<1>2. InUse' = InUse
  BY DEF Commit, InUse, Authentic, files, ghosts
<1>3. CASE wiped
  <2>1. chip'.pin = NoPinFile /\ wiped' = FALSE
    BY <1>3 DEF Commit, NoFiles
  <2> QED BY <1>1, <1>2, <1>3, <2>1 DEF Guard!Keep, Guard!Blank, NoPinFile
<1>4. CASE ~wiped
  <2>1. /\ chip'.pin = ef_pin \/ chip'.pin = chip.pin
        /\ wiped' = wiped /\ wiped = FALSE
    BY <1>4 DEF Commit, TypeInv, TypeOK, Chip
  <2> QED BY <1>1, <1>2, <2>1 DEF Guard!Keep, Guard!vars
<1> QED BY <1>3, <1>4

\* The steps of an attempt.
LEMMA AttemptIsGuarded ==
  ASSUME TypeInv, GuardInv,
         \/ (\E c \in Attempts : StartAttempt(c)) \/ Mismatch \/ Undecryptable
         \/ Restore \/ WriteNewPin \/ Abort
  PROVE  Guard!Next \/ UNCHANGED Guard!vars
<1>1. ASSUME NEW c \in Attempts, StartAttempt(c) PROVE Guard!Next
  <2>1. c.guess \in Pins
    BY AttemptsTyped DEF GetToken, ChangePin
  <2>2. /\ Tried = NoPin /\ ~Shown /\ Tried' = c.guess /\ Shown' = Shown
        /\ ef_pin.pin # NoPin /\ ef_pin.retries > 0
        /\ ef_pin' = [ef_pin EXCEPT !.retries = ef_pin.retries - 1]
        /\ UNCHANGED <<chip, wiped>>
    BY <1>1 DEF StartAttempt, Tried, Shown
  <2>3. InUse' = InUse
    BY <1>1 DEF StartAttempt, InUse, Authentic, tokenVars, ghosts
  <2>4. Guard!Try(c.guess)
    BY <2>2, <2>3 DEF Guard!Try
  <2> QED BY <2>1, <2>4 DEF Guard!Next
<1>2. CASE Mismatch \/ Undecryptable \/ Abort
  <2>1. /\ Tried' = NoPin /\ Shown' = FALSE
        /\ UNCHANGED <<ef_pin, chip, wiped>>
    BY <1>2 DEF Mismatch, Undecryptable, Abort, Tried, Shown, files
  <2>2. InUse' = InUse
    BY <1>2 DEF Mismatch, Undecryptable, Abort, InUse, Authentic, files, ghosts
  <2> QED BY <2>1, <2>2 DEF Guard!Next, Guard!Fail
<1>3. CASE Restore
  <2>1. Tried = ef_pin.pin /\ Tried # NoPin
    BY <1>3, PinAssumption
       DEF Restore, GuardInv, Tried, TypeInv, CurInv, GetToken, ChangePin
  <2>2. /\ Tried' = NoPin /\ Shown' \in BOOLEAN
        /\ ~Shown /\ UNCHANGED <<chip, wiped>>
        /\ ef_pin' = [ef_pin EXCEPT !.retries = MAX_PIN_RETRIES]
    BY <1>3 DEF Restore, Tried, Shown
  <2>3. InUse' = InUse
    BY <1>3 DEF Restore, InUse, Authentic, tokenVars
  <2> QED BY <2>1, <2>2, <2>3 DEF Guard!Next, Guard!Show
<1>4. CASE WriteNewPin
  <2>1. cur.new \in Pins
    BY <1>4 DEF WriteNewPin, TypeInv, CurInv, ChangePin
  <2>2. /\ Shown /\ Shown' = FALSE /\ Tried' = Tried
        /\ ef_pin' = [pin |-> cur.new, retries |-> MAX_PIN_RETRIES]
        /\ UNCHANGED <<chip, wiped>>
    BY <1>4 DEF WriteNewPin, Tried, Shown
  <2>3. InUse' = InUse
    BY <1>4 DEF WriteNewPin, InUse, Authentic, tokenVars
  <2>4. Guard!Change(cur.new)
    BY <2>2, <2>3 DEF Guard!Change
  <2> QED BY <2>1, <2>4 DEF Guard!Next
<1> QED BY <1>1, <1>2, <1>3, <1>4

LEMMA GuardStep ==
  ASSUME TypeInv, GuardInv, [Next]_vars
  PROVE  [Guard!Next]_(Guard!vars)
<1>1. ASSUME NEW p \in Pins, SetPin(p) PROVE Guard!SetPin(p)
  <2>1. InUse' = InUse
    BY <1>1 DEF SetPin, InUse, Authentic, tokenVars
  <2> QED BY <1>1, <2>1 DEF SetPin, Guard!SetPin, Tried, Shown
<1>2. CASE IssueToken
  <2>1. InUse'
    BY <1>2 DEF IssueToken, DrawToken, InUse, Authentic
  <2>2. /\ Shown /\ Shown' = FALSE /\ Tried' = Tried
        /\ UNCHANGED <<ef_pin, chip, wiped>>
    BY <1>2 DEF IssueToken, Tried, Shown
  <2>3. InUse' = TRUE
    BY <2>1 DEF InUse
  <2> QED BY <2>2, <2>3 DEF Guard!Next, Guard!Open
<1>3. CASE Reset
  <2>1. Tried' = Tried /\ Shown' = Shown /\ UNCHANGED chip
    BY <1>3 DEF Reset, Tried, Shown
  <2>2. InUse' = InUse
    BY <1>3 DEF Reset, InUse, Authentic
  <2>3. CASE ef_pin' = NoPinFile /\ wiped' = TRUE
    BY <2>1, <2>2, <2>3 DEF Guard!Next, Guard!Reset, Guard!Blank, NoPinFile
  <2>4. CASE UNCHANGED <<ef_pin, wiped>>
    BY <2>1, <2>2, <2>4 DEF Guard!vars
  <2> QED BY <1>3, <2>3, <2>4 DEF Reset
<1>4. CASE PowerCut
  <2>1. /\ ef_pin' = chip.pin /\ wiped' = FALSE /\ UNCHANGED chip
        /\ Tried' = NoPin /\ Shown' = FALSE
    BY <1>4 DEF PowerCut, Tried, Shown
  <2>2. InUse' = FALSE
    BY <1>4 DEF PowerCut, InUse, NoPaut
  <2> QED BY <2>1, <2>2 DEF Guard!Next, Guard!Power
<1> QED BY <1>1, <1>2, <1>3, <1>4, UntouchedIsGuarded, CommitIsGuarded, AttemptIsGuarded
        DEF Next, Guard!Next

\* client_pin implements PinGuard, with aborts and torn commits: the retries that
\* the code gives back, the new PIN it writes and the token it hands out all follow
\* a comparison that found the PIN right, in a command that was not cut short since.
THEOREM PinIsGuarded == Spec => ImplementsGuard
<1>1. Init => GuardInv /\ Guard!Init
  BY DEF Init, GuardInv, AuthInv, Guard!Init, Guard!Blank, NoPinFile, NoFiles, NoPaut, Tried, Shown,
         InUse
<1>2. TypeInv /\ GuardInv /\ [Next]_vars => GuardInv'
  BY GuardKept
<1>3. TypeInv /\ GuardInv /\ [Next]_vars => [Guard!Next]_(Guard!vars)
  BY GuardStep
<1> QED BY <1>1, <1>2, <1>3, TypeInvariant, PTL DEF Spec, ImplementsGuard, Guard!Spec
=============================================================================
