----------------------------- MODULE ClientPin -----------------------------
(***************************************************************************)
(* The PIN of the authenticator (fido/cbor_client_pin.c): its retries, the *)
(* pinUvAuthToken it gives out, the minimum length and the forced change   *)
(* (fido/cbor_config.c), the uses of the token that change it              *)
(* (cbor_make_credential.c, cbor_get_assertion.c) and the factory reset    *)
(* (cbor_reset.c).  Files are changed in the page cache and reach the chip *)
(* later (Commit); the power may go at any step.  A step is what core 1    *)
(* does between two writes, so that a cut, a commit or a reset of core 1   *)
(* by a new command may fall between them.  A request refused before       *)
(* anything is written changes nothing and is not a step.                  *)
(***************************************************************************)
EXTENDS Integers

CONSTANTS
  Pins, PinLen,      \* the PINs users choose, and their lengths
  NoPin,
  MinLens,           \* minimum lengths a configuration may ask for; 0 is none
  DefaultMin,        \* minPin of a device never configured: 4
  Permissions,       \* "mc", "ga", "lbw", "acfg", ...
  Requests,          \* the sets of permissions asked for with subcommand 9
  RPs, NoRp,
  MAX_PIN_RETRIES,   \* 8 in fido.h
  MaxTokens,         \* bound: random tokens drawn in a behaviour
  HostWaits          \* no new command until the last one is answered

ASSUME PinAssumption ==
  /\ NoPin \notin Pins /\ NoRp \notin RPs
  /\ PinLen \in [Pins -> Nat]
  /\ MinLens \subseteq Nat /\ DefaultMin \in 0..255
  /\ {"mc", "ga", "lbw", "acfg"} \subseteq Permissions
  /\ Requests \subseteq SUBSET Permissions
  /\ MAX_PIN_RETRIES \in 1..255 /\ MaxTokens \in Nat \ {0}
  /\ HostWaits \in BOOLEAN

VARIABLES
  ef_pin,              \* file EF_PIN: the PIN (as its hash) and the retries left
  ef_minpin,           \* file EF_MINPINLEN: length and forceChangePin
  ef_authtoken,        \* file EF_AUTHTOKEN: which of the random tokens, if any
  auth,                \* the token that paut.data points to
  chip,                \* what of the three files the chip holds
  wiped,               \* an erased file list waits for its commit
  drawn,               \* random tokens drawn so far
  hkey_init,           \* initialize() has run since power on
  new_pin_mismatches,  \* wrong PINs in a row; 3 stands for 3 and more
  paut,                \* permissions and state of the token in use
  early,               \* less than 10 s since power on
  pc, cur,             \* where core 1 is, and the command it runs
  resp,                \* the last answer to a PIN
  \* history: tokens the host was given, what the current one was given for,
  \* wrong PINs compared, and the retries there were when their count began;
  \* the chip has only one of the last EF_PIN and EF_MINPINLEN, and it once had
  \* when the power went
  held, grant, wrong, budget, apart, torn

files == <<ef_pin, ef_minpin, ef_authtoken>>
tokenVars == <<ef_authtoken, auth, drawn, paut>>
chipVars == <<chip, wiped, apart, torn>>
ghosts == <<held, grant, wrong, budget>>
vars == <<ef_pin, ef_minpin, tokenVars, chipVars, hkey_init, new_pin_mismatches,
          early, pc, cur, resp, ghosts>>

Token == 1..MaxTokens
NoToken == 0
PinFile == [pin : Pins \cup {NoPin}, retries : 0..MAX_PIN_RETRIES]
NoPinFile == [pin |-> NoPin, retries |-> 0]
MinPinFile == [len : 0..255, force : BOOLEAN]
NoMinPinFile == [len |-> DefaultMin, force |-> FALSE]
Chip == [pin : PinFile, minpin : MinPinFile, token : Token \cup {NoToken}]
NoFiles == [pin |-> NoPinFile, minpin |-> NoMinPinFile, token |-> NoToken]
Paut == [permissions : SUBSET Permissions, in_use : BOOLEAN,
         user_verified : BOOLEAN, rp : RPs \cup {NoRp}]
NoPaut == [permissions |-> {}, in_use |-> FALSE, user_verified |-> FALSE, rp |-> NoRp]
GetToken == [op : {"token"}, guess : Pins, permissions : SUBSET Permissions,
             rp : RPs \cup {NoRp}]
ChangePin == [op : {"change"}, guess : Pins, new : Pins]
NoCommand == [op |-> "none"]
Grant == [token : Token, permissions : SUBSET Permissions, rp : RPs \cup {NoRp}]
NoGrant == [token |-> NoToken, permissions |-> {}, rp |-> NoRp]

TypeOK ==
  /\ ef_pin \in PinFile
  /\ ef_minpin \in MinPinFile
  /\ ef_authtoken \in Token \cup {NoToken} /\ auth \in Token \cup {NoToken}
  /\ chip \in Chip
  /\ wiped \in BOOLEAN
  /\ drawn \in Token
  /\ hkey_init \in BOOLEAN
  /\ new_pin_mismatches \in 0..3
  /\ paut \in Paut
  /\ early \in BOOLEAN
  /\ pc \in {"idle", "compare", "restore", "newpin", "unforce", "newtoken", "token",
             "presence", "reset", "wiped"}
  /\ cur \in GetToken \cup ChangePin \cup {NoCommand}
  /\ resp \in {"none", "OK", "PIN_INVALID", "PIN_AUTH_BLOCKED", "PIN_BLOCKED"}
  /\ held \subseteq Token
  /\ grant \in Grant \cup {NoGrant}
  /\ wrong \in Nat /\ budget \in Nat
  /\ apart \in BOOLEAN /\ torn \in BOOLEAN
-----------------------------------------------------------------------------
(* Tokens.                                                                 *)

\* random_gen: 32 bytes never seen before.
DrawToken == /\ drawn < MaxTokens
             /\ drawn' = drawn + 1
             /\ ef_authtoken' = drawn + 1 /\ auth' = drawn + 1

\* The end of scan_files.
TokenFile == IF ef_authtoken = NoToken
             THEN DrawToken
             ELSE auth' = ef_authtoken /\ UNCHANGED <<ef_authtoken, drawn>>

resetPinUvAuthToken == /\ DrawToken
                       /\ paut' = [paut EXCEPT !.permissions = {}]

\* The host can authenticate with a token it was given, if the pointer shows it.
Authentic == auth \in held

\* clearUserVerifiedFlag and clearPinUvAuthTokenPermissionsExceptLbw: the latter
\* assigns the permission, whether or not the token had it.
ClearedPaut == IF paut.in_use
               THEN [paut EXCEPT !.user_verified = FALSE, !.permissions = {"lbw"}]
               ELSE paut

\* The first clientPIN command since power on, whatever it asks.
Initialize == /\ pc = "idle" /\ ~hkey_init
              /\ resetPinUvAuthToken
              /\ hkey_init' = TRUE
              /\ UNCHANGED <<ef_pin, ef_minpin, chipVars, new_pin_mismatches,
                             early, pc, cur, resp, ghosts>>
-----------------------------------------------------------------------------
(* clientPIN.                                                              *)

SetPin(p) ==
  /\ pc = "idle" /\ hkey_init
  /\ ef_pin.pin = NoPin
  /\ PinLen[p] >= ef_minpin.len
  /\ ef_pin' = [pin |-> p, retries |-> MAX_PIN_RETRIES]
  /\ resp' = "OK"
  /\ wrong' = 0 /\ budget' = MAX_PIN_RETRIES
  /\ UNCHANGED <<ef_minpin, tokenVars, chipVars, hkey_init, new_pin_mismatches,
                 early, pc, cur, held, grant>>

\* Fault: a PIN without retries is not refused, and the uint8_t wraps.
AttemptUnguarded(c) ==
  /\ pc = "idle" /\ hkey_init
  /\ ef_pin.pin # NoPin
  /\ ef_pin' = [ef_pin EXCEPT !.retries = (ef_pin.retries + 255) % 256]
  /\ cur' = c /\ resp' = "none"
  /\ pc' = "compare"
  /\ UNCHANGED <<ef_minpin, tokenVars, chipVars, hkey_init, new_pin_mismatches,
                 early, ghosts>>
\* Fault: changePIN forgets to take the retry.
ChangeIsFree(c) ==
  /\ pc = "idle" /\ hkey_init
  /\ ef_pin.pin # NoPin /\ ef_pin.retries > 0
  /\ ef_pin' = IF c.op = "change" THEN ef_pin
               ELSE [ef_pin EXCEPT !.retries = ef_pin.retries - 1]
  /\ cur' = c /\ resp' = "none"
  /\ pc' = "compare"
  /\ UNCHANGED <<ef_minpin, tokenVars, chipVars, hkey_init, new_pin_mismatches,
                 early, ghosts>>

\* changePIN and getPinToken take a retry before they look at the PIN.
StartAttempt(c) ==
  /\ pc = "idle" /\ hkey_init
  /\ ef_pin.pin # NoPin /\ ef_pin.retries > 0
  /\ ef_pin' = [ef_pin EXCEPT !.retries = ef_pin.retries - 1]
  /\ cur' = c /\ resp' = "none"
  /\ pc' = "compare"
  /\ UNCHANGED <<ef_minpin, tokenVars, chipVars, hkey_init, new_pin_mismatches,
                 early, ghosts>>

RefuseBlocked ==
  /\ pc = "idle" /\ hkey_init
  /\ ef_pin.pin # NoPin /\ ef_pin.retries = 0
  /\ resp' = "PIN_BLOCKED"
  /\ UNCHANGED <<ef_pin, ef_minpin, tokenVars, chipVars, hkey_init, new_pin_mismatches,
                 early, pc, cur, ghosts>>

\* When the last retry is gone the mismatch is no longer counted.
Mismatch ==
  /\ pc = "compare" /\ cur.guess # ef_pin.pin
  /\ IF ef_pin.retries = 0
     THEN resp' = "PIN_BLOCKED" /\ UNCHANGED new_pin_mismatches
     ELSE IF new_pin_mismatches >= 2
          THEN resp' = "PIN_AUTH_BLOCKED" /\ new_pin_mismatches' = 3
          ELSE /\ resp' = "PIN_INVALID"
               /\ new_pin_mismatches' = new_pin_mismatches + 1
  /\ pc' = "idle" /\ cur' = NoCommand
  /\ wrong' = wrong + 1
  /\ UNCHANGED <<ef_pin, ef_minpin, tokenVars, chipVars, hkey_init, early, held, grant, budget>>

\* getPinToken does not check the length of what it decrypts: the attempt ends
\* in PIN_AUTH_INVALID with its retry gone.
Undecryptable ==
  /\ pc = "compare" /\ cur.op = "token"
  /\ pc' = "idle" /\ cur' = NoCommand
  /\ UNCHANGED <<ef_pin, ef_minpin, tokenVars, chipVars, hkey_init, new_pin_mismatches,
                 early, resp, ghosts>>

\* Fault: changePIN does not look at the old PIN.
MatchChange == /\ pc = "compare" /\ (cur.op = "change" \/ cur.guess = ef_pin.pin)
               /\ pc' = "restore"
               /\ UNCHANGED <<ef_pin, ef_minpin, tokenVars, chipVars, hkey_init,
                              new_pin_mismatches, early, cur, resp, ghosts>>

Match == /\ pc = "compare" /\ cur.guess = ef_pin.pin
         /\ pc' = "restore"
         /\ UNCHANGED <<ef_pin, ef_minpin, tokenVars, chipVars, hkey_init, new_pin_mismatches,
                        early, cur, resp, ghosts>>

\* The retries are restored before a change is checked against the policy, and
\* before a token is refused because the PIN must be changed first.
PolicyAllows == /\ PinLen[cur.new] >= ef_minpin.len
                /\ ef_minpin.force => cur.new # ef_pin.pin

Restore ==
  /\ pc = "restore"
  /\ ef_pin' = [ef_pin EXCEPT !.retries = MAX_PIN_RETRIES]
  /\ new_pin_mismatches' = 0
  /\ wrong' = 0 /\ budget' = MAX_PIN_RETRIES
  /\ \/ /\ cur.op = "change" /\ PolicyAllows
        /\ pc' = "newpin" /\ UNCHANGED <<cur, resp>>
     \/ /\ cur.op = "token" /\ ~ef_minpin.force
        /\ pc' = "token" /\ UNCHANGED <<cur, resp>>
     \/ /\ IF cur.op = "change" THEN ~PolicyAllows /\ resp' = "none"
                                ELSE ef_minpin.force /\ resp' = "PIN_INVALID"
        /\ pc' = "idle" /\ cur' = NoCommand
  /\ UNCHANGED <<ef_minpin, tokenVars, chipVars, hkey_init, early, held, grant>>

\* changePIN writes the PIN, then clears forceChangePin, then draws a token.
WriteNewPin ==
  /\ pc = "newpin"
  /\ ef_pin' = [pin |-> cur.new, retries |-> MAX_PIN_RETRIES]
  /\ pc' = "unforce"
  /\ grant' = NoGrant
  /\ UNCHANGED <<ef_minpin, tokenVars, chipVars, hkey_init, new_pin_mismatches,
                 early, cur, resp, held, wrong, budget>>

ClearForce ==
  /\ pc = "unforce"
  /\ ef_minpin' = [ef_minpin EXCEPT !.force = FALSE]
  /\ pc' = "newtoken"
  /\ UNCHANGED <<ef_pin, tokenVars, chipVars, hkey_init, new_pin_mismatches,
                 early, cur, resp, ghosts>>

\* Fault: the token of the old PIN is kept.
KeepToken ==
  /\ pc = "newtoken"
  /\ pc' = "idle" /\ cur' = NoCommand /\ resp' = "OK"
  /\ UNCHANGED <<ef_pin, ef_minpin, tokenVars, chipVars, hkey_init, new_pin_mismatches,
                 early, ghosts>>

RenewToken ==
  /\ pc = "newtoken"
  /\ resetPinUvAuthToken
  /\ pc' = "idle" /\ cur' = NoCommand /\ resp' = "OK"
  /\ UNCHANGED <<ef_pin, ef_minpin, chipVars, hkey_init, new_pin_mismatches,
                 early, ghosts>>

\* resetPinUvAuthToken, beginUsingPinUvAuthToken, and the permissions asked for.
IssueToken ==
  /\ pc = "token"
  /\ DrawToken
  /\ paut' = [permissions |-> cur.permissions, in_use |-> TRUE,
              user_verified |-> TRUE, rp |-> cur.rp]
  /\ held' = held \cup {ef_authtoken'}
  /\ grant' = [token |-> ef_authtoken', permissions |-> cur.permissions, rp |-> cur.rp]
  /\ pc' = "idle" /\ cur' = NoCommand /\ resp' = "OK"
  /\ UNCHANGED <<ef_pin, ef_minpin, chipVars, hkey_init, new_pin_mismatches,
                 early, wrong, budget>>
-----------------------------------------------------------------------------
(* The other commands that change the token or the PIN's files.            *)

\* makeCredential ties the token to its relying party before the button.
MakeCredential(rp) ==
  /\ pc = "idle" /\ Authentic
  /\ "mc" \in paut.permissions /\ paut.rp \in {NoRp, rp} /\ paut.user_verified
  /\ paut' = [paut EXCEPT !.rp = rp]
  /\ pc' = "presence"
  /\ UNCHANGED <<files, auth, drawn, chipVars, hkey_init, new_pin_mismatches, early,
                 cur, resp, ghosts>>

\* getAssertion does not, and may come without a token: either way it goes on to
\* the button.  So does, in its effect, makeCredential when no PIN is set.
GetAssertion ==
  /\ pc = "idle"
  /\ pc' = "presence"
  /\ UNCHANGED <<ef_pin, ef_minpin, tokenVars, chipVars, hkey_init, new_pin_mismatches,
                 early, cur, resp, ghosts>>

\* The button was pressed or the wait for it timed out.
Presence ==
  /\ pc = "presence"
  /\ paut' \in {ClearedPaut, paut}
  /\ pc' = "idle"
  /\ UNCHANGED <<files, auth, drawn, chipVars, hkey_init, new_pin_mismatches, early,
                 cur, resp, ghosts>>

\* newMinPinLength is compared whole, and 0 asks for no change.
Asked(len) == IF len = 0 THEN ef_minpin.len ELSE len

\* Fault: a PIN that became too short is not marked for change.
SetMinPinOnly(len, force) ==
  /\ pc = "idle"
  /\ Authentic /\ "acfg" \in paut.permissions
  /\ Asked(len) >= ef_minpin.len
  /\ force => ef_pin.pin # NoPin
  /\ ef_minpin' = [len |-> Asked(len) % 256, force |-> force]
  /\ UNCHANGED <<ef_pin, tokenVars, chipVars, hkey_init, new_pin_mismatches,
                 early, pc, cur, resp, ghosts>>

\* authenticatorConfig setMinPINLength: the flag is written anew each time, the
\* length as one byte.
SetMinPin(len, force) ==
  /\ pc = "idle"
  /\ Authentic /\ "acfg" \in paut.permissions
  /\ Asked(len) >= ef_minpin.len
  /\ force => ef_pin.pin # NoPin
  /\ ef_minpin' =
       [len |-> Asked(len) % 256,
        force |-> force \/ (ef_pin.pin # NoPin /\ PinLen[ef_pin.pin] < Asked(len))]
  /\ UNCHANGED <<ef_pin, tokenVars, chipVars, hkey_init, new_pin_mismatches,
                 early, pc, cur, resp, ghosts>>

StartReset == /\ pc = "idle" /\ early
              /\ pc' = "reset"
              /\ UNCHANGED <<ef_pin, ef_minpin, tokenVars, chipVars, hkey_init,
                             new_pin_mismatches, early, cur, resp, ghosts>>

\* initialize_flash empties the file list.  paut, its pointer and the mismatches in
\* RAM stay as they are.
Reset == /\ pc = "reset"
         /\ \/ /\ drawn < MaxTokens
               /\ ef_pin' = NoPinFile /\ ef_minpin' = NoMinPinFile
               /\ ef_authtoken' = NoToken
               /\ wiped' = TRUE
               /\ grant' = NoGrant /\ wrong' = 0 /\ budget' = 0
               /\ pc' = "wiped"
            \/ /\ pc' = "idle"
               /\ UNCHANGED <<files, wiped, grant, wrong, budget>>
         /\ UNCHANGED <<auth, drawn, paut, chip, apart, torn, hkey_init,
                        new_pin_mismatches, early, cur, resp, held>>

\* scan_files comes to the token when it has made the device's key and certificate.
ScanFiles == /\ pc = "wiped"
             /\ TokenFile
             /\ pc' = "idle" /\ resp' = "OK"
             /\ UNCHANGED <<ef_pin, ef_minpin, paut, chipVars, hkey_init,
                            new_pin_mismatches, early, cur, ghosts>>
-----------------------------------------------------------------------------
(* The rest of the device.                                                 *)

\* A new command reached core 0, which resets core 1 where it stands.
Abort == /\ ~HostWaits /\ pc # "idle"
         /\ pc' = "idle" /\ cur' = NoCommand
         /\ UNCHANGED <<ef_pin, ef_minpin, tokenVars, chipVars, hkey_init,
                        new_pin_mismatches, early, resp, ghosts>>

\* CTAPHID_INIT, whatever core 1 does: core 0 runs scan_files.
Rescan == /\ TokenFile
          /\ UNCHANGED <<ef_pin, ef_minpin, paut, chipVars, hkey_init,
                         new_pin_mismatches, early, pc, cur, resp, ghosts>>

\* Without its file, the place that paut.data points to is written by another one.
Reuse == /\ ef_authtoken = NoToken
         /\ auth' = NoToken
         /\ UNCHANGED <<files, drawn, paut, chipVars, hkey_init, new_pin_mismatches,
                        early, pc, cur, resp, ghosts>>

TenSeconds == /\ early
              /\ early' = FALSE
              /\ UNCHANGED <<ef_pin, ef_minpin, tokenVars, chipVars, hkey_init,
                             new_pin_mismatches, pc, cur, resp, ghosts>>

Cached == [pin |-> ef_pin, minpin |-> ef_minpin, token |-> ef_authtoken]

\* do_flash, one file at a time: the power may go in between.  An erased file list
\* is taken to be committed before what was written after it.
Commit == /\ chip # Cached
          /\ \/ /\ wiped
                /\ chip' = NoFiles /\ wiped' = FALSE /\ apart' = FALSE
             \/ /\ ~wiped
                /\ \/ /\ chip' \in {[chip EXCEPT !.pin = ef_pin],
                                    [chip EXCEPT !.minpin = ef_minpin]}
                      /\ apart' = (chip'.pin # ef_pin \/ chip'.minpin # ef_minpin)
                   \/ /\ chip' = [chip EXCEPT !.token = ef_authtoken]
                      /\ UNCHANGED apart
                /\ UNCHANGED wiped
          /\ UNCHANGED <<ef_pin, ef_minpin, tokenVars, torn, hkey_init,
                         new_pin_mismatches, early, pc, cur, resp, ghosts>>

\* The power goes and comes back: files as the chip has them, RAM zeroed, and
\* scan_files draws a token if the chip has none.
PowerCut ==
  /\ ef_pin' = chip.pin /\ ef_minpin' = chip.minpin
  /\ IF chip.token = NoToken
     THEN DrawToken
     ELSE ef_authtoken' = chip.token /\ auth' = chip.token /\ UNCHANGED drawn
  /\ wiped' = FALSE
  /\ hkey_init' = FALSE /\ new_pin_mismatches' = 0 /\ paut' = NoPaut
  /\ early' = TRUE
  /\ pc' = "idle" /\ cur' = NoCommand /\ resp' = "none"
  /\ grant' = NoGrant /\ wrong' = 0 /\ budget' = chip.pin.retries
  /\ torn' = (torn \/ apart)
  /\ UNCHANGED <<chip, apart, held>>

\* A device powered on for the first time.
Init == /\ ef_pin = NoPinFile /\ ef_minpin = NoMinPinFile
        /\ ef_authtoken = 1 /\ auth = 1 /\ drawn = 1
        /\ chip = NoFiles /\ wiped = FALSE
        /\ hkey_init = FALSE /\ new_pin_mismatches = 0 /\ paut = NoPaut
        /\ early = TRUE
        /\ pc = "idle" /\ cur = NoCommand /\ resp = "none"
        /\ held = {} /\ grant = NoGrant /\ wrong = 0 /\ budget = 0
        /\ apart = FALSE /\ torn = FALSE

Attempts == ChangePin \cup
            [op : {"token"}, guess : Pins, permissions : Requests, rp : RPs \cup {NoRp}]
            \cup [op : {"token"}, guess : Pins, permissions : {{"mc", "ga"}}, rp : {NoRp}]

Next == \/ Initialize
        \/ \E p \in Pins : SetPin(p)
        \/ \E c \in Attempts : StartAttempt(c)
        \/ RefuseBlocked \/ Mismatch \/ Undecryptable \/ Match \/ Restore
        \/ WriteNewPin \/ ClearForce \/ RenewToken \/ IssueToken
        \/ \E rp \in RPs : MakeCredential(rp)
        \/ GetAssertion \/ Presence
        \/ \E len \in MinLens, force \in BOOLEAN : SetMinPin(len, force)
        \/ StartReset \/ Reset \/ ScanFiles
        \/ Abort \/ Rescan \/ Reuse \/ TenSeconds \/ Commit \/ PowerCut

Spec == Init /\ [][Next]_vars
-----------------------------------------------------------------------------
(* Properties.                                                             *)

\* However attempts fail, are aborted half way or are followed by a correct
\* one, a host never has more wrong PINs compared than the retries there were at
\* power on or at the last correct PIN: the retry is taken before the comparison.
GuessBudget == /\ wrong + ef_pin.retries <= budget
               /\ pc = "compare" => wrong + ef_pin.retries < budget

\* A PIN that is out of retries stays so: only a reset, or a power cut that comes
\* before the last retry reached the chip, gives it any.
PinBlockedIsFinal ==
  [][(ef_pin.pin # NoPin /\ ef_pin.retries = 0 /\ pc = "idle")
       => (ef_pin'.retries = 0 \/ ef_pin' = chip.pin)]_vars

\* A token the host holds authorises something only if it was the last one
\* given for the current PIN since power on, for the relying party it was given
\* for, and only what it was given for, or large blob writes once it was used.
TokenSound ==
  pc = "idle" /\ Authentic /\ paut.permissions # {} =>
    /\ grant.token = auth
    /\ paut.permissions \subseteq grant.permissions \cup {"lbw"}
    /\ grant.rp # NoRp => paut.rp = grant.rp

\* A PIN shorter than the minimum in its file is marked for change, also when the
\* minimum grows after the PIN was set, unless the power once went between the two
\* files of one do_flash.  The minimum in the file is the one that was configured,
\* modulo 256: above 255 the configured one is not enforced.
MinPinEnforced ==
  pc = "idle" /\ ef_pin.pin # NoPin /\ PinLen[ef_pin.pin] < ef_minpin.len
    => ef_minpin.force \/ torn

\* What is tried, whether it was found right, and whether a token of the host's is
\* in use.
Tried == IF pc \in {"compare", "restore"} THEN cur.guess ELSE NoPin
Shown == pc \in {"newpin", "token"}
InUse == paut.in_use /\ Authentic

Guard == INSTANCE PinGuard WITH
  Max <- MAX_PIN_RETRIES, stored <- ef_pin, kept <- chip.pin,
  attempt <- Tried, shown <- Shown, open <- InUse

\* However attempts are cut short by aborts, torn commits and the power, only
\* the right PIN gives retries back, lets the PIN be changed and puts a token of
\* the host's in use; a PIN out of retries stays so but for a reset, or a power cut
\* that comes before the last retry reached the chip.
ImplementsGuard == Guard!Spec

\* PIN_AUTH_BLOCKED answers the third wrong PIN in a row, never one of the first
\* two since the PIN was set (test_010_pin.py).
BlockedAfterThree == resp = "PIN_AUTH_BLOCKED" => wrong >= 3
=============================================================================
