------------------------------- MODULE FileMap -------------------------------
(***************************************************************************)
(* What the file system of flash.c and file.c promises: every file holds   *)
(* one content or is missing, and an operation touches no file but its     *)
(* own.  A content that is not longer than the old one replaces it at      *)
(* once.  Any other write first loses the old content; when there is no    *)
(* room for the new one, the file stays lost.                              *)
(***************************************************************************)
EXTENDS Naturals, Sequences

CONSTANTS Fids,      \* file identifiers
          Contents,  \* what a file may hold: sequences of bytes
          Missing    \* a file that is not there

VARIABLES files,     \* what each file holds
          moving     \* the file that is out of the map, and what it is to hold

vars == <<files, moving>>

Nothing == <<>>      \* no file is moving
Init == /\ files = [f \in Fids |-> Missing]
        /\ moving = Nothing

Replace(f, c) == /\ moving = Nothing
                 /\ files[f] # Missing
                 /\ Len(c) <= Len(files[f])
                 /\ files' = [files EXCEPT ![f] = c]
                 /\ UNCHANGED moving

TakeOut(f, want) == /\ moving = Nothing
                    /\ files' = [files EXCEPT ![f] = Missing]
                    /\ moving' = <<f, want>>

\* There was room for it, or nothing was to be put back.
PutBack == /\ moving # Nothing
           /\ files' = [files EXCEPT ![moving[1]] = moving[2]]
           /\ moving' = Nothing

NoRoom == /\ moving # Nothing
          /\ UNCHANGED files
          /\ moving' = Nothing

Format == /\ moving = Nothing
          /\ files' = [f \in Fids |-> Missing]
          /\ UNCHANGED moving

Next == \/ \E f \in Fids, c \in Contents : Replace(f, c)
        \/ \E f \in Fids, want \in Contents \cup {Missing} : TakeOut(f, want)
        \/ PutBack \/ NoRoom \/ Format

Spec == Init /\ [][Next]_vars
=============================================================================
