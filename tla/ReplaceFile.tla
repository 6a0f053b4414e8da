------------------------------ MODULE ReplaceFile ------------------------------
(***************************************************************************)
(* What the uploads to one remote name promise together: the name shows a  *)
(* whole file or none, what an upload moves out of its way it keeps until  *)
(* its own file is in place, and it is successful only after that.         *)
(* SftpTransfers implements this.                                          *)
(***************************************************************************)

EXTENDS TLAPS

CONSTANTS
    Uploads,
    Original,   \* the file that was there first
    Missing     \* no file

VARIABLES
    target,     \* the file under the name
    kept,       \* what each upload has moved out of its way
    placed,     \* the uploads whose file has been under the name
    result      \* "none", "completed", or why an upload came to nothing

vars == <<target, kept, placed, result>>
files == <<target, kept, placed>>

Files == {Original} \cup Uploads
Results == {"none", "completed", "cancelled", "failed"}

TypeOK ==
    /\ target \in Files \cup {Missing}
    /\ kept \in [Uploads -> Files \cup {Missing}]
    /\ placed \in SUBSET Uploads
    /\ result \in [Uploads -> Results]

Init ==
    /\ target = Original
    /\ kept = [u \in Uploads |-> Missing]
    /\ placed = {}
    /\ result = [u \in Uploads |-> "none"]

\* u moves away what is there.
Withdraw(u) ==
    /\ target # Missing /\ kept[u] = Missing /\ u \notin placed
    /\ kept' = [kept EXCEPT ![u] = target]
    /\ target' = Missing
    /\ UNCHANGED placed

\* Its own file takes the name, which must be free.
Place(u) ==
    /\ target = Missing /\ u \notin placed
    /\ target' = u
    /\ placed' = placed \cup {u}
    /\ UNCHANGED kept

\* u puts back what it moved away.
Restore(u) ==
    /\ target = Missing /\ kept[u] # Missing
    /\ target' = kept[u]
    /\ kept' = [kept EXCEPT ![u] = Missing]
    /\ UNCHANGED placed

\* Its file has been in place: what it kept may go.
Discard(u) ==
    /\ u \in placed
    /\ kept' = [kept EXCEPT ![u] = Missing]
    /\ UNCHANGED <<target, placed>>

\* Any step may be the last of its upload.
Report(u) ==
    \/ UNCHANGED result
    \/ \E r \in Results \ {"none"} :
           /\ r = "completed" => u \in placed'
           /\ result' = [result EXCEPT ![u] = r]

Next ==
    \E u \in Uploads :
        /\ result[u] = "none"
        /\ Withdraw(u) \/ Place(u) \/ Restore(u) \/ Discard(u) \/ UNCHANGED files
        /\ Report(u)

Spec == Init /\ [][Next]_vars

-----------------------------------------------------------------------------

\* There is always a whole file: under the name, or kept by an upload whose own file has not
\* been in place yet (run_sftp_upload, whatever fails).
SomeFileKept ==
    target # Missing \/ \E u \in Uploads : kept[u] # Missing /\ u \notin placed

-----------------------------------------------------------------------------
(* Proofs, for any uploads.                                                *)

\* What the theorem assumes of the names of files.
NamesDiffer == Original # Missing /\ Missing \notin Uploads

\* Every step keeps the types.
LEMMA TypeStep ==
  ASSUME TypeOK, [Next]_vars
  PROVE  TypeOK'
<1>1. ASSUME NEW u \in Uploads,
             Withdraw(u) \/ Place(u) \/ Restore(u) \/ Discard(u) \/ UNCHANGED files,
             Report(u)
      PROVE  TypeOK'
  <2>1. /\ target' \in Files \cup {Missing}
        /\ kept' \in [Uploads -> Files \cup {Missing}]
        /\ placed' \in SUBSET Uploads
    BY <1>1 DEF TypeOK, Withdraw, Place, Restore, Discard, files, Files
  <2>2. result' \in [Uploads -> Results]
    BY <1>1 DEF TypeOK, Report
  <2> QED BY <2>1, <2>2 DEF TypeOK
<1>2. CASE UNCHANGED vars
  BY <1>2 DEF TypeOK, vars
<1> QED BY <1>1, <1>2 DEF Next

\* Every step keeps a whole file.
LEMMA KeptStep ==
  ASSUME NamesDiffer, TypeOK, SomeFileKept, [Next]_vars
  PROVE  SomeFileKept'
<1>1. CASE UNCHANGED files \/ UNCHANGED vars
  BY <1>1 DEF SomeFileKept, files, vars
<1>2. ASSUME NEW u \in Uploads, Withdraw(u)
      PROVE  SomeFileKept'
  BY <1>2 DEF SomeFileKept, Withdraw, TypeOK
<1>3. ASSUME NEW u \in Uploads, Place(u)
      PROVE  SomeFileKept'
  BY <1>3 DEF SomeFileKept, Place, NamesDiffer
<1>4. ASSUME NEW u \in Uploads, Restore(u)
      PROVE  SomeFileKept'
  BY <1>4 DEF SomeFileKept, Restore
<1>5. ASSUME NEW u \in Uploads, Discard(u)
      PROVE  SomeFileKept'
  BY <1>5 DEF SomeFileKept, Discard, TypeOK
<1> QED BY <1>1, <1>2, <1>3, <1>4, <1>5 DEF Next

-----------------------------------------------------------------------------
\* Whatever the uploads do, and whatever becomes of them, one whole file is under the name or
\* kept for it.
THEOREM FileKept ==
  ASSUME NamesDiffer
  PROVE  Spec => []SomeFileKept
<1>1. Init => TypeOK /\ SomeFileKept
  BY DEF NamesDiffer, Init, TypeOK, SomeFileKept, Files, Results
<1>2. (TypeOK /\ SomeFileKept) /\ [Next]_vars => (TypeOK /\ SomeFileKept)'
  BY TypeStep, KeptStep
<1> QED BY <1>1, <1>2, PTL DEF Spec
=============================================================================
