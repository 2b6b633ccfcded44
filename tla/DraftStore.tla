------------------------------ MODULE DraftStore ------------------------------
(***************************************************************************)
(* What app/publish.py promises of one draft: parts are added at its end,  *)
(* each as a whole; what is published is the draft as it stands, and until *)
(* that is over nothing else happens to it; it disappears once, and for    *)
(* good.                                                                   *)
(***************************************************************************)
EXTENDS Naturals, Sequences, Functions

CONSTANT MaxDraftSize

VARIABLES
  state,      (* "new", "there" or "gone"                                   *)
  parts,      (* what it holds                                              *)
  taken       (* what is being published of it, <<>> if nobody is at it     *)

store == <<state, parts, taken>>

Init == state = "new" /\ parts = <<>> /\ taken = <<>>

(* It is created, or a part that it does not have is appended.  (The part  *)
(* is one of those that it has then: so the step can be evaluated.)        *)
Add ==
  /\ state # "gone" /\ taken = <<>>
  /\ state = "there" => Len(parts) < MaxDraftSize
  /\ \E part \in Range(parts') \ Range(parts) : parts' = Append(parts, part)
  /\ state' = "there"
  /\ UNCHANGED taken

Take ==
  /\ state = "there" /\ taken = <<>>
  /\ taken' = parts
  /\ UNCHANGED <<state, parts>>

(* The page is not written: the draft is as it was.                        *)
Refuse ==
  /\ taken # <<>>
  /\ taken' = <<>>
  /\ UNCHANGED <<state, parts>>

(* Published, discarded or expired.                                        *)
Drop ==
  /\ state = "there"
  /\ state' = "gone" /\ parts' = <<>> /\ taken' = <<>>

Next == Add \/ Take \/ Refuse \/ Drop

Spec == Init /\ [][Next]_store
===============================================================================
