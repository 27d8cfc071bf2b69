------------------------------ MODULE MCChatPath ------------------------------
(***************************************************************************)
(* The chat for TLC: what earlier visits may have left in the browser.     *)
(***************************************************************************)
EXTENDS ChatPath

Visit(works, session, name) == [keeps |-> works, cookie |-> session, stored |-> name]

(* A known user whose session has ended, one who is signed in, a session of  *)
(* another user than the stored one (two tabs have signed in), and a browser *)
(* that keeps nothing.                                                       *)
EarlierVisits ==
  {Visit(TRUE, NoUser, "alice"), Visit(TRUE, "alice", "alice"), Visit(TRUE, "bob", "alice"),
   Visit(FALSE, "alice", NoUser)}
=============================================================================
