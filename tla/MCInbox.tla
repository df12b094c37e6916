------------------------------ MODULE MCInbox ------------------------------
(***************************************************************************)
(* Instance of Inbox and Thread for TLC.  The two reads of the inbox share *)
(* no state, so a behaviour has one of them: the client goes through the   *)
(* conversation list, or through a thread.                                 *)
(***************************************************************************)
EXTENDS Inbox, Thread

VARIABLE reading   \* "list" or "thread"

MCInit ==
  \/ /\ reading = "list" /\ Init
     /\ ThreadInit /\ committed = {} /\ clock = 0
  \/ /\ reading = "thread" /\ ThreadInit
     /\ Init /\ known = {} /\ now = 0 /\ desc

MCNext ==
  \/ reading = "list" /\ Next /\ UNCHANGED <<threadVars, reading>>
  \/ reading = "thread" /\ ThreadNext /\ UNCHANGED <<vars, reading>>

MCSpec == MCInit /\ [][MCNext]_<<vars, threadVars, reading>>

=============================================================================
