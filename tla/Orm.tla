--------------------------------- MODULE Orm ---------------------------------
(***************************************************************************)
(* What the SQLAlchemy session does with a row a handler has loaded and    *)
(* modified.  The sessions of db.py run READ COMMITTED and take no row     *)
(* lock on a read, so the row may have changed by the time of the commit;  *)
(* the UPDATE then sets the columns the handler changed, and only those.   *)
(* A row is a record, an UPDATE a function from some of its columns.       *)
(***************************************************************************)

\* No UPDATE.
Nothing == [c \in {} |-> 0]

\* Mutant: every column is written, changed or not.
DirtyAll(old, new) == [c \in DOMAIN old |-> new[c]]

\* The UPDATE of a row that was loaded as old and is new when flushed.
Dirty(old, new) == [c \in {d \in DOMAIN old : new[d] # old[d]} |-> new[c]]

\* Row r after the UPDATE w.
Flush(r, w) == [c \in DOMAIN r |-> IF c \in DOMAIN w THEN w[c] ELSE r[c]]

=============================================================================
