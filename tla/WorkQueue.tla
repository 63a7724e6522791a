------------------------------ MODULE WorkQueue ------------------------------
(***************************************************************************)
(* What the daemon promises about its work queue, without saying who feeds *)
(* it or why it stops: items are taken in the order they were put, one at  *)
(* a time, none twice, and none once the consumer has gone.  An item in    *)
(* progress may be abandoned only by the consumer's own end, and an item   *)
(* that is put after that end stays where it is.  DaemonRunner implements  *)
(* this with asyncio.Queue and the coroutine _worker_loop.                 *)
(***************************************************************************)
EXTENDS Sequences

CONSTANTS Item,     \* what can be put
          NoItem    \* the consumer holds nothing

VARIABLES pending,  \* items put and not yet taken, oldest first
          current,  \* the item being worked on, or NoItem
          open      \* the consumer may still take

qvars == <<pending, current, open>>

QInit == /\ pending = <<>>
         /\ current = NoItem
         /\ open = TRUE

Put(i) == /\ pending' = Append(pending, i)
          /\ UNCHANGED <<current, open>>

Take == /\ open
        /\ current = NoItem
        /\ pending # <<>>
        /\ current' = Head(pending)
        /\ pending' = Tail(pending)
        /\ UNCHANGED open

Finish == /\ open
          /\ current # NoItem
          /\ current' = NoItem
          /\ UNCHANGED <<pending, open>>

Close == /\ open
         /\ open' = FALSE
         /\ current' = NoItem
         /\ UNCHANGED pending

QNext == \/ \E i \in Item : Put(i)
         \/ Take
         \/ Finish
         \/ Close

QSpec == QInit /\ [][QNext]_qvars
==============================================================================
