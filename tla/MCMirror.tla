------------------------------ MODULE MCMirror ------------------------------
(***************************************************************************)
(* What the program keeps of the content it downloads: the rows of its     *)
(* database, through the identity map, and the objects of a Stash server.  *)
(* A Stash pass reads rows that a walk has stored, and the walk waits for  *)
(* it; EntityStore has the saves that a pass makes (AssignPerformer,       *)
(* Serve), so one run checks them side by side: `part` says which moves.   *)
(***************************************************************************)
EXTENDS MCStore, MCStash

CONSTANT Parts
VARIABLE part

allVars == <<part, storeVars, stashVars>>

MirrorInit == part \in Parts /\ StoreInit /\ StashInit
MirrorNext == /\ \/ part = "store" /\ StoreNext /\ UNCHANGED stashVars
                 \/ part = "stash" /\ StashNext /\ UNCHANGED storeVars
              /\ UNCHANGED part
MirrorSpec == MirrorInit /\ [][MirrorNext]_allVars

\* Both parts are well typed (metadata/entity_store.py, stash/processing/).
MirrorTypeOK == StoreTypeOK /\ StashTypeOK
=============================================================================
