---------------------------- MODULE DurableStore ----------------------------
(***************************************************************************)
(* What EnergyStateStore.save() and load() promise of the state file, seen *)
(* from the code that uses them.  StateFile.tla is the detailed save: its  *)
(* temporary files, the backup and every system call; MeterRuntime.tla     *)
(* uses this module for the writer thread.                                 *)
(*                                                                         *)
(* A rename makes a document visible to the next process at once, but only *)
(* the fsync of the directory makes it survive a power loss: in between,   *)
(* "outcomes" holds both the old and the new document.                     *)
(***************************************************************************)
CONSTANTS
    InitDocument,   \* the document on disk at the start
    Faults          \* the faults that may happen, out of:
                    \* "kill": the process dies at any point
                    \* "power": the machine dies at any point
                    \* "early": OSError before the new document is in place
                    \* "late": OSError after it: opening or syncing the directory

VARIABLES
    visible,    \* the document the next load() returns
    outcomes,   \* the documents a power loss may leave behind
    writer,     \* how far the save() in the writer thread has come
    doc         \* the document it writes; InitDocument while there is none

storeVars == <<visible, outcomes, writer, doc>>
-----------------------------------------------------------------------------
StoreInit ==
    /\ visible = InitDocument
    /\ outcomes = {InitDocument}
    /\ writer = "idle"
    /\ doc = InitDocument

\* asyncio.to_thread(candidate.save)
BeginSave(d) ==
    /\ writer = "idle"
    /\ writer' = "writing"
    /\ doc' = d
    /\ UNCHANGED <<visible, outcomes>>

\* os.replace(temporary_path, self.path)
Rename ==
    /\ writer = "writing"
    /\ writer' = "renamed"
    /\ visible' = doc
    /\ outcomes' = outcomes \cup {doc}
    /\ UNCHANGED doc

\* os.fsync(directory_fd): save() returns
SyncDirectory ==
    /\ writer = "renamed"
    /\ writer' = "saved"
    /\ outcomes' = {visible}
    /\ UNCHANGED <<visible, doc>>

\* OSError, raised as StateError; a late one leaves the new document in place.
SaveFails ==
    /\ \/ writer = "writing" /\ "early" \in Faults
       \/ writer = "renamed" /\ "late" \in Faults
    /\ writer' = "failed"
    /\ UNCHANGED <<visible, outcomes, doc>>

SaveStep == Rename \/ SyncDirectory \/ SaveFails

NoWriter == writer' = "idle" /\ doc' = InitDocument

\* The event loop learns how the save() ended.
Joined(result) ==
    /\ writer = result
    /\ NoWriter
    /\ UNCHANGED <<visible, outcomes>>

\* The page cache survives the process: what is visible stays visible.
StoreKilled ==
    /\ NoWriter
    /\ UNCHANGED <<visible, outcomes>>

StorePowerLoss ==
    /\ visible' \in outcomes
    /\ outcomes' = {visible'}
    /\ NoWriter
=============================================================================
