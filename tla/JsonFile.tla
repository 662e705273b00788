------------------------------- MODULE JsonFile -------------------------------
(***************************************************************************)
(* A JSON state file on disk: load, mutate and write_json_atomic by the    *)
(* threads of the one worker process, on a disk that fills up and a        *)
(* process that is killed at any point.  controller-auth.json, nodes.json  *)
(* and acks.json are edited under a lock (guarded); checks.json is not.    *)
(*                                                                         *)
(* What fsync has not written may be lost when the process goes down: a    *)
(* file is "empty" or half written ("torn"), "written" in the page cache,  *)
(* or "synced".                                                            *)
(***************************************************************************)
EXTENDS Naturals

CONSTANTS
    Writers,    \* threads that edit the file
    Nobody,     \* the lock is free
    MaxEdits,   \* bound on the edits of one writer
    MaxKills    \* bound on kills of the process

ASSUME JsonFileAssumption ==
    /\ Nobody \notin Writers
    /\ MaxEdits \in Nat /\ MaxKills \in Nat

VARIABLES
    guarded,\* the read-modify-writes of this file run under a lock
    file,   \* the file under its own name: [st, val]
    tmp,    \* the temp file each thread's name stands for: [st, val]
    lock,   \* holder of _CFG_LOCK, _REG_LOCK or _ACK_LOCK
    pc,     \* where each writer is
    mem,    \* the content each writer loaded and changed
    up,     \* the process is running
    kills

fileVars == <<guarded, file, tmp, lock, pc, mem, up, kills>>

Content == [Writers -> 0..MaxEdits]
Zero    == [w \in Writers |-> 0]
NoFile  == [st |-> "none", val |-> Zero]
Steps   == {"idle", "start", "loaded", "opened", "dumped", "synced"}

FileInit ==
    /\ guarded \in BOOLEAN
    /\ file = [st |-> "synced", val |-> Zero]
    /\ tmp = [w \in Writers |-> NoFile]
    /\ lock = Nobody
    /\ pc = [w \in Writers |-> "idle"]
    /\ mem = [w \in Writers |-> Zero]
    /\ up = TRUE
    /\ kills = 0
-----------------------------------------------------------------------------
Goto(w, s) == pc' = [pc EXCEPT ![w] = s]

\* Mutant: nobody waits for the lock.
MayEnter_Always(w) == TRUE

\* `with _REG_LOCK:`, where the caller takes it.
MayEnter(w) == guarded => lock = Nobody

Enter(w) ==
    /\ up /\ pc[w] = "idle"
    /\ MayEnter(w)
    /\ file.val[w] < MaxEdits
    /\ lock' = IF guarded THEN w ELSE lock
    /\ Goto(w, "start")
    /\ UNCHANGED <<file, tmp, mem, up, kills>>

Changed(old, w) == [old EXCEPT ![w] = @ + 1]

\* load_json: a torn file loads as the default.
Loaded == IF file.st = "torn" THEN Zero ELSE file.val

\* load_json and the handler's change.
LoadChange(w) ==
    /\ pc[w] = "start"
    /\ Loaded[w] < MaxEdits
    /\ mem' = [mem EXCEPT ![w] = Changed(Loaded, w)]
    /\ Goto(w, "loaded")
    /\ UNCHANGED <<file, tmp, lock, up, kills>>

\* Mutant: the temp file is named by the process alone.
TmpName_Pid(w) == CHOOSE v \in Writers : TRUE

\* The temp file is named by process and thread.
TmpName(w) == w

\* os.open with O_CREAT | O_TRUNC.
Open(w) ==
    /\ pc[w] = "loaded"
    /\ tmp' = [tmp EXCEPT ![TmpName(w)] = [st |-> "torn", val |-> Zero]]
    /\ Goto(w, "opened")
    /\ UNCHANGED <<file, lock, mem, up, kills>>

\* json.dump and flush.
Dump(w) ==
    /\ pc[w] = "opened"
    /\ tmp' = [tmp EXCEPT ![TmpName(w)] = [st |-> "written", val |-> mem[w]]]
    /\ Goto(w, "dumped")
    /\ UNCHANGED <<file, lock, mem, up, kills>>

\* Mutant: flushed, not synced.
AfterSync_NoFsync == "written"

\* os.fsync.
AfterSync == "synced"

Fsync(w) ==
    /\ pc[w] = "dumped"
    /\ tmp[TmpName(w)].st # "none"
    /\ tmp' = [tmp EXCEPT ![TmpName(w)].st = AfterSync]
    /\ Goto(w, "synced")
    /\ UNCHANGED <<file, lock, mem, up, kills>>

Leave(w) ==
    /\ lock' = IF lock = w THEN Nobody ELSE lock
    /\ mem' = [mem EXCEPT ![w] = Zero]
    /\ Goto(w, "idle")

\* os.replace, and the end of the caller's lock section.
Replace(w) ==
    /\ pc[w] = "synced"
    /\ tmp[TmpName(w)].st # "none"
    /\ file' = tmp[TmpName(w)]
    /\ tmp' = [tmp EXCEPT ![TmpName(w)] = NoFile]
    /\ Leave(w)
    /\ UNCHANGED <<up, kills>>

\* The disk is full, or the temp file has gone: it is unlinked and the error
\* raised through the caller's lock section.
Fail(w) ==
    /\ pc[w] \in {"opened", "dumped", "synced"}
    /\ tmp' = [tmp EXCEPT ![TmpName(w)] = NoFile]
    /\ Leave(w)
    /\ UNCHANGED <<file, up, kills>>

\* What is left of a file after a kill.
Lost(f) == IF f.st = "written" THEN [f EXCEPT !.st = "torn"] ELSE f

Kill ==
    /\ up /\ kills < MaxKills
    /\ kills' = kills + 1
    /\ up' = FALSE
    /\ file' \in {file, Lost(file)}
    /\ tmp' \in {tmp, [w \in Writers |-> Lost(tmp[w])]}
    /\ lock' = Nobody
    /\ pc' = [w \in Writers |-> "idle"]
    /\ mem' = [w \in Writers |-> Zero]

\* sweep_stale_tmp, from main().
Swept == [w \in Writers |-> NoFile]

Start ==
    /\ ~up
    /\ up' = TRUE
    /\ tmp' = Swept
    /\ UNCHANGED <<file, lock, pc, mem, kills>>

Writing(w) == LoadChange(w) \/ Open(w) \/ Dump(w) \/ Fsync(w) \/ Replace(w) \/ Fail(w)

FileNext ==
    /\ (\E w \in Writers : Enter(w) \/ Writing(w)) \/ Kill \/ Start
    /\ UNCHANGED guarded

FileSpec == FileInit /\ [][FileNext]_fileVars
-----------------------------------------------------------------------------
(* Properties *)

\* Every variable has its type.
FileTypeOK ==
    /\ guarded \in BOOLEAN
    /\ file \in [st : {"torn", "written", "synced"}, val : Content]
    /\ tmp \in [Writers -> [st : {"none", "torn", "written", "synced"}, val : Content]]
    /\ lock \in Writers \cup {Nobody}
    /\ pc \in [Writers -> Steps]
    /\ mem \in [Writers -> Content]
    /\ up \in BOOLEAN
    /\ kills \in 0..MaxKills

\* "so a crash/full disk can't truncate a config": whoever writes, and wherever
\* the process dies or the disk fills up, the file holds complete content, safe
\* on the disk.
NeverTorn == file.st = "synced"

\* Temp files are the open writers' own: a killed process leaves none behind once
\* main() has swept, nor does a failed write.
NoStaleTemp ==
    up => \A w \in Writers : tmp[w].st # "none" => pc[w] \in {"opened", "dumped", "synced"}

\* A file edited under its lock implements the store: what load_json reads changes
\* by whole edits only, each made on top of every earlier one.  (An unguarded file
\* is mapped to a store that nobody edits.)
Store == INSTANCE JsonStore WITH content <- IF guarded THEN Loaded ELSE Zero
ImplementsStore == Store!Spec
=============================================================================
