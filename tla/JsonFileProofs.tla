---------------------------- MODULE JsonFileProofs ----------------------------
(***************************************************************************)
(* Theorems about JsonFile, for any number of writers, edits and kills:    *)
(* the file is never torn, guarded or not, and a guarded one implements    *)
(* the store.                                                              *)
(***************************************************************************)
EXTENDS JsonFile, TLAPS

\* The file and the temp files are what their writers' steps say they are.
FInv ==
    /\ FileTypeOK
    /\ file.st = "synced"
    /\ \A w \in Writers : pc[w] \in {"dumped", "synced"} => tmp[w].val = mem[w]
    /\ \A w \in Writers : pc[w] = "synced" => tmp[w].st = "synced"
    /\ ~up => \A w \in Writers : pc[w] = "idle"

\* Under the lock one writer at a time is at work, and what it has in memory is
\* the file with its own edit added.
GInv ==
    /\ FInv
    /\ guarded => \A w \in Writers :
         /\ pc[w] # "idle" => lock = w
         /\ pc[w] \in {"loaded", "opened", "dumped", "synced"} =>
              mem[w] = [file.val EXCEPT ![w] = @ + 1] /\ file.val[w] < MaxEdits

\* The empty content is content.
LEMMA ZeroType == Zero \in Content /\ NoFile.st = "none" /\ NoFile.val = Zero
  BY JsonFileAssumption DEF Zero, Content, NoFile

\* The first states satisfy both invariants.
LEMMA FInvInit == FileInit => FInv /\ GInv
  BY JsonFileAssumption, ZeroType DEF FileInit, FInv, GInv, FileTypeOK, NoFile, Steps

\* Every step keeps the file and its temp files in order.
LEMMA FInvStep == FInv /\ [FileNext]_fileVars => FInv'
<1> SUFFICES ASSUME FInv, [FileNext]_fileVars PROVE FInv'
  OBVIOUS
<1>0. FileTypeOK /\ guarded' = guarded
  BY DEF FInv, FileNext, fileVars
<1> USE ZeroType
<1>1. ASSUME NEW w \in Writers, Enter(w) PROVE FInv'
  BY <1>0, <1>1 DEF Enter, Goto, FInv, FileTypeOK, Steps
<1>2. ASSUME NEW w \in Writers, LoadChange(w) PROVE FInv'
  <2>1. Loaded \in Content /\ Loaded[w] < MaxEdits
    BY <1>0, <1>2 DEF LoadChange, Loaded, FileTypeOK
  <2>2. Changed(Loaded, w) \in Content
    BY <2>1, JsonFileAssumption DEF Changed, Content
  <2> QED
    BY <1>0, <1>2, <2>2 DEF LoadChange, Goto, FInv, FileTypeOK, Steps
<1>3. ASSUME NEW w \in Writers, Open(w) PROVE FInv'
  BY <1>0, <1>3 DEF Open, TmpName, Goto, FInv, FileTypeOK, Steps
<1>4. ASSUME NEW w \in Writers, Dump(w) PROVE FInv'
  BY <1>0, <1>4 DEF Dump, TmpName, Goto, FInv, FileTypeOK, Steps
<1>5. ASSUME NEW w \in Writers, Fsync(w) PROVE FInv'
  BY <1>0, <1>5 DEF Fsync, AfterSync, TmpName, Goto, FInv, FileTypeOK, Steps
<1>6. ASSUME NEW w \in Writers, Replace(w) PROVE FInv'
  BY <1>0, <1>6 DEF Replace, Leave, TmpName, Goto, FInv, FileTypeOK, Steps, NoFile
<1>7. ASSUME NEW w \in Writers, Fail(w) PROVE FInv'
  BY <1>0, <1>7 DEF Fail, Leave, TmpName, Goto, FInv, FileTypeOK, Steps, NoFile
<1>8. CASE Kill
  <2>1. file' = file
    BY <1>8 DEF Kill, Lost, FInv
  <2>2. tmp' \in [Writers -> [st : {"none", "torn", "written", "synced"}, val : Content]]
    BY <1>0, <1>8, SMTT(30) DEF Kill, Lost, FileTypeOK
  <2>3. kills' \in 0..MaxKills
    BY <1>0, <1>8, JsonFileAssumption DEF Kill, FileTypeOK
  <2> QED
    BY <1>0, <1>8, <2>1, <2>2, <2>3 DEF Kill, FInv, FileTypeOK, Steps
<1>9. CASE Start
  BY <1>0, <1>9 DEF Start, Swept, FInv, FileTypeOK, NoFile
<1>10. CASE UNCHANGED fileVars
  BY <1>0, <1>10 DEF fileVars, FInv, FileTypeOK
<1> QED
  BY <1>1, <1>2, <1>3, <1>4, <1>5, <1>6, <1>7, <1>8, <1>9, <1>10 DEF FileNext, Writing

\* Every reachable state satisfies FInv.
LEMMA FInvAlways == FileSpec => []FInv
  BY FInvInit, FInvStep, PTL DEF FileSpec

\* The file, the temp files and the writers keep their types.
THEOREM JsonFileType == FileSpec => []FileTypeOK
<1>1. FInv => FileTypeOK
  BY DEF FInv
<1> QED
  BY <1>1, FInvAlways, PTL

\* write_json_atomic never exposes a truncated or half-written file, whichever
\* threads write, wherever they fail or the process is killed.
THEOREM FileNeverTorn == FileSpec => []NeverTorn
<1>1. FInv => NeverTorn
  BY DEF FInv, NeverTorn
<1> QED
  BY <1>1, FInvAlways, PTL

\* No temp file is left behind by a failed write, nor by a killed process once the
\* next one has started.
THEOREM NoTempLeftBehind == FileSpec => []NoStaleTemp
<1>1. FileInit => NoStaleTemp
  BY DEF FileInit, NoStaleTemp, NoFile
<1>2. FInv /\ NoStaleTemp /\ [FileNext]_fileVars => NoStaleTemp'
  <2> SUFFICES ASSUME FInv, NoStaleTemp, [FileNext]_fileVars PROVE NoStaleTemp'
    OBVIOUS
  <2>0. FileTypeOK
    BY DEF FInv
  <2>1. ASSUME NEW w \in Writers, Enter(w) \/ LoadChange(w) \/ Open(w) \/ Dump(w) \/ Fsync(w)
        PROVE  NoStaleTemp'
    BY <2>0, <2>1 DEF Enter, LoadChange, Open, Dump, Fsync, AfterSync, TmpName, Goto,
                      NoStaleTemp, FileTypeOK
  <2>2. ASSUME NEW w \in Writers, Replace(w) \/ Fail(w) PROVE NoStaleTemp'
    <3>1. /\ tmp' = [tmp EXCEPT ![w] = NoFile] /\ pc' = [pc EXCEPT ![w] = "idle"]
          /\ UNCHANGED up
      BY <2>2 DEF Replace, Fail, Leave, TmpName, Goto
    <3>2. tmp'[w] = NoFile /\ \A v \in Writers : v # w => tmp'[v] = tmp[v] /\ pc'[v] = pc[v]
      BY <2>0, <3>1 DEF FileTypeOK
    <3> QED
      BY <3>1, <3>2, ZeroType DEF NoStaleTemp
  <2>3. CASE Kill
    BY <2>3 DEF Kill, NoStaleTemp
  <2>4. CASE Start
    BY <2>4 DEF Start, Swept, NoFile, NoStaleTemp
  <2>5. CASE UNCHANGED fileVars
    BY <2>5 DEF fileVars, NoStaleTemp
  <2> QED
    BY <2>1, <2>2, <2>3, <2>4, <2>5 DEF FileNext, Writing
<1> QED
  BY <1>1, <1>2, FInvAlways, PTL DEF FileSpec

\* Under the lock every step preserves GInv.
LEMMA GInvStep == GInv /\ [FileNext]_fileVars => GInv'
<1> SUFFICES ASSUME GInv, [FileNext]_fileVars PROVE GInv'
  OBVIOUS
<1>0. FInv /\ FileTypeOK /\ FInv' /\ guarded' = guarded
  BY FInvStep DEF GInv, FInv, FileNext, fileVars
<1>1. ASSUME NEW w \in Writers, Enter(w) PROVE GInv'
  BY <1>0, <1>1, JsonFileAssumption DEF Enter, MayEnter, Goto, GInv, FileTypeOK
<1>2. ASSUME NEW w \in Writers, LoadChange(w) PROVE GInv'
  BY <1>0, <1>2 DEF LoadChange, Changed, Loaded, Goto, GInv, FInv, FileTypeOK
<1>3. ASSUME NEW w \in Writers, Open(w) \/ Dump(w) \/ Fsync(w) PROVE GInv'
  BY <1>0, <1>3 DEF Open, Dump, Fsync, Goto, GInv, FileTypeOK
<1>4. ASSUME NEW w \in Writers, Replace(w) \/ Fail(w) PROVE GInv'
  <2>1. guarded => \A v \in Writers : pc'[v] = "idle"
    BY <1>0, <1>4, JsonFileAssumption DEF Replace, Fail, Leave, Goto, GInv, FileTypeOK
  <2> QED
    BY <1>0, <2>1 DEF GInv
<1>5. CASE Kill
  BY <1>0, <1>5 DEF Kill, GInv
<1>6. CASE Start
  BY <1>0, <1>6 DEF Start, GInv
<1>7. CASE UNCHANGED fileVars
  BY <1>0, <1>7 DEF fileVars, GInv
<1> QED
  BY <1>1, <1>2, <1>3, <1>4, <1>5, <1>6, <1>7 DEF FileNext, Writing

\* The step simulation: a step of a guarded file is an edit of the store, when it
\* is an os.replace, or leaves the store alone.
LEMMA StoreStep ==
    ASSUME GInv, [FileNext]_fileVars
    PROVE  [Store!Next]_(IF guarded THEN Loaded ELSE Zero)
<1> DEFINE content == IF guarded THEN Loaded ELSE Zero
<1>1. Loaded = file.val /\ file.st = "synced" /\ guarded' = guarded
  BY DEF GInv, FInv, Loaded, FileNext, fileVars
<1>2. FInv'
  BY FInvStep DEF GInv
<1>3. Loaded' = file'.val
  BY <1>2 DEF FInv, Loaded
<1>4. ASSUME guarded, NEW w \in Writers, Replace(w) PROVE Store!Edit(w)
  <2>1. file'.val = [file.val EXCEPT ![w] = @ + 1] /\ file.val[w] < MaxEdits
    BY <1>4 DEF Replace, TmpName, GInv, FInv
  <2> QED
    BY <1>1, <1>3, <1>4, <2>1 DEF Store!Edit
<1>5. CASE file' = file \/ ~guarded
  BY <1>1, <1>3, <1>5
<1>6. file' = file \/ \E w \in Writers : Replace(w)
  BY <1>1 DEF FileNext, Writing, Enter, LoadChange, Open, Dump, Fsync, Fail, Kill, Start, Lost, fileVars
<1> QED
  BY <1>4, <1>5, <1>6 DEF Store!Next

\* A state file edited under its lock (controller-auth.json, nodes.json,
\* acks.json) implements the store: no edit is lost, none is seen in part, through
\* failures and kills.
THEOREM GuardedFileImplementsStore == FileSpec => ImplementsStore
<1>1. FileInit => Store!Init
  BY DEF FileInit, Store!Init, Loaded, Zero
<1>2. GInv /\ [FileNext]_fileVars => GInv'
  BY GInvStep
<1>3. GInv /\ [FileNext]_fileVars => [Store!Next]_(IF guarded THEN Loaded ELSE Zero)
  BY StoreStep
<1> QED
  BY <1>1, <1>2, <1>3, FInvInit, PTL DEF FileSpec, ImplementsStore, Store!Spec
=============================================================================
