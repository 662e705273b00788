------------------------------ MODULE StateFiles -----------------------------
(***************************************************************************)
(* Operations that replace several files which belong together: the        *)
(* serving certificate and its key, and the set a backup restores (the     *)
(* auth file holds the key that the secrets of the registry are encrypted  *)
(* with).  No lock and no transaction spans them: uploads overlap, a write *)
(* fails, the process dies between two files.                              *)
(*                                                                         *)
(* A file is the generation of what is in it: a certificate and a key of   *)
(* one generation match, so do an auth file and a registry.  A job is the  *)
(* list of writes it still has to make.  One JSON file at a time is the    *)
(* subject of JsonFile; here such a write is one step.                     *)
(***************************************************************************)
EXTENDS Integers, Sequences, FiniteSets

CONSTANTS Jobs,                  \* requests and command-line calls
          Generations,           \* what may be uploaded or generated
          MaxKills

ASSUME StateFilesAssumption == /\ Generations \subseteq Nat \ {0} /\ 1 \in Generations
                               /\ MaxKills \in Nat

Missing == 0
Torn == -1
Tls == {"cert", "key"}
Temps == {"tmpCert", "tmpKey"}
Members == {"auth", "nodes"} \cup Tls
Files == Members \cup Temps

VARIABLES disk, up, bundle, job, kills,
          doubt                  \* history: files that need not go together
filesVars == <<disk, up, bundle, job, kills, doubt>>

NoJob == [kind |-> "none", todo |-> <<>>, overlapped |-> FALSE]
NoBundle == [f \in Members |-> Missing]
Content == Generations \cup {Missing, Torn}
Put(f, g) == [file |-> f, to |-> f, content |-> g]
Rename(tmp, f) == [file |-> tmp, to |-> f, content |-> Missing]

FilesTypeOK ==
  /\ disk \in [Files -> Content] /\ bundle \in [Members -> Content]
  /\ up \in BOOLEAN /\ kills \in 0 .. MaxKills
  /\ \A j \in Jobs : /\ job[j].kind \in {"none", "upload", "generate", "restore", "backup"}
                     /\ job[j].overlapped \in BOOLEAN
  /\ doubt \subseteq {"tls", "set"}

FilesInit ==
  /\ disk \in {[f \in Files |-> IF f \in there THEN 1 ELSE Missing] : there \in {{}, Members}}
  /\ bundle \in {NoBundle} \cup {[f \in Members |-> g] : g \in Generations \ {1}}
  /\ up = FALSE /\ kills = 0 /\ doubt = {}
  /\ job = [j \in Jobs |-> NoJob]

-----------------------------------------------------------------------------
TlsJobs == {j \in Jobs : job[j].kind \in {"upload", "generate"}}
Launch(j, kind, todo) ==
  LET clash == kind \in {"upload", "generate"} /\ TlsJobs # {}
  IN  job' = [i \in Jobs |->
                IF i = j THEN [kind |-> kind, todo |-> todo, overlapped |-> clash]
                ELSE [job[i] EXCEPT !.overlapped = @ \/ (clash /\ i \in TlsJobs)]]

PairMatches_Unchecked(cert, key) == TRUE
PairMatches(cert, key) == cert = key

\* validate_and_install_cert, for the request and for install-cert
UploadWrites(g, k) == <<Put("tmpCert", g), Put("tmpKey", k),
                        Rename("tmpCert", "cert"), Rename("tmpKey", "key")>>
tls_upload_cert(j) ==
  /\ up /\ job[j].kind = "none"
  /\ \E cert, key \in Generations :
       /\ PairMatches(cert, key)
       /\ Launch(j, "upload", UploadWrites(cert, key))
       /\ doubt' = IF TlsJobs = {} THEN doubt ELSE doubt \cup {"tls"}
  /\ UNCHANGED <<disk, up, bundle, kills>>

\* generate_self_signed opens each file for writing and writes it in place
GenerateWrites(g) == <<Put("cert", Torn), Put("cert", g), Put("key", Torn), Put("key", g)>>
tls_regenerate(j) ==
  /\ up /\ job[j].kind = "none"
  /\ \E g \in Generations : Launch(j, "generate", GenerateWrites(g))
  /\ doubt' = IF TlsJobs = {} THEN doubt ELSE doubt \cup {"tls"}
  /\ UNCHANGED <<disk, up, bundle, kills>>

\* ensure_tls_cert in main: serve, or generate first, or refuse to start
StartServing ==
  /\ ~up /\ \A j \in Jobs : job[j].kind = "none"
  /\ disk["cert"] # Missing /\ disk["key"] # Missing
  /\ up' = TRUE
  /\ disk' = [disk EXCEPT !["auth"] = IF @ = Missing THEN 1 ELSE @]
  /\ UNCHANGED <<bundle, job, kills, doubt>>
StartGenerating(j) ==
  /\ ~up /\ \A i \in Jobs : job[i].kind = "none"
  /\ disk["cert"] = Missing /\ disk["key"] = Missing
  /\ disk' = [disk EXCEPT !["auth"] = IF @ = Missing THEN 1 ELSE @]
  /\ \E g \in Generations : Launch(j, "generate", GenerateWrites(g))
  /\ UNCHANGED <<up, bundle, kills, doubt>>

\* backup.restore, with the controller stopped
Mine == {f \in Members : bundle[f] # Missing}
Clash == \E f \in Mine : disk[f] # Missing
One(f, S) == IF f \in S THEN <<f>> ELSE <<>>
\* the payload was dumped with its names sorted: certs/ before the JSON files
InOrder(S) == One("cert", S) \o One("key", S) \o One("auth", S) \o One("nodes", S)
cli_restore(j, force) ==
  LET order == InOrder(Mine)
  IN  /\ ~up /\ \A i \in Jobs : job[i].kind = "none"
      /\ Mine # {} /\ (force \/ ~Clash)
      /\ Launch(j, "restore", [i \in DOMAIN order |-> Put(order[i], bundle[order[i]])])
      /\ doubt' = doubt \cup {"set", "tls"}
      /\ UNCHANGED <<disk, up, bundle, kills>>

\* backup_download: auth file and registry under their locks, the rest as it is
BackupReads == <<Put("cert", Missing), Put("key", Missing)>>
backup_download(j) ==
  /\ job[j].kind = "none"
  /\ \A i \in Jobs : job[i].kind \notin {"restore", "backup"}
  /\ bundle = NoBundle                      \* one bundle to a behaviour
  /\ Launch(j, "backup", BackupReads)
  /\ bundle' = [f \in Members |-> IF f \in Tls THEN Missing ELSE disk[f]]
  /\ UNCHANGED <<disk, up, kills, doubt>>

\* the first host registered: its secrets are encrypted with the auth file's key
node_add ==
  /\ up /\ disk["nodes"] = Missing
  /\ disk' = [disk EXCEPT !["nodes"] = disk["auth"]]
  /\ UNCHANGED <<up, bundle, job, kills, doubt>>

-----------------------------------------------------------------------------
Current(j) == Head(job[j].todo)
Advance(j) == [job EXCEPT ![j].todo = Tail(@)]

\* one write, or one replace of a file by its temp file
WriteStep(j) ==
  /\ job[j].kind \in {"upload", "generate", "restore"} /\ job[j].todo # <<>>
  /\ LET w == Current(j)
     IN  IF w.file = w.to THEN disk' = [disk EXCEPT ![w.to] = w.content]
         ELSE /\ disk[w.file] # Missing
              /\ disk' = [disk EXCEPT ![w.to] = disk[w.file], ![w.file] = Missing]
  /\ job' = Advance(j)
  /\ UNCHANGED <<up, bundle, kills, doubt>>

CopyStep(j) ==
  /\ job[j].kind = "backup" /\ job[j].todo # <<>>
  /\ bundle' = [bundle EXCEPT ![Current(j).to] = disk[Current(j).to]]
  /\ job' = Advance(j)
  /\ UNCHANGED <<disk, up, kills, doubt>>

Cleaned(j) == IF job[j].kind = "upload" THEN [f \in Files |-> IF f \in Temps THEN Missing ELSE disk[f]]
            ELSE disk
\* what a job that ran alone to its end has settled
Settled(j) ==
  CASE job[j].kind = "restore" ->
         (IF {"auth", "nodes"} \subseteq Mine /\ bundle["auth"] = bundle["nodes"]
          THEN {"set"} ELSE {})
           \cup (IF Tls \subseteq Mine /\ bundle["cert"] = bundle["key"] THEN {"tls"} ELSE {})
    [] job[j].kind \in {"upload", "generate"} /\ ~job[j].overlapped -> {"tls"}
    [] OTHER -> {}

JobDone(j) ==
  /\ job[j].kind # "none" /\ job[j].todo = <<>>
  /\ disk' = Cleaned(j)
  /\ doubt' = doubt \ Settled(j)
  /\ up' = (up \/ job[j].kind = "generate")
  /\ job' = [job EXCEPT ![j] = NoJob]
  /\ UNCHANGED <<bundle, kills>>

\* a write fails, or a temp file is gone: what was written stays
HalfDone(j) == \/ job[j].kind = "upload" /\ Len(job[j].todo) = 1
               \/ job[j].kind = "generate" /\ Len(job[j].todo) \in 1 .. 3
JobFails(j) ==
  /\ job[j].kind \in {"upload", "generate", "restore"} /\ job[j].todo # <<>>
  /\ disk' = Cleaned(j)
  /\ doubt' = IF HalfDone(j) THEN doubt \cup {"tls"} ELSE doubt
  /\ job' = [job EXCEPT ![j] = NoJob]
  /\ UNCHANGED <<up, bundle, kills>>

KillProcess ==
  /\ kills < MaxKills /\ kills' = kills + 1
  /\ up' = FALSE
  /\ doubt' = IF \E j \in Jobs : HalfDone(j) THEN doubt \cup {"tls"} ELSE doubt
  /\ job' = [j \in Jobs |-> NoJob]
  /\ UNCHANGED <<disk, bundle>>

FilesNext ==
  \/ \E j \in Jobs : \/ tls_upload_cert(j) \/ tls_regenerate(j) \/ StartGenerating(j)
                     \/ backup_download(j) \/ WriteStep(j) \/ CopyStep(j) \/ JobDone(j) \/ JobFails(j)
                     \/ \E force \in BOOLEAN : cli_restore(j, force)
  \/ StartServing \/ node_add \/ KillProcess

FilesSpec == FilesInit /\ [][FilesNext]_filesVars

-----------------------------------------------------------------------------
(* When nobody is writing, the serving certificate and key match, and the  *)
(* registry's secrets are encrypted with the key of the auth file.         *)
(* Excepted is what an upload overlapped by another, a job that failed or  *)
(* was killed between two files, or a half-finished restore has left; one  *)
(* job that runs alone to its end, or the restore run again, repairs it.   *)
Writers == {j \in Jobs : job[j].kind \in {"upload", "generate", "restore"}}
FilesGoTogether ==
  Writers = {} =>
    /\ "tls" \notin doubt => disk["cert"] = disk["key"]
    /\ "set" \notin doubt => disk["nodes"] \in {disk["auth"], Missing}
=============================================================================
