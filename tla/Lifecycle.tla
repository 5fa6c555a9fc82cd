------------------------------ MODULE Lifecycle ------------------------------
(***************************************************************************)
(* Start, first setup, backup and restore: Open and Backup of              *)
(* internal/vault/store.go, setup of auth.go, run of                       *)
(* cmd/civault-server/main.go.  The server and the backup command are two  *)
(* processes on one data directory: a database and a file setup-token.     *)
(* Each statement commits by itself, so a process may die, or the other    *)
(* one come, between any two.                                              *)
(***************************************************************************)
EXTENDS Naturals

CONSTANTS
  Processes,   \* "server", and "backup" where a run has one
  Requests,    \* bound: setups under way at once
  Masters,     \* master keys the operator may start with
  NoMaster     \* no row master_check

ASSUME LifeAssumption ==
  "server" \in Processes /\ Processes \subseteq {"server", "backup"} /\ NoMaster \notin Masters

VARIABLES
  db,       \* schema version, master_check, whether table owner has its row
  file,     \* setup-token
  procs,    \* where each process is, and its master key
  setups,   \* where each request to set up is
  copy,     \* the last backup
  owners,   \* history: setups that succeeded on this database
  cause     \* history: why setup-token may be there beside an owner

lifeVars == <<db, file, procs, setups, copy, owners, cause>>

Supported == 2
Down      == [at |-> "down", master |-> NoMaster]
NoCopy    == [schema |-> 0, master |-> NoMaster, owner |-> FALSE]
Database  == [schema : 0 .. 3, master : Masters \cup {NoMaster}, owner : BOOLEAN]

LifeTypeOK ==
  /\ db \in Database /\ copy \in Database
  /\ file \in {"absent", "cut", "whole"}
  /\ procs \in [Processes -> [at : {"down", "version", "migrate", "master", "insert", "owner",
                                    "stat", "create", "fill", "remove", "running"},
                              master : Masters \cup {NoMaster}]]
  /\ setups \in [Requests -> {"idle", "checked", "stored"}]
  /\ owners \in Nat /\ cause \in {"none", "error", "backup"}
  /\ \A p \in Processes :
       procs[p].at \notin {"down", "version", "migrate"} => db.schema = Supported
  /\ procs["server"].at # "running" => \A r \in Requests : setups[r] = "idle"

\* A new directory, or what an older or a newer server left in it.
LifeInit ==
  /\ db \in {NoCopy} \cup [schema : 1 .. 3, master : Masters, owner : BOOLEAN]
  /\ file \in {"absent", "cut", "whole"} /\ (db.schema = 0 => file = "absent")
  /\ procs = [p \in Processes |-> Down]
  /\ setups = [r \in Requests |-> "idle"]
  /\ copy = NoCopy
  /\ owners = IF db.owner THEN 1 ELSE 0
  /\ cause = "none"

---------------------------------------------------------------------------
At(p, a)   == procs[p].at = a
Goes(p, a) == procs' = [procs EXCEPT ![p].at = a]
Exits(p)   == procs' = [procs EXCEPT ![p] = Down]

Start(p, m) ==
  /\ At(p, "down")
  /\ procs' = [procs EXCEPT ![p] = [at |-> "version", master |-> m]]
  /\ UNCHANGED <<db, file, setups, copy, owners, cause>>

CheckVersion(p) ==
  /\ At(p, "version")
  /\ IF db.schema > Supported THEN Exits(p) ELSE Goes(p, "migrate")
  /\ UNCHANGED <<db, file, setups, copy, owners, cause>>

\* Mutant: one version a start.
MigrateOneStep(p) ==
  /\ At(p, "migrate")
  /\ db' = [db EXCEPT !.schema = IF @ < Supported THEN @ + 1 ELSE @]
  /\ Goes(p, "master")
  /\ UNCHANGED <<file, setups, copy, owners, cause>>

\* One transaction from whatever version is there.
Migrate(p) ==
  /\ At(p, "migrate")
  /\ db' = [db EXCEPT !.schema = IF @ < Supported THEN Supported ELSE @]
  /\ IF db'.schema = Supported THEN Goes(p, "master") ELSE Exits(p)
  /\ UNCHANGED <<file, setups, copy, owners, cause>>

ReadMaster(p) ==
  /\ At(p, "master")
  /\ IF db.master = NoMaster THEN Goes(p, "insert")
     ELSE IF db.master = procs[p].master THEN Goes(p, "owner") ELSE Exits(p)
  /\ UNCHANGED <<db, file, setups, copy, owners, cause>>

\* Mutant: INSERT OR IGNORE, a row that has come meanwhile is no error.
InsertMasterIgnores(p) ==
  /\ At(p, "insert")
  /\ db' = [db EXCEPT !.master = IF @ = NoMaster THEN procs[p].master ELSE @]
  /\ Goes(p, "owner")
  /\ UNCHANGED <<file, setups, copy, owners, cause>>

\* name is the primary key: the second of two inserts fails.
InsertMaster(p) ==
  /\ At(p, "insert")
  /\ IF db.master = NoMaster
     THEN db' = [db EXCEPT !.master = procs[p].master] /\ Goes(p, "owner")
     ELSE UNCHANGED db /\ Exits(p)
  /\ UNCHANGED <<file, setups, copy, owners, cause>>

\* initialized counts the owners, and answers that there is none also when that
\* fails.
ReadOwner(p) ==
  /\ At(p, "owner")
  /\ \/ db.owner /\ Goes(p, "remove") /\ UNCHANGED cause
     \/ Goes(p, "stat") /\ cause' = IF db.owner /\ p = "server" THEN "error" ELSE cause
  /\ UNCHANGED <<db, file, setups, copy, owners>>

\* os.Remove may fail, and nobody looks.
FileRemoved ==
  file' \in {"absent", file} /\ cause' = IF file' = "absent" THEN "none" ELSE "error"

RemoveFile(p) ==
  /\ At(p, "remove")
  /\ FileRemoved
  /\ Goes(p, "running")
  /\ UNCHANGED <<db, setups, copy, owners>>

\* A file that exists stays, whatever is in it.
StatFile(p) ==
  /\ At(p, "stat")
  /\ Goes(p, IF file = "absent" THEN "create" ELSE "running")
  /\ UNCHANGED <<db, file, setups, copy, owners, cause>>

\* os.WriteFile creates or truncates, then writes.
CreateFile(p) ==
  /\ At(p, "create")
  /\ file' = "cut"
  /\ cause' = IF ~db.owner THEN cause ELSE IF p = "backup" THEN "backup" ELSE "error"
  /\ Goes(p, "fill")
  /\ UNCHANGED <<db, setups, copy, owners>>

FillFile(p) ==
  /\ At(p, "fill")
  /\ file' = IF file = "cut" THEN "whole" ELSE file   \* removed meanwhile: nobody sees it
  /\ Goes(p, "running")
  /\ UNCHANGED <<db, setups, copy, owners, cause>>

---------------------------------------------------------------------------
Request(r, from, to) ==
  At("server", "running") /\ setups[r] = from /\ setups' = [setups EXCEPT ![r] = to]

\* setup before its transaction: the code is the file's (an empty code, where the
\* write was cut).  initialized is asked before, but does not know of an owner when
\* its query fails; the transaction asks again.
SetupCheck(r) ==
  /\ Request(r, "idle", "checked")
  /\ file # "absent"
  /\ UNCHANGED <<db, file, procs, copy, owners, cause>>

\* Mutant: the transaction replaces the row.
SetupCommitAgain(r) ==
  /\ Request(r, "checked", "stored")
  /\ db' = [db EXCEPT !.owner = TRUE] /\ owners' = owners + 1
  /\ UNCHANGED <<file, procs, copy, cause>>

SetupCommit(r) ==
  /\ Request(r, "checked", "stored")
  /\ ~db.owner
  /\ db' = [db EXCEPT !.owner = TRUE] /\ owners' = owners + 1
  /\ UNCHANGED <<file, procs, copy, cause>>

SetupRemove(r) ==
  /\ Request(r, "stored", "idle")
  /\ FileRemoved
  /\ UNCHANGED <<db, procs, copy, owners>>

\* Refused at the transaction, or a form or a database that fails.
SetupEnd(r) ==
  /\ Request(r, "checked", "idle")
  /\ UNCHANGED <<db, file, procs, copy, owners, cause>>

\* The backup command takes its snapshot and exits, or fails and exits.
Backup ==
  /\ "backup" \in Processes /\ At("backup", "running")
  /\ copy' \in {db, copy}
  /\ Exits("backup")
  /\ UNCHANGED <<db, file, setups, owners, cause>>

\* The operator, outside: a copy in a new directory while nothing runs.
Restore ==
  /\ \A p \in Processes : At(p, "down")
  /\ copy # NoCopy
  /\ db' = copy /\ file' = "absent" /\ cause' = "none"
  /\ owners' = IF copy.owner THEN 1 ELSE 0
  /\ UNCHANGED <<procs, setups, copy>>

\* A process is stopped or killed, or ends with an error that Open returns: a
\* statement, a stat or a write that failed.  main closes the database without
\* waiting for requests, so a stop ends them as a kill does.
Crash(p) ==
  /\ ~At(p, "down") /\ Exits(p)
  /\ setups' = IF p = "server" THEN [r \in Requests |-> "idle"] ELSE setups
  /\ UNCHANGED <<db, file, copy, owners, cause>>

Open(p) ==
  \/ CheckVersion(p) \/ Migrate(p) \/ ReadMaster(p) \/ InsertMaster(p)
  \/ ReadOwner(p) \/ RemoveFile(p) \/ StatFile(p) \/ CreateFile(p) \/ FillFile(p)

LifeNext ==
  \/ \E p \in Processes : Open(p) \/ Crash(p) \/ \E m \in Masters : Start(p, m)
  \/ \E r \in Requests : SetupCheck(r) \/ SetupCommit(r) \/ SetupRemove(r) \/ SetupEnd(r)
  \/ Backup \/ Restore

LifeSpec == LifeInit /\ [][LifeNext]_lifeVars

---------------------------------------------------------------------------
(***************************************************************************)
(* Properties.                                                             *)
(***************************************************************************)
ServerUp == At("server", "running")

\* "A database must be used with its original master key" (README.md): whoever
\* runs has the key this database is sealed with and the schema it was written
\* for, though both processes start on an empty directory at once.
OpenSound ==
  \A p \in Processes : At(p, "running") => db.schema = Supported /\ db.master = procs[p].master

\* One setup succeeds, ever; a second one checked before the first committed
\* does not replace the owner.
OneOwner == owners <= 1

\* A server that waits for its setup can be set up: the file is there, after
\* whatever failed or died before.
SetupPossible == ServerUp /\ ~db.owner => file # "absent"

\* "After initialization the file is deleted" (README.md): once no setup is under
\* way a server that is set up has no such file beside it, unless its removal
\* failed last, the server could not count the owners when it started, or a
\* backup command has written the file since.
FileGone ==
  ServerUp /\ db.owner /\ (\A r \in Requests : setups[r] # "stored") =>
    file = "absent" \/ cause # "none"

\* One owner, by the one setup that the code admits.
SetupOnce == OneOwner /\ SetupPossible /\ FileGone
==============================================================================
