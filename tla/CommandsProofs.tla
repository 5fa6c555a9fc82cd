--------------------------- MODULE CommandsProofs ---------------------------
(***************************************************************************)
(* Proofs about Lifecycle, ActionExec and AuditExport, for any master      *)
(* keys, any number of setups at once, any processes of a command and any  *)
(* rows, pages and offsets of a listing.                                   *)
(*                                                                         *)
(* What a started process may rely on depends on how far Open has come, so *)
(* LifeInv says it for every place: the key is the database's once it was  *)
(* compared or inserted, an owner once seen stays (a copy is restored only *)
(* while nothing runs), and a code file beside an owner has its cause from *)
(* the moment the server has counted the owners, before it listens.        *)
(***************************************************************************)
EXTENDS MCCommands, FiniteSetTheorems, SequenceTheorems, FunctionTheorems, TLAPS

\* Past the comparison of master keys.
KeyKnown == {"owner", "stat", "create", "fill", "remove", "running"}

MasterHeld ==
  \A p \in Processes : /\ ~At(p, "down") => procs[p].master \in Masters
                       /\ procs[p].at \in KeyKnown => db.master = procs[p].master

OwnerSeen ==
  /\ \A p \in Processes : /\ At(p, "remove") => db.owner
                          /\ At(p, "fill") => db.owner \/ file # "absent"
  /\ \A r \in Requests : setups[r] = "stored" => db.owner
  /\ owners = IF db.owner THEN 1 ELSE 0

\* FileGone from the count of owners on.
FileExcused ==
  procs["server"].at \in {"stat", "create", "fill", "running"} /\ db.owner
    /\ (\A r \in Requests : setups[r] # "stored") => file = "absent" \/ cause # "none"

LifeInv == LifeTypeOK /\ MasterHeld /\ OwnerSeen /\ SetupPossible /\ FileExcused

\* Before the spawn there is nothing to cancel, and after a SIGKILL to the group
\* nothing that could start anything.
ExecInv ==
  /\ ExecTypeOK
  /\ node.state = "start" => ~cancelled /\ \A p \in Procs : group[p].state = "none"
  /\ timer = "fired" => \A p \in Procs : ~Alive(p)
  /\ CancelReported

Places == {"down", "version", "migrate", "master", "insert", "owner",
           "stat", "create", "fill", "remove", "running"}

---------------------------------------------------------------------------
\* Whatever an older or a newer server left in the directory is a state to start in.
LEMMA LifeInitInv == LifeInit => LifeInv
<1> SUFFICES ASSUME LifeInit PROVE LifeInv
  OBVIOUS
<1>1. /\ \A p \in Processes : procs[p].at = "down" /\ procs[p].master = NoMaster
      /\ procs = [p \in Processes |-> Down] /\ "server" \in Processes
      /\ setups = [r \in Requests |-> "idle"]
  BY LifeAssumption DEF LifeInit, Down
<1>2. db \in Database /\ copy \in Database
  <2>1. NoCopy \in Database
    BY DEF NoCopy, Database
  <2>2. [schema : 1 .. 3, master : Masters, owner : BOOLEAN] \subseteq Database
    BY DEF Database
  <2> QED
    BY <2>1, <2>2 DEF LifeInit
<1>3. LifeTypeOK
  BY <1>1, <1>2 DEF LifeInit, LifeTypeOK, Down
<1>4. MasterHeld /\ OwnerSeen /\ SetupPossible /\ FileExcused
  BY <1>1 DEF LifeInit, MasterHeld, OwnerSeen, SetupPossible, FileExcused, KeyKnown, At, ServerUp
<1> QED
  BY <1>3, <1>4 DEF LifeInv

\* A process moves, the others stay where they are.
LEMMA OneMoves ==
  ASSUME LifeTypeOK, NEW p \in Processes,
         NEW a \in Places, NEW m \in Masters \cup {NoMaster},
         \/ procs' = [procs EXCEPT ![p] = [at |-> a, master |-> m]]
         \/ Goes(p, a) /\ m = procs[p].master
         \/ Exits(p) /\ a = "down" /\ m = NoMaster
  PROVE  /\ procs' \in [Processes -> [at : Places, master : Masters \cup {NoMaster}]]
         /\ procs'[p].at = a /\ procs'[p].master = m
         /\ \A q \in Processes \ {p} : procs'[q] = procs[q]
  BY DEF LifeTypeOK, Goes, Exits, Down, Places

\* A step of Open that reads the database or the directory and writes neither, a
\* start and an end.
LEMMA MoveInv ==
  ASSUME LifeInv, NEW p \in Processes,
         NEW a \in Places, NEW m \in Masters \cup {NoMaster},
         \/ procs' = [procs EXCEPT ![p] = [at |-> a, master |-> m]]
         \/ Goes(p, a) /\ m = procs[p].master
         \/ Exits(p) /\ a = "down" /\ m = NoMaster,
         UNCHANGED <<db, file, owners>>,
         cause' = cause \/ cause' = "error",
         copy' \in Database,
         setups' = setups \/ (p = "server" /\ setups' = [r \in Requests |-> "idle"]),
         p = "server" /\ At(p, "running") => setups' = [r \in Requests |-> "idle"],
         a \notin {"down", "version", "migrate"} => db.schema = Supported,
         a # "down" => m \in Masters,
         a \in KeyKnown => db.master = m,
         a = "remove" => db.owner,
         a # "fill",
         a \in {"stat", "create", "running"} /\ p = "server" /\ db.owner
           => file = "absent" \/ cause' # "none",
         a = "running" /\ p = "server" => file # "absent"
  PROVE  LifeInv'
<1> USE DEF LifeInv
<1>1. /\ procs' \in [Processes -> [at : Places, master : Masters \cup {NoMaster}]]
      /\ procs'[p].at = a /\ procs'[p].master = m
      /\ \A q \in Processes \ {p} : procs'[q] = procs[q]
  BY OneMoves
<1>2. "server" \in Processes
  BY LifeAssumption
<1>3. \A r \in Requests : setups'[r] = setups[r] \/ (p = "server" /\ setups'[r] = "idle")
  BY DEF LifeTypeOK
<1>4. LifeTypeOK'
  <2>1. setups' \in [Requests -> {"idle", "checked", "stored"}]
    BY DEF LifeTypeOK
  <2>2. procs'["server"].at # "running" => \A r \in Requests : setups'[r] = "idle"
    <3>1. CASE p = "server" /\ At(p, "running")
      BY <1>1, <3>1
    <3>2. CASE p = "server" /\ ~At(p, "running")
      BY <1>3, <3>2 DEF LifeTypeOK, At
    <3>3. CASE p # "server"
      BY <1>1, <1>2, <1>3, <3>3 DEF LifeTypeOK
    <3> QED
      BY <3>1, <3>2, <3>3
  <2>3. \A q \in Processes :
          procs'[q].at \notin {"down", "version", "migrate"} => db.schema = Supported
    BY <1>1 DEF LifeTypeOK
  <2> QED
    BY <1>1, <2>1, <2>2, <2>3 DEF LifeTypeOK, Places
<1>5. MasterHeld' /\ OwnerSeen'
  BY <1>1, <1>2, <1>3 DEF MasterHeld, OwnerSeen, At
<1>6. SetupPossible'
  BY <1>1, <1>2 DEF SetupPossible, ServerUp, At
<1>7. FileExcused'
  BY <1>1, <1>2, <1>3 DEF FileExcused, ServerUp, At
<1> QED
  BY <1>4, <1>5, <1>6, <1>7

\* The steps of that kind.
LEMMA MovesInv ==
  ASSUME LifeInv, NEW p \in Processes,
         \/ CheckVersion(p) \/ ReadMaster(p) \/ ReadOwner(p) \/ StatFile(p)
         \/ \E m \in Masters : Start(p, m)
         \/ Crash(p)
  PROVE  LifeInv'
<1> USE DEF LifeInv
<1>0. /\ procs[p].master \in Masters \cup {NoMaster}
      /\ ~At(p, "down") => procs[p].master \in Masters
      /\ At(p, "owner") \/ At(p, "stat") => db.master = procs[p].master
      /\ p = "server" /\ At(p, "stat") /\ db.owner => file = "absent" \/ cause # "none"
      /\ ~(procs[p].at \in {"down", "version", "migrate"}) => db.schema = Supported
      /\ copy \in Database
      /\ p = "server" /\ ~At(p, "running") => setups = [r \in Requests |-> "idle"]
  BY DEF LifeTypeOK, MasterHeld, FileExcused, At, KeyKnown
<1>1. CASE CheckVersion(p)
  <2>1. Exits(p) \/ Goes(p, "migrate")
    BY <1>1 DEF CheckVersion
  <2>2. At(p, "version") /\ UNCHANGED <<db, file, setups, copy, owners, cause>>
    BY <1>1 DEF CheckVersion
  <2>3. CASE Exits(p)
    BY <1>0, <2>2, <2>3, MoveInv DEF At, Places, KeyKnown
  <2>4. CASE Goes(p, "migrate")
    BY <1>0, <2>2, <2>4, MoveInv DEF At, Places, KeyKnown
  <2> QED
    BY <2>1, <2>3, <2>4
<1>2. CASE ReadMaster(p)
  <2>1. At(p, "master") /\ UNCHANGED <<db, file, setups, copy, owners, cause>>
    BY <1>2 DEF ReadMaster
  <2>2. CASE Exits(p)
    BY <1>0, <2>1, <2>2, MoveInv DEF At, Places, KeyKnown
  <2>3. CASE Goes(p, "insert")
    BY <1>0, <2>1, <2>3, MoveInv DEF At, Places, KeyKnown
  <2>4. CASE Goes(p, "owner") /\ db.master = procs[p].master
    BY <1>0, <2>1, <2>4, MoveInv DEF At, Places, KeyKnown
  <2> QED
    BY <1>2, <2>2, <2>3, <2>4 DEF ReadMaster
<1>3. CASE ReadOwner(p)
  <2>1. At(p, "owner") /\ UNCHANGED <<db, file, setups, copy, owners>>
    BY <1>3 DEF ReadOwner
  <2>2. CASE Goes(p, "remove") /\ db.owner /\ cause' = cause
    BY <1>0, <2>1, <2>2, MoveInv DEF At, Places, KeyKnown
  <2>3. CASE Goes(p, "stat") /\ cause' = IF db.owner /\ p = "server" THEN "error" ELSE cause
    BY <1>0, <2>1, <2>3, MoveInv DEF At, Places, KeyKnown
  <2> QED
    BY <1>3, <2>2, <2>3 DEF ReadOwner
<1>4. CASE StatFile(p)
  <2>1. At(p, "stat") /\ UNCHANGED <<db, file, setups, copy, owners, cause>>
    BY <1>4 DEF StatFile
  <2>2. CASE Goes(p, "create")
    BY <1>0, <2>1, <2>2, MoveInv DEF At, Places, KeyKnown
  <2>3. CASE Goes(p, "running") /\ file # "absent"
    BY <1>0, <2>1, <2>3, MoveInv DEF At, Places, KeyKnown
  <2> QED
    BY <1>4, <2>2, <2>3 DEF StatFile
<1>5. ASSUME NEW m \in Masters, Start(p, m)
      PROVE  LifeInv'
  <2>1. /\ At(p, "down") /\ UNCHANGED <<db, file, setups, copy, owners, cause>>
        /\ procs' = [procs EXCEPT ![p] = [at |-> "version", master |-> m]]
    BY <1>5 DEF Start
  <2> QED
    BY <1>0, <2>1, MoveInv DEF At, Places, KeyKnown
<1>6. CASE Crash(p)
  <2>1. /\ ~At(p, "down") /\ Exits(p) /\ UNCHANGED <<db, file, copy, owners, cause>>
        /\ setups' = IF p = "server" THEN [r \in Requests |-> "idle"] ELSE setups
    BY <1>6 DEF Crash
  <2> QED
    BY <1>0, <2>1, MoveInv DEF Places, KeyKnown
<1> QED
  BY <1>1, <1>2, <1>3, <1>4, <1>5, <1>6

\* One transaction brings any older schema to the supported one; a newer one was
\* refused before, or is refused here if a restore has brought it meanwhile.
LEMMA MigrateInv ==
  ASSUME LifeInv, NEW p \in Processes, Migrate(p)
  PROVE  LifeInv'
<1> USE DEF LifeInv
<1>0. PICK a \in {"master", "down"}, m \in Masters \cup {NoMaster} :
        \/ Goes(p, a) /\ m = procs[p].master /\ a = "master" /\ db'.schema = Supported
        \/ Exits(p) /\ a = "down" /\ m = NoMaster
  <2>1. (Goes(p, "master") /\ db'.schema = Supported) \/ Exits(p)
    BY DEF Migrate
  <2>2. procs[p].master \in Masters \cup {NoMaster}
    BY DEF LifeTypeOK
  <2> QED
    BY <2>1, <2>2
<1>1. /\ procs' \in [Processes -> [at : Places, master : Masters \cup {NoMaster}]]
      /\ procs'[p].at = a /\ procs'[p].master = m
      /\ \A q \in Processes \ {p} : procs'[q] = procs[q]
  BY <1>0, OneMoves DEF Places
<1>2. /\ At(p, "migrate") /\ UNCHANGED <<file, setups, copy, owners, cause>>
      /\ db' \in Database /\ db'.master = db.master /\ db'.owner = db.owner
      /\ db.schema = Supported => db'.schema = Supported
  BY DEF Migrate, LifeTypeOK, Database, Supported
<1>3. "server" \in Processes /\ (a # "down" => m \in Masters)
  BY <1>0, <1>2, LifeAssumption DEF MasterHeld, At
<1>4. LifeTypeOK'
  <2>1. \A q \in Processes :
          procs'[q].at \notin {"down", "version", "migrate"} => db'.schema = Supported
    BY <1>0, <1>1, <1>2 DEF LifeTypeOK
  <2>2. procs'["server"].at # "running" => \A r \in Requests : setups'[r] = "idle"
    BY <1>0, <1>1, <1>2, <1>3 DEF LifeTypeOK, At
  <2> QED
    BY <1>1, <1>2, <2>1, <2>2 DEF LifeTypeOK, Places
<1>5. MasterHeld' /\ OwnerSeen'
  BY <1>1, <1>2, <1>3 DEF MasterHeld, OwnerSeen, At, KeyKnown
<1>6. SetupPossible' /\ FileExcused'
  BY <1>1, <1>2, <1>3 DEF SetupPossible, FileExcused, ServerUp, At
<1> QED
  BY <1>4, <1>5, <1>6

\* The first key inserted is the database's; whoever comes second exits.
LEMMA InsertMasterInv ==
  ASSUME LifeInv, NEW p \in Processes, InsertMaster(p)
  PROVE  LifeInv'
<1> USE DEF LifeInv
<1>0. PICK a \in {"owner", "down"}, m \in Masters \cup {NoMaster} :
        \/ Goes(p, a) /\ m = procs[p].master /\ a = "owner"
           /\ db.master = NoMaster /\ db' = [db EXCEPT !.master = m]
        \/ Exits(p) /\ a = "down" /\ m = NoMaster /\ db' = db
  BY DEF InsertMaster, LifeTypeOK
<1>1. /\ procs' \in [Processes -> [at : Places, master : Masters \cup {NoMaster}]]
      /\ procs'[p].at = a /\ procs'[p].master = m
      /\ \A q \in Processes \ {p} : procs'[q] = procs[q]
  BY <1>0, OneMoves DEF Places
<1>2. /\ At(p, "insert") /\ UNCHANGED <<file, setups, copy, owners, cause>>
      /\ db' \in Database /\ db'.schema = db.schema /\ db'.owner = db.owner
  BY <1>0 DEF InsertMaster, LifeTypeOK, Database
<1>3. /\ "server" \in Processes /\ (a # "down" => m \in Masters) /\ NoMaster \notin Masters
      /\ db.schema = Supported
  BY <1>0, <1>2, LifeAssumption DEF MasterHeld, LifeTypeOK, At
<1>4. LifeTypeOK'
  <2>1. \A q \in Processes :
          procs'[q].at \notin {"down", "version", "migrate"} => db'.schema = Supported
    BY <1>2, <1>3
  <2>2. procs'["server"].at # "running" => \A r \in Requests : setups'[r] = "idle"
    BY <1>0, <1>1, <1>2, <1>3 DEF LifeTypeOK, At
  <2> QED
    BY <1>1, <1>2, <2>1, <2>2 DEF LifeTypeOK, Places
<1>5. MasterHeld'
  <2>1. a = "owner" => db'.master = m
    BY <1>0 DEF LifeTypeOK, Database
  <2>2. ASSUME NEW q \in Processes \ {p}, procs[q].at \in KeyKnown
        PROVE  db' = db
    <3>1. procs[q].master \in Masters /\ db.master = procs[q].master
      BY <2>2 DEF MasterHeld, At, KeyKnown
    <3> QED
      BY <1>0, <1>3, <3>1
  <2> QED
    BY <1>0, <1>1, <1>3, <2>1, <2>2 DEF MasterHeld, At, KeyKnown
<1>6. OwnerSeen' /\ SetupPossible' /\ FileExcused'
  BY <1>0, <1>1, <1>2, <1>3 DEF OwnerSeen, SetupPossible, FileExcused, ServerUp, At
<1> QED
  BY <1>4, <1>5, <1>6

\* The steps of Open that write setup-token.
LEMMA FileInv ==
  ASSUME LifeInv, NEW p \in Processes, RemoveFile(p) \/ CreateFile(p) \/ FillFile(p)
  PROVE  LifeInv'
<1> USE DEF LifeInv
<1>0. PICK a \in {"running", "fill"} :
        /\ Goes(p, a) /\ UNCHANGED <<db, setups, copy, owners>>
        /\ procs[p].at \in {"remove", "create", "fill"}
        /\ \/ At(p, "remove") /\ a = "running" /\ FileRemoved
           \/ /\ At(p, "create") /\ a = "fill" /\ file' = "cut"
              /\ cause' = IF ~db.owner THEN cause ELSE IF p = "backup" THEN "backup" ELSE "error"
           \/ /\ At(p, "fill") /\ a = "running" /\ cause' = cause
              /\ file' = IF file = "cut" THEN "whole" ELSE file
  BY DEF RemoveFile, CreateFile, FillFile, At
<1>1. procs[p].master \in Masters \cup {NoMaster}
  BY DEF LifeTypeOK
<1>2. /\ procs' \in [Processes -> [at : Places, master : Masters \cup {NoMaster}]]
      /\ procs'[p].at = a /\ procs'[p].master = procs[p].master
      /\ \A q \in Processes \ {p} : procs'[q] = procs[q]
  BY <1>0, <1>1, OneMoves DEF Places
<1>3. /\ "server" \in Processes /\ db.schema = Supported
      /\ \A q \in Processes : q # "server" => q = "backup"
      /\ file' \in {"absent", "cut", "whole"} /\ cause' \in {"none", "error", "backup"}
      /\ procs[p].master \in Masters /\ db.master = procs[p].master
  BY <1>0, LifeAssumption DEF MasterHeld, LifeTypeOK, FileRemoved, At, KeyKnown
<1>4. LifeTypeOK'
  <2>1. procs'["server"].at # "running" => \A r \in Requests : setups'[r] = "idle"
    BY <1>0, <1>2, <1>3 DEF LifeTypeOK
  <2> QED
    BY <1>0, <1>2, <1>3, <2>1 DEF LifeTypeOK, Places
<1>5. MasterHeld'
  BY <1>0, <1>2, <1>3 DEF MasterHeld, At, KeyKnown
<1>6. OwnerSeen' /\ SetupPossible'
  BY <1>0, <1>2, <1>3 DEF OwnerSeen, SetupPossible, ServerUp, At
<1>7. FileExcused'
  BY <1>0, <1>2, <1>3 DEF FileRemoved, OwnerSeen, FileExcused, At
<1> QED
  BY <1>4, <1>5, <1>6, <1>7

\* A setup in the running server: of all requests checked one commits, and the file
\* goes with it.
LEMMA SetupInv ==
  ASSUME LifeInv, NEW r \in Requests,
         SetupCheck(r) \/ SetupCommit(r) \/ SetupRemove(r) \/ SetupEnd(r)
  PROVE  LifeInv'
<1> USE DEF LifeInv
<1>1. /\ At("server", "running") /\ UNCHANGED <<procs, copy>>
      /\ "server" \in Processes /\ setups \in [Requests -> {"idle", "checked", "stored"}]
      /\ db \in Database
  BY LifeAssumption DEF SetupCheck, SetupCommit, SetupRemove, SetupEnd, Request, LifeTypeOK
<1>2. CASE SetupCommit(r)
  <2>1. /\ setups[r] = "checked" /\ setups' = [setups EXCEPT ![r] = "stored"] /\ ~db.owner
        /\ db' = [db EXCEPT !.owner = TRUE] /\ owners' = owners + 1
        /\ UNCHANGED <<file, cause>>
    BY <1>2 DEF SetupCommit, Request
  <2>2. /\ db' \in Database /\ db'.owner /\ db'.schema = db.schema /\ db'.master = db.master
        /\ owners = 0 /\ owners' = 1
    <3>1. owners = 0
      BY <2>1 DEF OwnerSeen
    <3>2. owners' = 1
      BY <2>1, <3>1
    <3>3. /\ db' \in Database /\ db'.schema = db.schema /\ db'.master = db.master
          /\ db'.owner = TRUE
      BY <1>1, <2>1 DEF Database
    <3> QED
      BY <3>1, <3>2, <3>3
  <2>3. LifeTypeOK' /\ MasterHeld'
    BY <1>1, <2>1, <2>2 DEF LifeTypeOK, MasterHeld, At
  <2>4. OwnerSeen' /\ SetupPossible' /\ FileExcused'
    BY <1>1, <2>1, <2>2 DEF OwnerSeen, SetupPossible, FileExcused, ServerUp, At
  <2> QED
    BY <2>3, <2>4
<1>3. CASE SetupRemove(r)
  <2>1. /\ setups[r] = "stored" /\ setups' = [setups EXCEPT ![r] = "idle"]
        /\ UNCHANGED <<db, owners>> /\ FileRemoved /\ db.owner
    BY <1>3 DEF SetupRemove, Request, OwnerSeen
  <2>2. LifeTypeOK' /\ MasterHeld' /\ OwnerSeen' /\ SetupPossible' /\ FileExcused'
    BY <1>1, <2>1
    DEF FileRemoved, LifeTypeOK, MasterHeld, OwnerSeen, SetupPossible, FileExcused, ServerUp, At
  <2> QED
    BY <2>2
<1>4. CASE SetupCheck(r) \/ SetupEnd(r)
  <2>1. /\ setups[r] # "stored" /\ UNCHANGED <<db, owners, file, cause>>
        /\ \/ setups' = [setups EXCEPT ![r] = "checked"]
           \/ setups' = [setups EXCEPT ![r] = "idle"]
    BY <1>4 DEF SetupCheck, SetupEnd, Request
  <2>2. LifeTypeOK' /\ MasterHeld' /\ OwnerSeen' /\ SetupPossible' /\ FileExcused'
    BY <1>1, <2>1 DEF LifeTypeOK, MasterHeld, OwnerSeen, SetupPossible, FileExcused, ServerUp, At
  <2> QED
    BY <2>2
<1> QED
  BY <1>2, <1>3, <1>4

\* A backup exits whatever it wrote; a copy is restored only while nothing runs.
LEMMA CopyInv ==
  ASSUME LifeInv, Backup \/ Restore
  PROVE  LifeInv'
<1> USE DEF LifeInv
<1>1. CASE Backup
  <2>1. /\ "backup" \in Processes /\ At("backup", "running") /\ Exits("backup") /\ copy' \in Database
        /\ UNCHANGED <<db, file, setups, owners, cause>>
    BY <1>1 DEF Backup, LifeTypeOK
  <2> QED
    BY <2>1, MoveInv DEF Places, KeyKnown
<1>2. CASE Restore
  <2>1. /\ \A p \in Processes : procs[p].at = "down"
        /\ db' = copy /\ file' = "absent" /\ owners' = IF copy.owner THEN 1 ELSE 0
        /\ UNCHANGED <<procs, setups, copy>> /\ cause' = "none" /\ "server" \in Processes
    BY <1>2, LifeAssumption DEF Restore, At
  <2>2. LifeTypeOK' /\ MasterHeld' /\ OwnerSeen' /\ SetupPossible' /\ FileExcused'
    BY <2>1 DEF LifeTypeOK, MasterHeld, OwnerSeen, SetupPossible, FileExcused, ServerUp, At, KeyKnown
  <2> QED
    BY <2>2
<1> QED
  BY <1>1, <1>2

\* Every step of server, backup and operator keeps the invariant.
LEMMA LifeNextInv ==
  ASSUME LifeInv, [LifeNext]_lifeVars
  PROVE  LifeInv'
<1>1. ASSUME NEW p \in Processes, Open(p) \/ Crash(p) \/ \E m \in Masters : Start(p, m)
      PROVE  LifeInv'
  BY <1>1, MovesInv, MigrateInv, InsertMasterInv, FileInv DEF Open
<1>2. ASSUME NEW r \in Requests, SetupCheck(r) \/ SetupCommit(r) \/ SetupRemove(r) \/ SetupEnd(r)
      PROVE  LifeInv'
  BY <1>2, SetupInv
<1>3. CASE Backup \/ Restore
  BY <1>3, CopyInv
<1>4. CASE UNCHANGED lifeVars
  BY <1>4 DEF lifeVars, LifeInv, LifeTypeOK, MasterHeld, OwnerSeen, SetupPossible, FileExcused, ServerUp, At
<1> QED
  BY <1>1, <1>2, <1>3, <1>4 DEF LifeNext

\* Database, file, processes and requests always hold what they are declared to hold.
THEOREM LifeTypeCorrect == LifeSpec => []LifeTypeOK
<1>1. LifeInv /\ [LifeNext]_lifeVars => LifeInv'
  BY LifeNextInv
<1>2. LifeInv => LifeTypeOK
  BY DEF LifeInv
<1> QED
  BY <1>1, <1>2, LifeInitInv, PTL DEF LifeSpec

\* Whoever runs holds the key and the schema of the database beside it, though server
\* and backup start at once on an empty directory, die at any statement, or find a
\* restored copy.
THEOREM OpensSoundly == LifeSpec => []OpenSound
<1>1. LifeInv /\ [LifeNext]_lifeVars => LifeInv'
  BY LifeNextInv
<1>2. LifeInv => OpenSound
  BY DEF LifeInv, LifeTypeOK, MasterHeld, OpenSound, At, KeyKnown
<1> QED
  BY <1>1, <1>2, LifeInitInv, PTL DEF LifeSpec

\* One owner by one setup, a server that waits for one can be set up, and beside one
\* that is set up a code file has a cause: an error that was ignored, or a backup
\* command that wrote it since; for any number of setups at once.
THEOREM SetsUpOnce == LifeSpec => []SetupOnce
<1>1. LifeInv /\ [LifeNext]_lifeVars => LifeInv'
  BY LifeNextInv
<1>2. LifeInv => SetupOnce
  BY DEF LifeInv, OwnerSeen, FileExcused, SetupOnce, OneOwner, FileGone, ServerUp, At
<1> QED
  BY <1>1, <1>2, LifeInitInv, PTL DEF LifeSpec

---------------------------------------------------------------------------
\* Nothing has been started yet.
LEMMA ExecInitInv == ExecInit => ExecInv
<1> SUFFICES ASSUME ExecInit PROVE ExecInv
  OBVIOUS
<1>1. \A p \in Procs : group[p].state = "none"
  BY DEF ExecInit
<1>2. ExecTypeOK
  BY <1>1, ExecAssumption DEF ExecInit, ExecTypeOK
<1> QED
  BY <1>1, <1>2 DEF ExecInit, ExecInv, CancelReported, Ended, Alive

\* The shell or one of its processes is started.
LEMMA BornEffect ==
  ASSUME ExecTypeOK, NEW p \in Procs, Born(p)
  PROVE  /\ group' \in [Procs -> [state : {"none", "alive", "dead"}, heeds : BOOLEAN]]
         /\ group'[p].state = "alive" /\ \A q \in Procs \ {p} : group'[q] = group[q]
  BY DEF Born, ExecTypeOK

\* Some processes end.
LEMMA DeadEffect ==
  ASSUME ExecTypeOK, NEW ps \in SUBSET {p \in Procs : Alive(p)}, NEW c \in {"0", "1", "signal"},
         Dead(ps, c)
  PROVE  /\ group' \in [Procs -> [state : {"none", "alive", "dead"}, heeds : BOOLEAN]]
         /\ \A p \in Procs : group'[p].state = IF p \in ps THEN "dead" ELSE group[p].state
         /\ code' \in {"none", "0", "1", "signal"}
         /\ code' = "none" <=> group'[Shell].state # "dead"
<1>1. ASSUME NEW p \in Procs
      PROVE  /\ [group[p] EXCEPT !.state = "dead"] \in [state : {"none", "alive", "dead"}, heeds : BOOLEAN]
             /\ [group[p] EXCEPT !.state = "dead"].state = "dead"
             /\ group[p] \in [state : {"none", "alive", "dead"}, heeds : BOOLEAN]
  BY DEF ExecTypeOK
<1>2. /\ group' \in [Procs -> [state : {"none", "alive", "dead"}, heeds : BOOLEAN]]
      /\ \A p \in Procs : group'[p].state = IF p \in ps THEN "dead" ELSE group[p].state
  BY <1>1 DEF Dead
<1> QED
  BY <1>2, ExecAssumption DEF Dead, ExecTypeOK

\* Every step of the action, its command and the kernel keeps the invariant.
LEMMA ExecNextInv ==
  ASSUME ExecInv, [ExecNext]_execVars
  PROVE  ExecInv'
<1> USE DEF ExecInv
<1>1. CASE Spawn
  <2>1. /\ node.state = "start" /\ node' = [node EXCEPT !.state = "waiting"]
        /\ UNCHANGED <<told, code, cancelled, timer>> /\ Born(Shell)
    BY <1>1 DEF Spawn
  <2>2. /\ group' \in [Procs -> [state : {"none", "alive", "dead"}, heeds : BOOLEAN]]
        /\ group'[Shell].state = "alive" /\ \A q \in Procs \ {Shell} : group'[q] = group[q]
    BY <2>1, BornEffect, ExecAssumption
  <2>3. node'.state = "waiting" /\ node'.status \in Nat
    BY <2>1 DEF ExecTypeOK
  <2>4. timer = "off"
    BY <2>1 DEF ExecTypeOK
  <2> QED
    BY <2>1, <2>2, <2>3, <2>4, ExecAssumption DEF ExecTypeOK, CancelReported, Ended, Alive
<1>2. CASE SpawnFails
  BY <1>2 DEF SpawnFails, ExecTypeOK, CancelReported, Ended, Alive
<1>3. CASE Cancel
  BY <1>3 DEF Cancel, ExecTypeOK, CancelReported, Ended, Alive
<1>4. ASSUME NEW ps \in SUBSET {p \in Procs : Alive(p)}, NEW c \in {"0", "1", "signal"}, Dead(ps, c),
             timer' = timer \/ (timer = "set" /\ timer' = "fired" /\ ps = {p \in Procs : Alive(p)}),
             UNCHANGED <<told, cancelled, node>>
      PROVE  ExecInv'
  <2>1. /\ group' \in [Procs -> [state : {"none", "alive", "dead"}, heeds : BOOLEAN]]
        /\ \A p \in Procs : group'[p].state = IF p \in ps THEN "dead" ELSE group[p].state
        /\ code' \in {"none", "0", "1", "signal"}
        /\ code' = "none" <=> group'[Shell].state # "dead"
    BY <1>4, DeadEffect
  <2>2. ExecTypeOK'
    BY <1>4, <2>1 DEF ExecTypeOK
  <2>3. CancelReported'
    BY <1>4 DEF CancelReported, Ended
  <2> QED
    BY <1>4, <2>1, <2>2, <2>3 DEF Alive, ExecTypeOK
<1>5. CASE ForceKill
  <2> DEFINE all == {p \in Procs : Alive(p)}
  <2>1. /\ Dead(all, "signal") /\ timer = "set" /\ timer' = "fired"
        /\ UNCHANGED <<told, cancelled, node>>
    BY <1>5 DEF ForceKill
  <2>2. all \in SUBSET {p \in Procs : Alive(p)} /\ all = {p \in Procs : Alive(p)}
    OBVIOUS
  <2> HIDE DEF all
  <2> QED
    BY <1>4, <2>1, <2>2
<1>6. CASE Close
  <2>1. /\ node.state = "waiting" /\ group[Shell].state = "dead"
        /\ timer' = (IF timer = "set" THEN "off" ELSE timer)
        /\ node'.state = "ended" /\ node'.status \in Nat /\ (cancelled => node'.status # 0)
        /\ UNCHANGED <<group, told, code, cancelled>>
    BY <1>6 DEF Close
  <2> QED
    BY <2>1 DEF ExecTypeOK, CancelReported, Ended, Alive
<1>7. ASSUME NEW p \in Procs, Fork(p)
      PROVE  ExecInv'
  <2>1. /\ group[p].state = "none" /\ \E q \in Procs : Alive(q)
        /\ UNCHANGED <<told, code, cancelled, timer, node>>
    BY <1>7 DEF Fork
  <2>2. /\ group' \in [Procs -> [state : {"none", "alive", "dead"}, heeds : BOOLEAN]]
        /\ group'[p].state = "alive" /\ \A q \in Procs \ {p} : group'[q] = group[q]
    BY <1>7, BornEffect DEF Fork
  <2>3. node.state # "start" /\ timer # "fired"
    BY <2>1 DEF Alive
  <2>4. ExecTypeOK'
    BY <2>1, <2>2, ExecAssumption DEF ExecTypeOK
  <2> QED
    BY <2>1, <2>3, <2>4 DEF CancelReported, Ended
<1>8. ASSUME NEW p \in Procs, Heed(p) \/ \E c \in {"0", "1", "signal"} : Exit(p, c)
      PROVE  ExecInv'
  <2>1. /\ Alive(p) /\ UNCHANGED <<told, cancelled, timer, node>>
        /\ \E c \in {"0", "1", "signal"} : Dead({p}, c)
    BY <1>8 DEF Heed, Exit
  <2> QED
    BY <1>4, <2>1
<1>9. CASE UNCHANGED execVars
  BY <1>9 DEF execVars, ExecTypeOK, CancelReported, Ended, Alive
<1> QED
  BY <1>1, <1>2, <1>3, <1>5, <1>6, <1>7, <1>8, <1>9 DEF ExecNext

\* The action's locals and its processes always hold what they are declared to hold.
THEOREM ExecTypeCorrect == ExecSpec => []ExecTypeOK
<1>1. ExecInv /\ [ExecNext]_execVars => ExecInv'
  BY ExecNextInv
<1>2. ExecInv => ExecTypeOK
  BY DEF ExecInv
<1> QED
  BY <1>1, <1>2, ExecInitInv, PTL DEF ExecSpec

\* A cancelled step reports no success, and one that was forced leaves no process,
\* however many its command starts and whenever it does.
THEOREM CancelIsSettled == ExecSpec => []CancelSettled
<1>1. ExecInv /\ [ExecNext]_execVars => ExecInv'
  BY ExecNextInv
<1>2. ExecInv => CancelSettled
  BY DEF ExecInv, CancelSettled, ForcedTreeGone
<1> QED
  BY <1>1, <1>2, ExecInitInv, PTL DEF ExecSpec

---------------------------------------------------------------------------
(***************************************************************************)
(* The export: rows are ranked by how many a listing shows before them.    *)
(* Pages are cut by rank, so what matters is that an insertion moves rows  *)
(* down only and a clean-up, which takes the oldest, moves none.           *)
(***************************************************************************)
\* What a table of rows is: finitely many, no id twice.
Table(rows) ==
  /\ rows \subseteq Event /\ IsFiniteSet(rows)
  /\ \A e, f \in rows : e.id = f.id => e = f

\* How many rows a listing shows before this one.
Rank(rows, e) == Cardinality({f \in rows : Before(f, e)})

Seen == Range(export.all)

\* Of the rows the export has to contain those are still to come that have at least as
\* many before them as were read; those read have fewer, unless a row came between.
ExportMoves ==
  export.state = "reading" =>
    /\ \A e \in (began \cap events) \ Seen : Rank(UpTo(export.to), e) >= export.offset
    /\ ~late => \A e \in Seen \cap events : Rank(UpTo(export.to), e) < export.offset

ExportInv ==
  /\ now \in 1 .. MaxTime /\ late \in BOOLEAN
  /\ Table(events) /\ began \subseteq Event
  /\ export \in [state : {"idle", "reading", "done", "tooLong"}, to : 0 .. MaxTime + 1,
                 offset : 0 .. MaxOffset + PageSize, all : Seq(Event)]
  /\ export.offset % PageSize = 0
  /\ \A e \in began \cup Seen : e.at <= export.to
  /\ ExportMoves
  /\ ~late => \A i, j \in DOMAIN export.all : export.all[i] = export.all[j] => i = j
  /\ ExportComplete

---------------------------------------------------------------------------
\* A listing is a strict order, and total on the rows of a table.
LEMMA BeforeOrders ==
  /\ \A e \in Event : ~Before(e, e)
  /\ \A e, f, g \in Event : Before(e, f) /\ Before(f, g) => Before(e, g)
  /\ \A e, f \in Event : e.id # f.id => Before(e, f) \/ Before(f, e)
<1>1. Ids \subseteq Nat /\ MaxTime \in Nat
  BY ExportAssumption
<1>2. ASSUME NEW e \in Event PROVE e.id \in Nat /\ e.at \in Nat
  <2>1. e.id \in Ids /\ e.at \in 0 .. MaxTime
    BY DEF Event
  <2>2. e.id \in Nat
    BY <1>1, <2>1
  <2>3. e.at \in Nat
    BY <1>1, <2>1
  <2> QED
    BY <2>2, <2>3
<1> QED
  BY <1>2 DEF Before

\* A part of a table is a table.
LEMMA PartOfTable ==
  ASSUME NEW rows, Table(rows), NEW part, part \subseteq rows
  PROVE  Table(part)
BY FS_Subset DEF Table

\* A row has fewer before it than the table has rows.
LEMMA RankBounds ==
  ASSUME NEW rows, Table(rows), NEW e \in rows
  PROVE  /\ Cardinality(rows) \in Nat
         /\ Rank(rows, e) \in 0 .. Cardinality(rows) - 1
<1> DEFINE prior == {f \in rows : Before(f, e)}
<1>1. IsFiniteSet(rows) /\ Cardinality(rows) \in Nat
  BY FS_CardinalityType DEF Table
<1>2. IsFiniteSet(rows \ {e}) /\ Cardinality(rows \ {e}) = Cardinality(rows) - 1
  BY <1>1, FS_RemoveElement
<1>3. prior \in SUBSET (rows \ {e})
  BY BeforeOrders DEF Table
<1> HIDE DEF prior
<1>4. IsFiniteSet(prior) /\ Cardinality(prior) <= Cardinality(rows) - 1
  BY <1>2, <1>3, FS_Subset
<1>5. Cardinality(prior) \in Nat
  BY <1>4, FS_CardinalityType
<1> QED
  BY <1>1, <1>4, <1>5 DEF prior, Rank

\* The earlier of two rows has fewer before it.
LEMMA RankGrows ==
  ASSUME NEW rows, Table(rows), NEW e \in rows, NEW f \in rows, Before(e, f)
  PROVE  Rank(rows, e) < Rank(rows, f)
<1> DEFINE prior == {g \in rows : Before(g, e)}
           longer == {g \in rows : Before(g, f)}
<1>1. e \notin prior /\ prior \cup {e} \in SUBSET longer
  BY BeforeOrders DEF Table
<1>2. IsFiniteSet(prior) /\ IsFiniteSet(longer)
  BY FS_Subset DEF Table
<1> HIDE DEF prior, longer
<1>3. Cardinality(prior \cup {e}) = Cardinality(prior) + 1
  <2>1. Cardinality(prior \cup {e}) = IF e \in prior THEN Cardinality(prior) ELSE Cardinality(prior) + 1
    BY <1>2, FS_AddElement
  <2> QED
    BY <2>1, <1>1
<1>4. Cardinality(prior \cup {e}) <= Cardinality(longer)
  BY <1>1, <1>2, FS_Subset
<1>5. Cardinality(prior) \in Nat /\ Cardinality(longer) \in Nat
  BY <1>2, FS_CardinalityType
<1> QED
  BY <1>3, <1>4, <1>5 DEF prior, longer, Rank

\* No two rows have equally many before them.
LEMMA RankTells ==
  ASSUME NEW rows, Table(rows), NEW e \in rows, NEW f \in rows, Rank(rows, e) = Rank(rows, f)
  PROVE  e = f
<1> SUFFICES ASSUME e # f PROVE FALSE
  OBVIOUS
<1>1. Before(e, f) \/ Before(f, e)
  BY BeforeOrders DEF Table
<1>2. Rank(rows, e) \in Int /\ Rank(rows, f) \in Int
  BY RankBounds
<1> QED
  BY <1>1, <1>2, RankGrows

\* For every number below the size of the table there is the row with so many before
\* it: the numbers are different and there are as many as rows.
LEMMA EveryRank ==
  ASSUME NEW rows, Table(rows), NEW n \in 0 .. Cardinality(rows) - 1
  PROVE  \E e \in rows : Rank(rows, e) = n
<1> DEFINE N == Cardinality(rows)
           r == [e \in rows |-> Rank(rows, e)]
<1>1. N \in Nat /\ IsFiniteSet(rows)
  BY FS_CardinalityType DEF Table
<1>2. r \in [rows -> 0 .. N - 1]
  BY RankBounds
<1>3. \A e, f \in rows : r[e] = r[f] => e = f
  BY RankTells
<1> HIDE DEF r
<1>4. r \in Injection(rows, 0 .. N - 1)
  BY <1>2, <1>3, Fun_IsInj
<1>5. IsFiniteSet(0 .. N - 1) /\ Cardinality(0 .. N - 1) = N
  <2>1. /\ IsFiniteSet(0 .. N - 1)
        /\ Cardinality(0 .. N - 1) = IF 0 > N - 1 THEN 0 ELSE N - 1 - 0 + 1
    <3>1. 0 \in Int /\ N - 1 \in Int
      BY <1>1
    <3> HIDE DEF N
    <3> QED
      BY <3>1, FS_Interval
  <2> QED
    BY <2>1, <1>1
<1>6. r \in Surjection(rows, 0 .. N - 1)
  BY <1>4, <1>5, FS_Injection
<1>7. \A m \in 0 .. N - 1 : \E e \in rows : r[e] = m
  BY <1>6 DEF Surjection
<1>8. PICK e \in rows : r[e] = n
  BY <1>7
<1> QED
  BY <1>8 DEF r

\* What NthRow chooses.
LEMMA NthRowIs ==
  ASSUME NEW rows, Table(rows), NEW n \in 1 .. Cardinality(rows)
  PROVE  NthRow(rows, n) \in rows /\ Rank(rows, NthRow(rows, n)) = n - 1
<1>1. n - 1 \in 0 .. Cardinality(rows) - 1
  BY FS_CardinalityType DEF Table
<1>2. \E e \in rows : Cardinality({f \in rows : Before(f, e)}) = n - 1
  BY <1>1, EveryRank DEF Rank
<1> QED
  BY <1>2 DEF NthRow, Rank

\* Of two numbers Min takes the smaller.
LEMMA LeastOfTwo ==
  ASSUME NEW a \in Int, NEW b \in Int
  PROVE  Min({a, b}) = IF a <= b THEN a ELSE b
<1> DEFINE least == IF a <= b THEN a ELSE b
<1>1. least \in {a, b} /\ \A y \in {a, b} : least <= y
  OBVIOUS
<1>2. \A x \in {a, b} : (\A y \in {a, b} : x <= y) => x = least
  OBVIOUS
<1> HIDE DEF least
<1>3. Min({a, b}) = least
  BY <1>1, <1>2 DEF Min
<1> QED
  BY <1>3 DEF least

\* What is indexed from 1 on is a sequence.
LEMMA FunctionIsSeq ==
  ASSUME NEW S, NEW m \in Nat, NEW f \in [1 .. m -> S]
  PROVE  f \in Seq(S) /\ Len(f) = m
OBVIOUS

\* The rows that have from offset to offset + m - 1 before them, if these are a full
\* page or the rest of the table.
LEMMA RowsFrom ==
  ASSUME NEW rows, Table(rows), NEW offset \in Nat,
         NEW m \in 0 .. PageSize, NEW page \in Seq(rows), Len(page) = m,
         \A i \in 1 .. m : Rank(rows, page[i]) = offset + i - 1,
         m = PageSize \/ offset + m >= Cardinality(rows)
  PROVE  \A e \in rows : Rank(rows, e) >= offset =>
           \/ \E i \in 1 .. Len(page) : page[i] = e
           \/ Len(page) = PageSize /\ Rank(rows, e) >= offset + PageSize
<1> SUFFICES ASSUME NEW e \in rows, Rank(rows, e) >= offset
             PROVE  \/ \E i \in 1 .. Len(page) : page[i] = e
                    \/ Len(page) = PageSize /\ Rank(rows, e) >= offset + PageSize
  OBVIOUS
<1>1. PageSize \in Nat /\ Cardinality(rows) \in Nat /\ Rank(rows, e) \in 0 .. Cardinality(rows) - 1
  BY RankBounds, ExportAssumption
<1>2. CASE Rank(rows, e) >= offset + m
  BY <1>1, <1>2
<1>3. CASE Rank(rows, e) < offset + m
  <2> DEFINE i == Rank(rows, e) - offset + 1
  <2>1. i \in 1 .. m /\ Rank(rows, e) = offset + i - 1
    BY <1>1, <1>3
  <2> HIDE DEF i
  <2>2. page[i] \in rows /\ Rank(rows, page[i]) = Rank(rows, e)
    BY <2>1
  <2>3. page[i] = e
    BY <2>2, RankTells
  <2> QED
    BY <2>1, <2>3
<1> QED
  BY <1>1, <1>2, <1>3

\* A page holds the rows that have from offset to offset + PageSize - 1 before them, and
\* a page that is not full holds all that follow.
LEMMA PageHolds ==
  ASSUME NEW rows, Table(rows), NEW offset \in 0 .. MaxOffset
  PROVE  \E page \in Seq(rows) :
           /\ page = [i \in 1 .. Min({PageSize, Cardinality(rows) - offset}) |-> NthRow(rows, offset + i)]
           /\ Len(page) <= PageSize
           /\ \A i \in 1 .. Len(page) : Rank(rows, page[i]) = offset + i - 1
           /\ \A e \in rows : Rank(rows, e) >= offset =>
                \/ \E i \in 1 .. Len(page) : page[i] = e
                \/ Len(page) = PageSize /\ Rank(rows, e) >= offset + PageSize
<1> DEFINE N == Cardinality(rows)
           least == IF PageSize <= N - offset THEN PageSize ELSE N - offset
           m == IF least > 0 THEN least ELSE 0
<1>1. N \in Nat /\ PageSize \in Nat \ {0} /\ offset \in Nat
  BY FS_CardinalityType, ExportAssumption DEF Table
<1>2. Min({PageSize, N - offset}) = least
  BY <1>1, LeastOfTwo
<1>3. /\ m \in 0 .. PageSize /\ 1 .. least = 1 .. m
      /\ \A i \in 1 .. m : offset + i \in 1 .. N
      /\ m = PageSize \/ offset + m >= N
  BY <1>1
<1> HIDE DEF least, m
<1>4. PICK page : page = [i \in 1 .. m |-> NthRow(rows, offset + i)]
  OBVIOUS
<1>5. \A i \in 1 .. m : /\ NthRow(rows, offset + i) \in rows
                        /\ Rank(rows, NthRow(rows, offset + i)) = offset + i - 1
  BY <1>3, NthRowIs
<1>6. page \in [1 .. m -> rows] /\ \A i \in 1 .. m : page[i] = NthRow(rows, offset + i)
  BY <1>4, <1>5
<1>7. m \in Nat
  BY <1>3
<1>8. page \in Seq(rows) /\ Len(page) = m
  BY <1>6, <1>7, FunctionIsSeq
<1>9. \A i \in 1 .. m : Rank(rows, page[i]) = offset + i - 1
  BY <1>5, <1>6
<1>10. \A e \in rows : Rank(rows, e) >= offset =>
         \/ \E i \in 1 .. Len(page) : page[i] = e
         \/ Len(page) = PageSize /\ Rank(rows, e) >= offset + PageSize
  BY <1>1, <1>3, <1>8, <1>9, RowsFrom
<1>11. page = [i \in 1 .. Min({PageSize, N - offset}) |-> NthRow(rows, offset + i)]
  BY <1>2, <1>3, <1>4
<1>12. Len(page) <= PageSize
  BY <1>1, <1>3, <1>8
<1>13. \A i \in 1 .. Len(page) : Rank(rows, page[i]) = offset + i - 1
  BY <1>8, <1>9
<1> QED
  BY <1>8, <1>10, <1>11, <1>12, <1>13

---------------------------------------------------------------------------
\* The rows up to a date that an insertion adds: none is moved up.
LEMMA RankInserted ==
  ASSUME NEW rows, Table(rows), NEW more, Table(more), rows \subseteq more, NEW e
  PROVE  Rank(more, e) >= Rank(rows, e)
<1> DEFINE old == {f \in rows : Before(f, e)}
           new == {f \in more : Before(f, e)}
<1>1. old \in SUBSET new /\ new \in SUBSET more
  OBVIOUS
<1> HIDE DEF old, new
<1>2. IsFiniteSet(new)
  BY <1>1, FS_Subset DEF Table
<1>3. IsFiniteSet(old) /\ Cardinality(old) <= Cardinality(new)
  BY <1>1, <1>2, FS_Subset
<1> QED
  BY <1>2, <1>3, FS_CardinalityType DEF old, new, Rank

\* A clean-up takes the oldest rows: what is left keeps its place.
LEMMA RankCleaned ==
  ASSUME NEW rows, rows \subseteq Event, NEW limit \in Int,
         NEW left, left = {e \in rows : e.at >= limit}, NEW e \in left
  PROVE  Rank(left, e) = Rank(rows, e)
<1>1. \A f \in rows : f.at \in Nat
  BY ExportAssumption DEF Event
<1>2. {f \in left : Before(f, e)} = {f \in rows : Before(f, e)}
  BY <1>1 DEF Before
<1> QED
  BY <1>2 DEF Rank

\* No export has begun.
LEMMA ExportInitInv == ExportInit => ExportInv
<1> SUFFICES ASSUME ExportInit PROVE ExportInv
  OBVIOUS
<1>1. /\ now = 1 /\ events = {} /\ began = {} /\ late = FALSE
      /\ export = [state |-> "idle", to |-> 0, offset |-> 0, all |-> << >>]
  BY DEF ExportInit, NoExport
<1>2. MaxTime \in Nat \ {0} /\ PageSize \in Nat \ {0} /\ MaxOffset \in Nat
  BY ExportAssumption
<1>3. Table(events)
  BY <1>1, FS_EmptySet DEF Table
<1>4. << >> \in Seq(Event) /\ Range(<< >>) = {}
  BY DEF Range
<1>5. 0 % PageSize = 0
  BY <1>2
<1>6. export \in [state : {"idle", "reading", "done", "tooLong"}, to : 0 .. MaxTime + 1,
                   offset : 0 .. MaxOffset + PageSize, all : Seq(Event)]
  BY <1>1, <1>2, <1>4
<1>7. ExportMoves /\ ExportComplete
  BY <1>1 DEF ExportMoves, ExportComplete
<1>8. \A e \in began \cup Seen : e.at <= export.to
  BY <1>1, <1>4 DEF Seen
<1>9. \A i, j \in DOMAIN export.all : export.all[i] = export.all[j] => i = j
  BY <1>1
<1>10. export.offset % PageSize = 0
  BY <1>1, <1>5
<1>11. now \in 1 .. MaxTime
  BY <1>1, <1>2
<1>12. late \in BOOLEAN /\ began \subseteq Event
  BY <1>1
<1> QED
  BY <1>3, <1>6, <1>7, <1>8, <1>9, <1>10, <1>11, <1>12 DEF ExportInv

\* The rows up to a date are a table.
LEMMA UpToTable ==
  ASSUME ExportInv
  PROVE  /\ Table(UpTo(export.to)) /\ UpTo(export.to) = {e \in events : e.at <= export.to}
         /\ \A e \in (began \cup Seen) \cap events : e \in UpTo(export.to)
<1>1. UpTo(export.to) \subseteq events
  BY DEF UpTo
<1> QED
  BY <1>1, PartOfTable DEF ExportInv, UpTo

---------------------------------------------------------------------------
\* A row that is inserted has an id of its own; it may push rows down.
LEMMA AuditInv ==
  ASSUME ExportInv, NEW id \in Ids, NEW at \in 0 .. MaxTime, audit(id, at)
  PROVE  ExportInv'
<1> DEFINE rows == UpTo(export.to)
           more == {e \in events' : e.at <= export.to}
<1>1. PICK row \in Event : row.id = id /\ row.at = at /\ events' = events \cup {row}
  BY DEF audit, Event
<1>2. /\ \A e \in events \cup began \cup Seen : e.id # id
      /\ late' = (late \/ (export.state = "reading" /\ at <= export.to))
      /\ now' = now /\ export' = export /\ began' = began /\ Seen' = Seen
  BY DEF audit, Seen
<1>3. Table(events')
  <2>1. IsFiniteSet(events')
    BY <1>1, FS_AddElement DEF ExportInv, Table
  <2> QED
    BY <1>1, <1>2, <2>1 DEF ExportInv, Table
<1>4. UpTo(export.to)' = more
  BY <1>2 DEF UpTo
<1>5. Table(rows) /\ Table(more) /\ rows \subseteq more
  <2>1. more \subseteq events' /\ rows \subseteq more
    BY <1>1 DEF UpTo
  <2> QED
    BY <1>3, <2>1, PartOfTable, UpToTable
<1>6. \A e \in (began \cup Seen) \cap events' : e \in events /\ e \in rows
  BY <1>1, <1>2, UpToTable
<1>7. ExportMoves'
  <2> SUFFICES ASSUME export.state = "reading"
               PROVE  /\ \A e \in (began \cap events') \ Seen : Rank(more, e) >= export.offset
                      /\ ~late' => \A e \in Seen \cap events' : Rank(more, e) < export.offset
    BY <1>2, <1>4 DEF ExportMoves
  <2>1. ASSUME NEW e \in (began \cap events') \ Seen
        PROVE  Rank(more, e) >= export.offset
    <3>1. Rank(rows, e) >= export.offset /\ e \in rows
      BY <1>6 DEF ExportInv, ExportMoves
    <3>2. Rank(more, e) >= Rank(rows, e)
      BY <1>5, RankInserted
    <3>3. Rank(more, e) \in Int /\ Rank(rows, e) \in Int /\ export.offset \in Int
      BY <1>5, <3>1, RankBounds DEF ExportInv
    <3> QED
      BY <3>1, <3>2, <3>3
  <2>2. ASSUME ~late', NEW e \in Seen \cap events'
        PROVE  Rank(more, e) < export.offset
    <3>1. more = rows
      BY <1>1, <1>2, <2>2 DEF UpTo
    <3> QED
      BY <1>2, <1>6, <2>2, <3>1 DEF ExportInv, ExportMoves
  <2> QED
    BY <2>1, <2>2
<1>8. ExportComplete'
  BY <1>2, <1>6 DEF ExportInv, ExportComplete
<1> QED
  BY <1>2, <1>3, <1>7, <1>8 DEF ExportInv

\* What a clean-up leaves keeps its place.
LEMMA CleanupInv ==
  ASSUME ExportInv, cleanup
  PROVE  ExportInv'
<1> DEFINE rows == UpTo(export.to)
           left == {e \in rows : e.at >= now - Retention}
<1>1. /\ events' = {e \in events : e.at + Retention >= now}
      /\ now' = now /\ export' = export /\ began' = began /\ late' = late /\ Seen' = Seen
  BY DEF cleanup, Seen
<1>2. events' \subseteq events
  BY <1>1
<1>3. Table(events')
  BY <1>2, PartOfTable DEF ExportInv
<1>4. now \in Int /\ Retention \in Int /\ \A e \in events : e.at \in Int
  BY ExportAssumption DEF ExportInv, Table, Event
<1>5. UpTo(export.to)' = left
  BY <1>1, <1>4 DEF UpTo
<1>6. \A e \in (began \cup Seen) \cap events' : e \in events /\ e \in left
  <2>1. \A e \in (began \cup Seen) \cap events' : e \in rows
    BY <1>2, UpToTable
  <2> QED
    BY <1>1, <1>2, <1>4, <2>1
<1>7. \A e \in left : Rank(left, e) = Rank(rows, e)
  <2>1. rows \subseteq Event
    BY UpToTable DEF Table
  <2>2. now - Retention \in Int
    BY <1>4
  <2> HIDE DEF rows
  <2> QED
    BY <2>1, <2>2, RankCleaned
<1>8. ExportMoves'
  BY <1>1, <1>5, <1>6, <1>7 DEF ExportInv, ExportMoves
<1>9. ExportComplete'
  BY <1>1, <1>2 DEF ExportInv, ExportComplete
<1> QED
  BY <1>1, <1>3, <1>8, <1>9 DEF ExportInv

\* Time alone moves no row.
LEMMA TickInv ==
  ASSUME ExportInv, Tick
  PROVE  ExportInv'
<1>1. /\ now' = now + 1 /\ now < MaxTime
      /\ events' = events /\ export' = export /\ began' = began /\ late' = late /\ Seen' = Seen
      /\ UpTo(export.to)' = UpTo(export.to)
  BY DEF Tick, Seen, UpTo
<1>2. now' \in 1 .. MaxTime
  BY <1>1, ExportAssumption DEF ExportInv
<1> QED
  BY <1>1, <1>2 DEF ExportInv, ExportMoves, ExportComplete

\* An export begins with everything still to come.
LEMMA BeginInv ==
  ASSUME ExportInv, NEW to \in {now, now + 1}, Begin(to)
  PROVE  ExportInv'
<1>1. /\ now' = now /\ events' = events /\ late' = FALSE
      /\ export' = [state |-> "reading", to |-> to, offset |-> 0, all |-> << >>]
      /\ began' = UpTo(to)
  BY DEF Begin, NoExport
<1>2. MaxTime \in Nat \ {0} /\ PageSize \in Nat \ {0} /\ MaxOffset \in Nat
  BY ExportAssumption
<1>3. << >> \in Seq(Event) /\ Seen' = {}
  BY <1>1 DEF Seen, Range
<1>4. to \in 0 .. MaxTime + 1
  BY <1>2 DEF ExportInv
<1>5. export' \in [state : {"idle", "reading", "done", "tooLong"}, to : 0 .. MaxTime + 1,
                    offset : 0 .. MaxOffset + PageSize, all : Seq(Event)]
  BY <1>1, <1>2, <1>3, <1>4
<1>6. Table(events') /\ Table(UpTo(to)) /\ UpTo(to) = {e \in events : e.at <= to}
  <2>1. UpTo(to) \subseteq events
    BY DEF UpTo
  <2> QED
    BY <1>1, <2>1, PartOfTable DEF ExportInv, UpTo
<1>7. began' \subseteq Event /\ \A e \in began' \cup Seen' : e.at <= export'.to
  BY <1>1, <1>3, <1>6 DEF Table
<1>8. UpTo(export.to)' = UpTo(to)
  BY <1>1 DEF UpTo
<1>9. ExportMoves'
  <2>1. \A e \in UpTo(to) : Rank(UpTo(to), e) >= 0
    BY <1>6, RankBounds
  <2>2. export'.offset = 0
    BY <1>1
  <2> QED
    BY <1>1, <1>3, <1>8, <2>1, <2>2 DEF ExportMoves
<1>10. ExportComplete'
  BY <1>1 DEF ExportComplete
<1>11. export'.offset % PageSize = 0
  <2>1. export'.offset = 0
    BY <1>1
  <2> QED
    BY <1>2, <2>1
<1>12. \A i, j \in DOMAIN export'.all : export'.all[i] = export'.all[j] => i = j
  BY <1>1
<1>13. now' \in 1 .. MaxTime
  BY <1>1 DEF ExportInv
<1> QED
  BY <1>1, <1>5, <1>6, <1>7, <1>9, <1>10, <1>11, <1>12, <1>13 DEF ExportInv

---------------------------------------------------------------------------
\* Two sequences one after the other: what is in them, and when nothing is twice.
LEMMA Joined ==
  ASSUME NEW S, NEW s \in Seq(S), NEW t \in Seq(S)
  PROVE  /\ s \o t \in Seq(S)
         /\ Range(s \o t) = Range(s) \cup Range(t)
         /\ /\ \A i, j \in DOMAIN s : s[i] = s[j] => i = j
            /\ \A i, j \in DOMAIN t : t[i] = t[j] => i = j
            /\ Range(s) \cap Range(t) = {}
            => \A i, j \in DOMAIN (s \o t) : (s \o t)[i] = (s \o t)[j] => i = j
<1> DEFINE u == s \o t
<1>1. /\ u \in Seq(S) /\ Len(u) = Len(s) + Len(t) /\ Len(s) \in Nat /\ Len(t) \in Nat
      /\ DOMAIN s = 1 .. Len(s) /\ DOMAIN t = 1 .. Len(t) /\ DOMAIN u = 1 .. Len(u)
      /\ \A i \in 1 .. Len(s) + Len(t) : u[i] = IF i <= Len(s) THEN s[i] ELSE t[i - Len(s)]
  BY ConcatProperties
<1> HIDE DEF u
<1>2. \A i \in DOMAIN s : i \in DOMAIN u /\ u[i] = s[i]
  BY <1>1
<1>3. \A i \in DOMAIN t : i + Len(s) \in DOMAIN u /\ u[i + Len(s)] = t[i]
  BY <1>1
<1>4. \A i \in DOMAIN u :
        \/ i \in DOMAIN s /\ u[i] = s[i]
        \/ i - Len(s) \in DOMAIN t /\ u[i] = t[i - Len(s)]
  BY <1>1
<1>5. Range(u) = Range(s) \cup Range(t)
  BY <1>2, <1>3, <1>4 DEF Range
<1>6. ASSUME \A i, j \in DOMAIN s : s[i] = s[j] => i = j,
             \A i, j \in DOMAIN t : t[i] = t[j] => i = j,
             Range(s) \cap Range(t) = {},
             NEW i \in DOMAIN u, NEW j \in DOMAIN u, u[i] = u[j]
      PROVE  i = j
  <2>1. \A k \in DOMAIN s, l \in DOMAIN t : s[k] # t[l]
    BY <1>6 DEF Range
  <2>2. i \in Int /\ j \in Int
    BY <1>1
  <2> QED
    BY <1>1, <1>4, <1>6, <2>1, <2>2
<1> QED
  BY <1>1, <1>5, <1>6 DEF u

\* The next offset is a number of pages again.
LEMMA NextMultiple ==
  ASSUME NEW n \in Nat, NEW d \in Nat \ {0}, n % d = 0
  PROVE  (n + d) % d = 0
<1>1. PICK k \in Nat : n = k * d
  OBVIOUS
<1>2. n + d = (k + 1) * d
  BY <1>1
<1>3. ASSUME NEW a \in Nat, NEW b \in Nat, a = b * d PROVE a % d = 0
  BY <1>3
<1>4. k + 1 \in Nat /\ n + d \in Nat
  OBVIOUS
<1> QED
  BY <1>2, <1>3, <1>4

\* A page adds the rows that come next; one that is not full adds all that are left.
LEMMA NextPageInv ==
  ASSUME ExportInv, NextPage
  PROVE  ExportInv'
<1> DEFINE rows == UpTo(export.to)
           offset == export.offset
<1>1. /\ now' = now /\ events' = events /\ began' = began /\ late' = late
      /\ export.state = "reading"
  BY DEF NextPage
<1>2. /\ PageSize \in Nat \ {0} /\ MaxOffset \in Nat /\ MaxTime \in Nat
      /\ offset \in Nat /\ export.all \in Seq(Event)
  BY ExportAssumption DEF ExportInv
<1>3. /\ Table(rows)
      /\ \A e \in (began \cup Seen) \cap events : e \in rows
      /\ \A e \in rows : e.at <= export.to
  BY UpToTable
<1>4. CASE offset > MaxOffset
  <2>1. export' = [export EXCEPT !.state = "tooLong"]
    BY <1>4 DEF NextPage
  <2>2. /\ export'.state = "tooLong" /\ export'.to = export.to /\ export'.offset = export.offset
        /\ export'.all = export.all /\ Seen' = Seen
        /\ export' \in [state : {"idle", "reading", "done", "tooLong"}, to : 0 .. MaxTime + 1,
                        offset : 0 .. MaxOffset + PageSize, all : Seq(Event)]
    BY <2>1 DEF ExportInv, Seen
  <2>3. ExportMoves' /\ ExportComplete'
    BY <2>2 DEF ExportMoves, ExportComplete
  <2> QED
    BY <1>1, <2>2, <2>3 DEF ExportInv
<1>5. CASE offset <= MaxOffset
  <2>1. offset \in 0 .. MaxOffset
    BY <1>2, <1>5
  <2>2. PICK page \in Seq(rows) :
          /\ page = [i \in 1 .. Min({PageSize, Cardinality(rows) - offset}) |-> NthRow(rows, offset + i)]
          /\ Len(page) <= PageSize
          /\ \A i \in 1 .. Len(page) : Rank(rows, page[i]) = offset + i - 1
          /\ \A e \in rows : Rank(rows, e) >= offset =>
               \/ \E i \in 1 .. Len(page) : page[i] = e
               \/ Len(page) = PageSize /\ Rank(rows, e) >= offset + PageSize
    <3> HIDE DEF rows, offset
    <3> QED
      BY <1>3, <2>1, PageHolds
  <2>3. auditEvents(export.to, export.offset) = page
    <3>1. (IF export.offset > MaxOffset THEN MaxOffset ELSE export.offset) = export.offset
      BY <1>2, <1>5
    <3> QED
      BY <2>2, <3>1 DEF auditEvents
  <2>4. IF Len(page) < PageSize
        THEN export' = [export EXCEPT !.all = @ \o page, !.state = "done"]
        ELSE export' = [export EXCEPT !.all = @ \o page, !.offset = @ + PageSize]
    BY <1>2, <1>5, <2>3 DEF NextPage
  <2>5. /\ Len(page) <= PageSize
        /\ \A i \in 1 .. Len(page) : Rank(rows, page[i]) = offset + i - 1
        /\ \A e \in rows : Rank(rows, e) >= offset =>
             \/ \E i \in 1 .. Len(page) : page[i] = e
             \/ Len(page) = PageSize /\ Rank(rows, e) >= offset + PageSize
    BY <2>2
  <2> HIDE DEF rows, offset
  <2>6. DOMAIN page = 1 .. Len(page) /\ Len(page) \in Nat /\ \A i \in 1 .. Len(page) : page[i] \in rows
    BY LenProperties
  <2>7. Range(page) \subseteq rows
    BY <2>6 DEF Range
  <2>8. \A i, j \in DOMAIN page : page[i] = page[j] => i = j
    <3> SUFFICES ASSUME NEW i \in 1 .. Len(page), NEW j \in 1 .. Len(page), page[i] = page[j]
                 PROVE  i = j
      BY <2>6
    <3>1. offset + i - 1 = offset + j - 1
      BY <2>5
    <3>2. offset \in Int /\ i \in Int /\ j \in Int
      BY <1>2
    <3> QED
      BY <3>1, <3>2
  <2>9. \A e \in Range(page) : Rank(rows, e) \in offset .. offset + PageSize - 1
    <3>1. ASSUME NEW i \in 1 .. Len(page)
          PROVE  Rank(rows, page[i]) \in offset .. offset + PageSize - 1
      <4>1. Rank(rows, page[i]) = offset + i - 1 /\ Len(page) <= PageSize
        BY <2>5
      <4>2. offset + i - 1 \in offset .. offset + PageSize - 1
        <5>1. offset \in Nat /\ PageSize \in Nat /\ Len(page) \in Nat
          BY <1>2, <2>6
        <5> QED
          BY <4>1, <5>1
      <4> QED
        BY <4>1, <4>2
    <3> QED
      BY <2>6, <3>1 DEF Range
  <2>10. \A e \in rows : Rank(rows, e) >= offset =>
           \/ e \in Range(page)
           \/ Len(page) = PageSize /\ Rank(rows, e) >= offset + PageSize
    BY <2>5, <2>6 DEF Range
  <2>11. page \in Seq(Event)
    BY <1>3, SeqMonotonic DEF Table
  <2>12. \A e \in (began \cap events) \ Seen : e \in rows /\ Rank(rows, e) >= offset
    BY <1>1, <1>3 DEF ExportInv, ExportMoves, rows, offset
  <2>13. ~late => \A e \in Seen \cap events : Rank(rows, e) < offset
    BY <1>1 DEF ExportInv, ExportMoves, rows, offset
  <2>14. rows \subseteq events
    BY DEF rows, UpTo
  <2>15. ~late => Seen \cap Range(page) = {}
    <3> SUFFICES ASSUME ~late, NEW e \in Seen, e \in Range(page) PROVE FALSE
      OBVIOUS
    <3>1. Rank(rows, e) < offset /\ Rank(rows, e) \in offset .. offset + PageSize - 1
      BY <2>7, <2>9, <2>13, <2>14
    <3> QED
      BY <1>2, <3>1
  <2>16. /\ export.all \o page \in Seq(Event)
         /\ Range(export.all \o page) = Seen \cup Range(page)
    BY <1>2, <2>11, Joined DEF Seen
  <2>17. ~late => \A i, j \in DOMAIN (export.all \o page) :
                   (export.all \o page)[i] = (export.all \o page)[j] => i = j
    <3>1. ~late => \A i, j \in DOMAIN export.all : export.all[i] = export.all[j] => i = j
      BY DEF ExportInv
    <3> QED
      BY <1>2, <2>8, <2>11, <2>15, <3>1, Joined DEF Seen
  <2>18. PICK all \in Seq(Event) : all = export.all \o page
    BY <2>16
  <2>19. /\ Range(all) = Seen \cup Range(page)
         /\ ~late => \A i, j \in DOMAIN all : all[i] = all[j] => i = j
    BY <2>16, <2>17, <2>18
  <2>20. CASE Len(page) < PageSize
    <3>1. export' = [export EXCEPT !.all = all, !.state = "done"]
      BY <2>4, <2>18, <2>20
    <3>2. /\ export'.state = "done" /\ export'.to = export.to /\ export'.offset = export.offset
          /\ export'.all = all
          /\ export' \in [state : {"idle", "reading", "done", "tooLong"}, to : 0 .. MaxTime + 1,
                          offset : 0 .. MaxOffset + PageSize, all : Seq(Event)]
      BY <3>1 DEF ExportInv
    <3>3. Seen' = Seen \cup Range(page)
      BY <2>19, <3>2 DEF Seen
    <3>4. \A e \in began \cap events : e \in Seen'
      <4>1. Len(page) \in Int /\ PageSize \in Int
        BY <1>2, <2>6
      <4>2. Len(page) # PageSize
        BY <2>20, <4>1
      <4> QED
        BY <2>10, <2>12, <3>3, <4>2
    <3>5. ExportMoves' /\ ExportComplete'
      BY <1>1, <3>2, <3>4 DEF ExportMoves, ExportComplete, Seen
    <3>6. \A e \in began' \cup Seen' : e.at <= export'.to
      BY <1>1, <1>3, <2>7, <3>2, <3>3 DEF ExportInv, rows
    <3> QED
      BY <1>1, <2>19, <3>2, <3>5, <3>6 DEF ExportInv
  <2>21. CASE ~(Len(page) < PageSize)
    <3>1. export' = [export EXCEPT !.all = all, !.offset = @ + PageSize]
      BY <2>4, <2>18, <2>21
    <3>2. offset + PageSize \in 0 .. MaxOffset + PageSize
      BY <1>2, <1>5 DEF offset
    <3>3. /\ export'.state = "reading" /\ export'.to = export.to /\ export'.offset = offset + PageSize
          /\ export'.all = all
          /\ export' \in [state : {"idle", "reading", "done", "tooLong"}, to : 0 .. MaxTime + 1,
                          offset : 0 .. MaxOffset + PageSize, all : Seq(Event)]
      BY <1>1, <3>1, <3>2 DEF ExportInv, offset
    <3>4. Seen' = Seen \cup Range(page) /\ UpTo(export.to)' = rows
      BY <1>1, <2>19, <3>3 DEF Seen, UpTo, rows
    <3>5. \A e \in (began \cap events) \ Seen' : Rank(rows, e) >= offset + PageSize
      BY <2>10, <2>12, <3>4
    <3>6. ~late => \A e \in Seen' \cap events : Rank(rows, e) < offset + PageSize
      <4>1. ASSUME ~late, NEW e \in Seen' \cap events PROVE Rank(rows, e) < offset + PageSize
        <5>1. CASE e \in Seen
          <6>1. Rank(rows, e) < offset /\ e \in rows
            BY <1>3, <2>13, <4>1, <5>1 DEF rows
          <6>2. Rank(rows, e) \in Nat
            BY <1>3, <6>1, RankBounds DEF rows
          <6> QED
            BY <1>2, <6>1, <6>2
        <5>2. CASE e \in Range(page)
          BY <1>2, <2>9, <5>2
        <5> QED
          BY <3>4, <4>1, <5>1, <5>2
      <4> QED
        BY <4>1
    <3>7. ExportMoves' /\ ExportComplete'
      BY <1>1, <3>3, <3>4, <3>5, <3>6 DEF ExportMoves, ExportComplete
    <3>8. \A e \in began' \cup Seen' : e.at <= export'.to
      BY <1>1, <1>3, <2>7, <3>3, <3>4 DEF ExportInv, rows
    <3>9. export'.offset % PageSize = 0
      BY <1>2, <3>3, NextMultiple DEF ExportInv, offset
    <3> QED
      BY <1>1, <2>19, <3>3, <3>7, <3>8, <3>9 DEF ExportInv
  <2> QED
    BY <2>20, <2>21
<1> QED
  BY <1>2, <1>4, <1>5

\* Every step of the log and of the client keeps the invariant.
LEMMA ExportNextInv == ExportInv /\ [ExportNext]_exportVars => ExportInv'
<1> SUFFICES ASSUME ExportInv, [ExportNext]_exportVars PROVE ExportInv'
  OBVIOUS
<1>1. CASE UNCHANGED exportVars
  BY <1>1 DEF exportVars, ExportInv, ExportMoves, ExportComplete, Seen, UpTo
<1> QED
  BY <1>1, AuditInv, CleanupInv, TickInv, BeginInv, NextPageInv DEF ExportNext

\* What the invariant says of a whole export.
LEMMA ExportInvExact == ExportInv => ExportTypeOK /\ ExportExact
<1> SUFFICES ASSUME ExportInv PROVE ExportTypeOK /\ ExportExact
  OBVIOUS
<1>1. export.all \in Seq(Event) /\ \A i \in DOMAIN export.all : export.all[i] \in Seen
  BY DEF ExportInv, Seen, Range
<1>2. ExportTypeOK
  <2>1. \A i \in DOMAIN export.all : export.all[i] \in Event /\ export.all[i].at <= export.to
    BY <1>1 DEF ExportInv
  <2> QED
    BY <2>1 DEF ExportInv, ExportTypeOK, Table
<1>3. ASSUME ~late PROVE Cardinality(Range(export.all)) = Len(export.all)
  <2> DEFINE s == export.all
             n == Len(s)
  <2>1. n \in Nat /\ s \in [1 .. n -> Event] /\ DOMAIN s = 1 .. n
    BY <1>1, LenProperties
  <2> HIDE DEF s, n
  <2>2. s \in Surjection(1 .. n, Range(s))
    BY <2>1, Fun_RangeProperties
  <2>3. \A i, j \in 1 .. n : s[i] = s[j] => i = j
    BY <1>3, <2>1 DEF ExportInv, s
  <2>4. s \in [1 .. n -> Range(s)]
    BY <2>2, Fun_SurjectionProperties
  <2>5. s \in Injection(1 .. n, Range(s))
    BY <2>3, <2>4, Fun_IsInj
  <2>6. IsFiniteSet(1 .. n) /\ Cardinality(1 .. n) = n
    <3>1. /\ IsFiniteSet(1 .. n)
          /\ Cardinality(1 .. n) = IF 1 > n THEN 0 ELSE n - 1 + 1
      <4>1. 1 \in Int /\ n \in Int
        BY <2>1
      <4> QED
        BY <4>1, FS_Interval
    <3> QED
      BY <2>1, <3>1
  <2>7. Cardinality(Range(s)) = Cardinality(1 .. n)
    BY <2>2, <2>5, <2>6, FS_Surjection
  <2> QED
    BY <2>6, <2>7 DEF s, n
<1>4. ExportExact
  BY <1>3 DEF ExportInv, ExportExact, ExportOnce
<1> QED
  BY <1>2, <1>4

\* What an export that ended contains is everything that was there when it began and was
\* not cleaned since, and nothing twice unless a row came between those already read:
\* for any size of a page, any largest offset, and any clean-ups and insertions between
\* two pages.
THEOREM ExportIsExact == ExportSpec => []ExportExact
<1> QED
  BY ExportInitInv, ExportNextInv, ExportInvExact, PTL DEF ExportSpec

---------------------------------------------------------------------------
\* What is run from a command line keeps its types, whichever of the three moves.
THEOREM CommandsTypeCorrect == MCSpec => []CommandsTypeOK
<1> DEFINE Inv == LifeInv /\ ExportInv /\ ExecInv
<1>1. MCInit => Inv
  BY LifeInitInv, ExportInitInv, ExecInitInv DEF MCInit
<1>2. Inv /\ [MCNext]_<<lifeVars, exportVars, execVars>> => Inv'
  <2>1. LifeInv /\ [LifeNext]_lifeVars => LifeInv'
    BY LifeNextInv
  <2>2. ExportInv /\ [ExportNext]_exportVars => ExportInv'
    BY ExportNextInv
  <2>3. ExecInv /\ [ExecNext]_execVars => ExecInv'
    BY ExecNextInv
  <2> QED
    BY <2>1, <2>2, <2>3 DEF MCNext, MCLife, MCExport, MCExec
<1>3. Inv => CommandsTypeOK
  BY ExportInvExact DEF LifeInv, ExecInv, CommandsTypeOK
<1> QED
  BY <1>1, <1>2, <1>3, PTL DEF MCSpec
=============================================================================
