-------------------------- MODULE ProcessLifeProofs --------------------------
(***************************************************************************)
(* A running process keeps its files, for any names, process numbers,      *)
(* crashes, losses and resets.                                             *)
(***************************************************************************)
EXTENDS ProcessLife, TLAPS

Place == {"none", "init", "old", "unlink", "proc", "pid", "run", "ends"}

Types ==
  /\ pidFile \in [Name -> Pid \cup {NULL}]
  /\ procFile \in [Pid -> Name \cup {NULL}]
  /\ proc \in [Pid -> [at : Place, name : Name \cup {NULL}, old : Pid \cup {NULL}]]

\* The name of a process is its own, and so is its .pid file: what it has read
\* there is still there when it acts on it.
OwnName(p) ==
  /\ proc[p].at # "none" => proc[p].name \in Name
  /\ proc[p].at \in {"old", "unlink"} => proc[p].old \in Pid /\ proc[p].old = pidFile[proc[p].name]

\* The .proc file p is about to remove is not one that is in use, and no process
\* that starts can put it in use before it is removed.
Apart(p, q) ==
  p # q =>
    /\ proc[p].at # "none" /\ proc[q].at # "none" => proc[p].name # proc[q].name
    /\ proc[p].at \in Starting /\ proc[q].at \in Starting => pidFile[proc[p].name] # q

Unused(p) == proc[p].at = "unlink" => proc[proc[p].old].at \notin {"pid", "run"}

Filed(p) ==
  /\ proc[p].at \in {"pid", "run"} => procFile[p] = proc[p].name
  /\ proc[p].at = "run" => pidFile[proc[p].name] = p

Inv ==
  /\ Types
  /\ \A p \in Pid : OwnName(p) /\ Unused(p) /\ Filed(p)
  /\ \A p, q \in Pid : Apart(p, q)

\* At first there are neither processes nor files.
LEMMA InitInv == Init => Inv
  <1> SUFFICES ASSUME Init PROVE Inv
    OBVIOUS
  <1>1. Types
    BY DEF Init, Types, NoProc, Place
  <1>2. \A p \in Pid : proc[p].at = "none"
    BY DEF Init, NoProc
  <1> QED BY <1>1, <1>2 DEF Inv, OwnName, Unused, Filed, Apart, Starting

\* A process starts under a name nobody has, with a number nobody uses.
LEMMA InvStarts ==
  ASSUME Inv, NEW n \in Name, NEW p \in Pid, Starts(n, p)
  PROVE  Inv'
  <1>1. /\ Types' /\ UNCHANGED files
        /\ \A q \in Pid : proc'[q] = IF q = p THEN [at |-> "init", name |-> n, old |-> NULL] ELSE proc[q]
    BY DEF Inv, Types, Starts, Place, files
  <1>2. /\ \A q \in Pid : proc[q].name # n
        /\ \A q \in Pid : proc[q].at \in Starting => pidFile[proc[q].name] # p /\ pidFile[n] # q
        /\ proc[p].at = "none"
    BY DEF Starts
  <1>3. ASSUME NEW q \in Pid PROVE (OwnName(q) /\ Unused(q) /\ Filed(q))'
    <2>1. CASE q = p
      BY <1>1, <2>1 DEF OwnName, Unused, Filed
    <2>2. CASE q # p
      <3>1. proc'[q] = proc[q] /\ UNCHANGED <<pidFile, procFile>>
        BY <1>1, <2>2 DEF files
      <3>2. OwnName(q) /\ Unused(q) /\ Filed(q)
        BY DEF Inv
      <3>3. Unused(q)'
        BY <1>1, <3>1, <3>2 DEF Unused, OwnName
      <3> QED BY <3>1, <3>2, <3>3 DEF OwnName, Filed
    <2> QED BY <2>1, <2>2
  <1>4. ASSUME NEW q \in Pid, NEW r \in Pid PROVE Apart(q, r)'
    <2>1. Apart(q, r) /\ UNCHANGED pidFile
      BY <1>1 DEF Inv, files
    <2>2. CASE q = p
      BY <1>1, <1>2, <2>1, <2>2 DEF Apart
    <2>3. CASE q # p /\ r = p
      BY <1>1, <1>2, <2>1, <2>3 DEF Apart
    <2>4. CASE q # p /\ r # p
      BY <1>1, <2>1, <2>4 DEF Apart
    <2> QED BY <2>2, <2>3, <2>4
  <1> QED BY <1>1, <1>3, <1>4 DEF Inv

\* A step of p within its start that leaves the .pid files alone: what the others
\* rely on is that p does not come to use its .proc file by it.
LEMMA InvWithin ==
  ASSUME Inv, NEW p \in Pid, proc[p].at # "none", NEW old \in Pid \cup {NULL}, NEW place \in Place \ {"none"},
         Types', UNCHANGED pidFile, proc'[p] = [at |-> place, name |-> proc[p].name, old |-> old],
         \A q \in Pid \ {p} : proc'[q] = proc[q],
         place \in Starting => proc[p].at \in Starting,
         \A q \in Pid \ {p} : proc[q].at \in {"pid", "run"} => procFile'[q] = procFile[q],
         OwnName(p)', Unused(p)', Filed(p)',
         place \in {"pid", "run"} => \A q \in Pid \ {p} : proc[q].at = "unlink" => proc[q].old # p
  PROVE  Inv'
  <1>1. ASSUME NEW q \in Pid \ {p} PROVE (OwnName(q) /\ Unused(q) /\ Filed(q))'
    <2>1. proc'[q] = proc[q] /\ OwnName(q) /\ Unused(q) /\ Filed(q)
      BY <1>1 DEF Inv
    <2>2. OwnName(q)' /\ Filed(q)'
      BY <2>1 DEF OwnName, Filed
    <2>3. Unused(q)'
      <3>1. SUFFICES ASSUME proc[q].at = "unlink" PROVE proc'[proc[q].old].at \notin {"pid", "run"}
        BY <2>1 DEF Unused
      <3>2. proc[q].old \in Pid /\ proc[proc[q].old].at \notin {"pid", "run"}
        BY <2>1, <3>1 DEF OwnName, Unused
      <3> QED BY <3>1, <3>2
    <2> QED BY <2>2, <2>3
  <1>2. ASSUME NEW q \in Pid, NEW r \in Pid PROVE Apart(q, r)'
    <2>1. Apart(q, r)
      BY DEF Inv
    <2>2. /\ proc'[q].name = proc[q].name /\ (proc'[q].at # "none" => proc[q].at # "none")
          /\ (proc'[q].at \in Starting => proc[q].at \in Starting)
      OBVIOUS
    <2>3. /\ proc'[r].name = proc[r].name /\ (proc'[r].at # "none" => proc[r].at # "none")
          /\ (proc'[r].at \in Starting => proc[r].at \in Starting)
      OBVIOUS
    <2> QED BY <2>1, <2>2, <2>3 DEF Apart
  <1> QED BY <1>1, <1>2 DEF Inv

\* PROC_init reads the number its name had before.
LEMMA InvReadsPidFile ==
  ASSUME Inv, NEW p \in Pid, ReadsPidFile(p)
  PROVE  Inv'
  <1> DEFINE old == pidFile[proc[p].name]
             place == IF old = NULL THEN "proc" ELSE "old"
  <1>1. proc[p].name \in Name /\ old \in Pid \cup {NULL} /\ proc[p].at = "init"
    BY DEF Inv, OwnName, Types, ReadsPidFile
  <1>2. /\ Types' /\ UNCHANGED <<pidFile, procFile>>
        /\ proc'[p] = [at |-> place, name |-> proc[p].name, old |-> old]
        /\ \A q \in Pid \ {p} : proc'[q] = proc[q]
    BY <1>1 DEF Inv, Types, ReadsPidFile, Place, files
  <1>3. OwnName(p)' /\ Unused(p)' /\ Filed(p)'
    BY <1>1, <1>2 DEF OwnName, Unused, Filed
  <1>4. place \in {"proc", "old"}
    OBVIOUS
  <1> HIDE DEF place, old
  <1> QED BY <1>1, <1>2, <1>3, <1>4, InvWithin DEF Place, Starting

\* PROC_init decides from the .proc file whether it is a left-over of its own
\* name.
LEMMA InvReadsOldProcFile ==
  ASSUME Inv, NEW p \in Pid, ReadsOldProcFile(p)
  PROVE  Inv'
  <1> DEFINE old == proc[p].old
             place == IF procFile[old] = proc[p].name THEN "unlink" ELSE "proc"
  <1>1. proc[p].at = "old" /\ proc[p].name \in Name /\ old \in Pid /\ old = pidFile[proc[p].name]
    BY DEF Inv, OwnName, ReadsOldProcFile
  <1>2. /\ Types' /\ UNCHANGED <<pidFile, procFile>>
        /\ proc'[p] = [at |-> place, name |-> proc[p].name, old |-> old]
        /\ \A q \in Pid \ {p} : proc'[q] = proc[q]
    BY <1>1 DEF Inv, Types, ReadsOldProcFile, At, Place, files
  <1>3. place \in {"proc", "unlink"}
    OBVIOUS
  <1>4. OwnName(p)' /\ Filed(p)'
    BY <1>1, <1>2, <1>3 DEF OwnName, Filed
  <1>5. Unused(p)'
    <2>1. SUFFICES ASSUME place = "unlink" PROVE proc'[old].at \notin {"pid", "run"}
      BY <1>2 DEF Unused
    <2>2. CASE old = p
      BY <1>2, <2>1, <2>2
    <2>3. CASE old # p
      <3>1. Filed(old) /\ Apart(p, old) /\ procFile[old] = proc[p].name
        BY <1>1, <2>1 DEF Inv
      <3> QED BY <1>1, <1>2, <2>3, <3>1 DEF Filed, Apart
    <2> QED BY <2>2, <2>3
  <1> HIDE DEF place, old
  <1> QED BY <1>1, <1>2, <1>3, <1>4, <1>5, InvWithin DEF Place, Starting

\* The file removed is nobody's.
LEMMA InvUnlinksOld ==
  ASSUME Inv, NEW p \in Pid, UnlinksOld(p)
  PROVE  Inv'
  <1>1. proc[p].at = "unlink" /\ proc[p].old \in Pid /\ proc[proc[p].old].at \notin {"pid", "run"}
    BY DEF Inv, OwnName, Unused, UnlinksOld
  <1>2. /\ Types' /\ UNCHANGED pidFile
        /\ proc'[p] = [at |-> "proc", name |-> proc[p].name, old |-> proc[p].old]
        /\ \A q \in Pid \ {p} : proc'[q] = proc[q]
    BY <1>1 DEF Inv, Types, UnlinksOld, At, Place
  <1>3. \A q \in Pid : proc[q].at \in {"pid", "run"} => procFile'[q] = procFile[q]
    BY <1>1 DEF Inv, Types, UnlinksOld
  <1>4. OwnName(p)' /\ Unused(p)' /\ Filed(p)'
    BY <1>1, <1>2 DEF Inv, OwnName, Unused, Filed
  <1> QED BY <1>1, <1>2, <1>3, <1>4, InvWithin DEF Place, Starting

\* Nobody is about to remove the file written: whoever is has the number of its
\* own last instance in mind, and that is not one that starts.
LEMMA InvWritesProcFile ==
  ASSUME Inv, NEW p \in Pid, WritesProcFile(p)
  PROVE  Inv'
  <1>1. proc[p].at = "proc" /\ proc[p].name \in Name
    BY DEF Inv, OwnName, WritesProcFile
  <1>2. /\ Types' /\ UNCHANGED pidFile /\ procFile' = [procFile EXCEPT ![p] = proc[p].name]
        /\ proc'[p] = [at |-> "pid", name |-> proc[p].name, old |-> proc[p].old]
        /\ \A q \in Pid \ {p} : proc'[q] = proc[q]
    BY <1>1 DEF Inv, Types, WritesProcFile, At, Place
  <1>3. procFile'[p] = proc[p].name /\ \A q \in Pid \ {p} : procFile'[q] = procFile[q]
    BY <1>2 DEF Inv, Types
  <1>4. OwnName(p)' /\ Unused(p)' /\ Filed(p)'
    BY <1>1, <1>2, <1>3 DEF OwnName, Unused, Filed
  <1>5. ASSUME NEW q \in Pid \ {p}, proc[q].at = "unlink" PROVE proc[q].old # p
    BY <1>1, <1>5 DEF Inv, OwnName, Apart, Starting
  <1>6. proc[p].old \in Pid \cup {NULL}
    BY DEF Inv, Types
  <1> QED BY <1>1, <1>2, <1>3, <1>4, <1>5, <1>6, InvWithin DEF Place, Starting

\* The .proc file that is removed is nobody's who runs.
LEMMA InvRemovesProcFile ==
  ASSUME Inv, NEW p \in Pid, RemovesProcFile(p)
  PROVE  Inv'
  <1>1. proc[p].at = "run" /\ proc[p].name \in Name /\ proc[p].old \in Pid \cup {NULL}
    BY DEF Inv, OwnName, Types, RemovesProcFile
  <1>2. /\ Types' /\ UNCHANGED pidFile
        /\ proc'[p] = [at |-> "ends", name |-> proc[p].name, old |-> proc[p].old]
        /\ \A q \in Pid \ {p} : proc'[q] = proc[q] /\ procFile'[q] = procFile[q]
    BY <1>1 DEF Inv, Types, RemovesProcFile, At, Place
  <1>3. OwnName(p)' /\ Unused(p)' /\ Filed(p)'
    BY <1>1, <1>2 DEF OwnName, Unused, Filed
  <1> QED BY <1>1, <1>2, <1>3, InvWithin DEF Place, Starting

\* The .pid file of a name is written and removed by the process of that name
\* only, which then neither starts nor has another one beside it.
LEMMA InvPidFile ==
  ASSUME Inv, NEW p \in Pid, proc[p].at \in {"pid", "ends"}, Types', UNCHANGED procFile,
         NEW value \in {p, NULL}, pidFile' = [pidFile EXCEPT ![proc[p].name] = value],
         \A q \in Pid \ {p} : proc'[q] = proc[q],
         \/ proc'[p].at = "run" /\ proc'[p].name = proc[p].name /\ proc[p].at = "pid" /\ value = p
         \/ proc'[p].at = "none"
  PROVE  Inv'
  <1>1. proc[p].name \in Name
    BY DEF Inv, OwnName
  <1>2. \A n \in Name : pidFile'[n] = IF n = proc[p].name THEN value ELSE pidFile[n]
    BY DEF Inv, Types
  <1>3. ASSUME NEW q \in Pid \ {p}, proc[q].at # "none"
        PROVE  proc[q].name \in Name /\ pidFile'[proc[q].name] = pidFile[proc[q].name]
    BY <1>2, <1>3 DEF Inv, OwnName, Apart
  <1>4. OwnName(p)' /\ Unused(p)' /\ Filed(p)'
    BY <1>1, <1>2 DEF Inv, OwnName, Unused, Filed
  <1>5. ASSUME NEW q \in Pid \ {p} PROVE (OwnName(q) /\ Unused(q) /\ Filed(q))'
    <2>1. proc'[q] = proc[q] /\ OwnName(q) /\ Unused(q) /\ Filed(q)
      BY <1>5 DEF Inv
    <2>2. OwnName(q)' /\ Filed(q)'
      BY <1>3, <2>1 DEF OwnName, Filed
    <2>3. Unused(q)'
      <3>1. SUFFICES ASSUME proc[q].at = "unlink" PROVE proc'[proc[q].old].at \notin {"pid", "run"}
        BY <2>1 DEF Unused
      <3>2. proc[q].old \in Pid /\ proc[proc[q].old].at \notin {"pid", "run"}
        BY <2>1, <3>1 DEF OwnName, Unused
      <3> QED BY <3>1, <3>2
    <2> QED BY <2>2, <2>3
  <1>6. ASSUME NEW q \in Pid, NEW r \in Pid PROVE Apart(q, r)'
    <2>1. Apart(q, r)
      BY DEF Inv
    <2>2. proc'[p].at \notin Starting
      BY DEF Starting
    <2>3. CASE q = p
      BY <2>1, <2>2, <2>3 DEF Apart
    <2>4. CASE q # p
      <3>1. proc[q].at \in Starting => pidFile'[proc[q].name] = pidFile[proc[q].name]
        BY <1>3, <2>4 DEF Starting
      <3> QED BY <2>1, <2>2, <2>4, <3>1 DEF Apart
    <2> QED BY <2>3, <2>4
  <1> QED BY <1>4, <1>5, <1>6 DEF Inv

\* A death frees a number and leaves the files.
LEMMA InvDies ==
  ASSUME Inv, NEW p \in Pid, Types', UNCHANGED files, proc'[p] = NoProc,
         \A q \in Pid \ {p} : proc'[q] = proc[q]
  PROVE  Inv'
  <1>1. \A q \in Pid : proc'[q] = proc[q] \/ proc'[q].at = "none"
    BY DEF NoProc
  <1>2. ASSUME NEW q \in Pid PROVE (OwnName(q) /\ Unused(q) /\ Filed(q))'
    BY <1>1 DEF Inv, OwnName, Unused, Filed, files
  <1>3. ASSUME NEW q \in Pid, NEW r \in Pid PROVE Apart(q, r)'
    BY <1>1 DEF Inv, Apart, Starting, files
  <1> QED BY <1>2, <1>3 DEF Inv

\* The watchdog's side changes no file and no process.
LEMMA InvFrame ==
  ASSUME Inv, UNCHANGED <<files, proc>>
  PROVE  Inv'
  BY DEF Inv, Types, OwnName, Unused, Filed, Apart, files

\* Every step of every process and of the watchdog keeps the invariant.
LEMMA InvStep == Inv /\ [Next]_vars => Inv'
  <1> SUFFICES ASSUME Inv, [Next]_vars PROVE Inv'
    OBVIOUS
  <1>1. CASE UNCHANGED vars
    BY <1>1, InvFrame DEF vars
  <1>2. ASSUME NEW p \in Pid, WritesPidFile(p) PROVE Inv'
    <2>1. proc[p].at = "pid" /\ proc[p].name \in Name
      BY <1>2 DEF WritesPidFile, Inv, OwnName
    <2>2. /\ Types' /\ UNCHANGED procFile /\ pidFile' = [pidFile EXCEPT ![proc[p].name] = p]
          /\ proc'[p].at = "run" /\ proc'[p].name = proc[p].name
          /\ \A q \in Pid \ {p} : proc'[q] = proc[q]
      BY <1>2, <2>1 DEF Inv, Types, WritesPidFile, At, Place
    <2> QED BY <2>1, <2>2, InvPidFile
  <1>3. ASSUME NEW p \in Pid, RemovesPidFile(p) PROVE Inv'
    <2>1. proc[p].at = "ends" /\ proc[p].name \in Name
      BY <1>3 DEF RemovesPidFile, Inv, OwnName
    <2>2. /\ Types' /\ UNCHANGED procFile /\ pidFile' = [pidFile EXCEPT ![proc[p].name] = NULL]
          /\ proc'[p].at = "none" /\ \A q \in Pid \ {p} : proc'[q] = proc[q]
      BY <1>3, <2>1 DEF Inv, Types, RemovesPidFile, NoProc, Place
    <2> QED BY <2>1, <2>2, InvPidFile
  <1>4. ASSUME NEW p \in Pid, Dies(p) PROVE Inv'
    <2>1. Types' /\ UNCHANGED files /\ proc'[p] = NoProc /\ \A q \in Pid \ {p} : proc'[q] = proc[q]
      BY <1>4 DEF Inv, Types, Dies, NoProc, Place, files
    <2> QED BY <2>1, InvDies
  <1>5. CASE /\ ~UNCHANGED vars /\ ~UNCHANGED <<files, proc>>
    <2>1. ~WatchdogResets /\ \A m \in net : ~Answers(m) /\ ~Registers(m) /\ ~Lost(m)
      BY <1>5 DEF WatchdogResets, Answers, Registers, Lost
    <2>2. \A p \in Pid : ~validate_watch_registration(p) /\ \A m \in net : ~watchdog_reg_info(p, m)
      BY <1>5 DEF validate_watch_registration, watchdog_reg_info
    <2> QED BY <1>2, <1>3, <1>4, <1>5, <2>1, <2>2, InvStarts, InvReadsPidFile, InvReadsOldProcFile,
               InvUnlinksOld, InvWritesProcFile, InvRemovesProcFile DEF Next
  <1> QED BY <1>1, <1>5, InvFrame

\* A process that runs is found by its name and by its number, whatever other
\* processes start, end or die beside it.
THEOREM RunningFound == Spec => []RunningListed
  <1>1. Inv /\ [Next]_vars => Inv'
    BY InvStep
  <1>2. Inv => RunningListed
    BY DEF Inv, Filed, RunningListed
  <1> QED BY <1>1, <1>2, InitInv, PTL DEF Spec
=============================================================================
