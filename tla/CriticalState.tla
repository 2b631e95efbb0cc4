---------------------------- MODULE CriticalState ----------------------------
(***************************************************************************)
(* src/critical.c: the redundant storage behind PROC_save_critical_state   *)
(* and PROC_read_critical_state.  Each save writes a new file for each of  *)
(* two prefixes, with several checksummed copies of the state in it; old   *)
(* files are unlinked from time to time, and a restart loads the entry     *)
(* with the highest sequence number.                                       *)
(*                                                                         *)
(* The states saved are told apart by the number of the save (1, 2, ...),  *)
(* so "newer" is "greater"; 0 stands for memory whose checksum is wrong,   *)
(* which is also what a process starts with.  mkstemp makes every file     *)
(* name unique, so a file is identified by its prefix and its save.        *)
(***************************************************************************)
EXTENDS Integers, FiniteSets, FiniteSetsExt

CONSTANTS NUM_COPIES, CLEANUP_INTERVAL,
          MaxSaves,  \* bound: the number of saves
          MaxFlips,  \* bound: the number of copies damaged on the disk
          MaxCrashes, \* bound: the number of crashes
          Faults     \* what else may go wrong

ASSUME CriticalAssumption ==
  /\ NUM_COPIES \in Nat \ {0} /\ CLEANUP_INTERVAL \in Nat
  /\ MaxSaves \in Nat /\ MaxFlips \in Nat /\ MaxCrashes \in Nat
  /\ Faults \subseteq {"write", "opendir", "memory"}

CRITICAL_STATE_NUM_FILES == 2
File == 1..CRITICAL_STATE_NUM_FILES

VARIABLES disk,    \* the files: [pre, save, seq, good: copies that are intact]
          cs,      \* struct CSState, zeroed while no process runs
          pc, i,   \* where the process is, and the index of the file it is at
          copies,  \* write_cs_file's count of copies written
          saves,   \* the number of saves begun
          acked,   \* the last save that was reported as done
          whole,   \* the last save both of whose files were written
          got,     \* what the last read returned
          flips, crashes

ghosts == <<got, flips, crashes>>
vars == <<disk, cs, pc, i, copies, saves, acked, whole, ghosts>>

Zeroed == [version |-> 0, state |-> 0, dirty |-> FALSE,
           curr_file |-> [p \in File |-> 0], generation |-> [p \in File |-> 0]]

Init ==
  /\ disk = {} /\ cs = Zeroed /\ pc = "down" /\ i = 1 /\ copies = 0
  /\ saves = 0 /\ acked = 0 /\ whole = 0 /\ got = 0 /\ flips = 0 /\ crashes = 0

Of(p) == {f \in disk : f.pre = p}
-----------------------------------------------------------------------------
(* Loading.  The order of readdir is arbitrary.  Entries older than what   *)
(* is loaded are refused, equal ones accepted without being copied: the    *)
(* state comes from the first of the newest files met, and curr_file ends  *)
(* as the last of them.  The operators give the set of possible outcomes.  *)

\* Mutant: the last intact file of the directory wins, whatever its version.
process_critical_entry_Any(c, p) ==
  {[c EXCEPT !.version = f.seq, !.state = f.save, !.curr_file[p] = f.save]
     : f \in {g \in Of(p) : g.good > 0}}

process_critical_entry(c, p) ==
  LET intact == {f \in Of(p) : f.good > 0 /\ f.seq >= c.version}
      newest == {f \in intact : \A g \in intact : g.seq <= f.seq}
  IN {[c EXCEPT !.version = f.seq, !.curr_file[p] = l.save,
                !.state = IF f.seq > c.version THEN f.save ELSE @]
        : f \in newest, l \in newest}

\* A directory that cannot be opened, or has nothing new, changes nothing.
load_critical_state_directory(c, p) ==
  LET found == process_critical_entry(c, p)
  IN (IF found = {} THEN {c} ELSE found)
       \cup (IF "opendir" \in Faults THEN {c} ELSE {})

load_critical_state(c) ==
  UNION {load_critical_state_directory([d EXCEPT !.dirty = FALSE], 2)
           : d \in load_critical_state_directory([c EXCEPT !.version = 0], 1)}
-----------------------------------------------------------------------------
(* cleanup_old_state unlinks every file of the prefix but curr_file.  A    *)
(* crash may leave any part of them.                                       *)

Cleaning == pc \in {"init", "exit", "trim"}
Old(c, p) == IF c.curr_file[p] = 0 THEN {}
             ELSE {f \in Of(p) : f.save # c.curr_file[p]}

\* The set of possible outcomes: the files, and c.
cleanup_old_state(c, p) ==
  {<<disk \ Old(c, p),
     IF c.curr_file[p] = 0 THEN c ELSE [c EXCEPT !.generation[p] = 0]>>}
    \cup (IF "opendir" \in Faults THEN {<<disk, c>>} ELSE {})

\* The rest of PROC_save_critical_state once file p is dealt with.
Proceed(p, c) ==
  IF p < CRITICAL_STATE_NUM_FILES
  THEN pc' = "create" /\ i' = p + 1 /\ cs' = c /\ UNCHANGED <<acked, whole>>
  ELSE /\ pc' = "idle" /\ i' = 1 /\ cs' = [c EXCEPT !.state = saves]
       /\ acked' = saves /\ whole' = IF c.curr_file[p] = saves THEN saves ELSE whole
-----------------------------------------------------------------------------
critical_state_init ==
  /\ pc = "down"
  /\ cs' \in load_critical_state(Zeroed)
  /\ pc' = "init" /\ i' = 1
  /\ UNCHANGED <<disk, copies, saves, acked, whole, ghosts>>

\* The loops over the files at the end of critical_state_init and at the start
\* of critical_state_cleanup, which then forgets the names.
CleanupFile ==
  /\ pc \in {"init", "exit"}
  /\ LET last == i = CRITICAL_STATE_NUM_FILES
     IN /\ \E r \in cleanup_old_state(cs, i) :
             disk' = r[1] /\ cs' = IF last /\ pc = "exit" THEN Zeroed ELSE r[2]
        /\ i' = IF last THEN 1 ELSE i + 1
        /\ pc' = CASE ~last -> pc [] pc = "init" -> "idle" [] OTHER -> "down"
  /\ UNCHANGED <<copies, saves, acked, whole, ghosts>>

critical_state_cleanup ==
  /\ pc = "idle" /\ pc' = "exit"
  /\ UNCHANGED <<disk, cs, i, copies, saves, acked, whole, ghosts>>

PROC_save_critical_state ==
  /\ pc = "idle" /\ saves < MaxSaves
  /\ saves' = saves + 1
  /\ cs' = [cs EXCEPT !.version = @ + 1]
  /\ pc' = "create" /\ i' = 1
  /\ UNCHANGED <<disk, copies, acked, whole, ghosts>>

Writing == {f \in disk : f.pre = i /\ f.save = saves}

Create ==
  /\ pc = "create"
  /\ disk' = disk \cup {[pre |-> i, save |-> saves, seq |-> cs.version, good |-> 0]}
  /\ pc' = "write" /\ copies' = 0
  /\ UNCHANGED <<cs, i, saves, acked, whole, ghosts>>

WriteCopy ==
  /\ pc = "write" /\ copies < NUM_COPIES
  /\ copies' = copies + 1
  /\ disk' = (disk \ Writing) \cup {[f EXCEPT !.good = @ + 1] : f \in Writing}
  /\ UNCHANGED <<cs, pc, i, saves, acked, whole, ghosts>>

\* mkstemp or write fails: the file is unlinked.  The first file failing fails
\* the save, a later one marks the state dirty.
WriteFails ==
  /\ "write" \in Faults
  /\ pc = "create" \/ (pc = "write" /\ copies < NUM_COPIES)
  /\ disk' = disk \ Writing /\ copies' = 0
  /\ IF i = 1 THEN pc' = "idle" /\ UNCHANGED <<cs, i, acked, whole>>
              ELSE Proceed(i, [cs EXCEPT !.dirty = TRUE])
  /\ UNCHANGED <<saves, ghosts>>

\* Mutant: the new file is not made the current one.
CloseFile_Forget ==
  /\ pc = "write" /\ copies = NUM_COPIES /\ copies' = 0
  /\ LET c == [cs EXCEPT !.generation[i] = @ + 1]
     IN IF c.generation[i] > CLEANUP_INTERVAL
        THEN pc' = "trim" /\ cs' = c /\ UNCHANGED <<i, acked, whole>>
        ELSE Proceed(i, c)
  /\ UNCHANGED <<disk, saves, ghosts>>

CloseFile ==
  /\ pc = "write" /\ copies = NUM_COPIES /\ copies' = 0
  /\ LET c == [cs EXCEPT !.curr_file[i] = saves, !.generation[i] = @ + 1]
     IN IF c.generation[i] > CLEANUP_INTERVAL
        THEN pc' = "trim" /\ cs' = c /\ UNCHANGED <<i, acked, whole>>
        ELSE Proceed(i, c)
  /\ UNCHANGED <<disk, saves, ghosts>>

Trim ==
  /\ pc = "trim"
  /\ \E r \in cleanup_old_state(cs, i) : disk' = r[1] /\ Proceed(i, r[2])
  /\ UNCHANGED <<copies, saves, ghosts>>

\* A wrong checksum makes the read load again; if it is still wrong the read
\* fails, which got = 0 stands for.
PROC_read_critical_state ==
  /\ pc = "idle"
  /\ \E c \in IF cs.dirty THEN load_critical_state(cs) ELSE {cs} :
       cs' \in IF c.state = 0 THEN load_critical_state(c) ELSE {c}
  /\ got' = cs'.state
  /\ UNCHANGED <<disk, pc, i, copies, saves, acked, whole, flips, crashes>>
-----------------------------------------------------------------------------
(* The environment.                                                        *)

Crash ==
  /\ crashes < MaxCrashes /\ crashes' = crashes + 1 /\ pc # "down"
  /\ \E gone \in SUBSET (IF Cleaning THEN Old(cs, i) ELSE {}) : disk' = disk \ gone
  /\ cs' = Zeroed /\ pc' = "down" /\ i' = 1 /\ copies' = 0
  /\ UNCHANGED <<saves, acked, whole, got, flips>>

DamageMemory ==
  /\ "memory" \in Faults /\ pc = "idle" /\ cs.state # 0
  /\ cs' = [cs EXCEPT !.state = 0]
  /\ UNCHANGED <<disk, pc, i, copies, saves, acked, whole, ghosts>>

DamageCopy ==
  /\ flips < MaxFlips /\ flips' = flips + 1
  /\ \E f \in disk : f.good > 0 /\ disk' = (disk \ {f}) \cup {[f EXCEPT !.good = @ - 1]}
  /\ UNCHANGED <<cs, pc, i, copies, saves, acked, whole, got, crashes>>

Next ==
  \/ critical_state_init \/ CleanupFile \/ critical_state_cleanup
  \/ PROC_save_critical_state \/ Create \/ WriteCopy \/ WriteFails \/ CloseFile
  \/ Trim \/ PROC_read_critical_state \/ Crash \/ DamageMemory \/ DamageCopy

Spec == Init /\ [][Next]_vars
-----------------------------------------------------------------------------
\* The files whose entries a load of the whole storage would take.
Newest == LET intact == {f \in disk : f.good > 0}
          IN {f \in intact : \A g \in intact : g.seq <= f.seq}

\* What must survive: a save that was reported as done, and, when a copy on
\* the disk is damaged as well, at least one that both files were written for.
Floor == IF flips = 0 THEN acked ELSE whole

\* A save that PROC_save_critical_state reported as done survives: whatever
\* crash, failing write or cleanup happens next, the storage holds an intact
\* copy of it or of a newer save, and loading takes it before any older one.
\* A single damaged copy is tolerated unless the second file was not written.
Durable == Floor # 0 => Newest # {} /\ \A f \in Newest : f.save >= Floor

\* PROC_read_critical_state never returns a state older than the last save that
\* must survive nor, with an undamaged disk, one older than an earlier read
\* returned, also when the process was restarted in between.
ReadsLatest == [][PROC_read_critical_state => got' >= Floor /\ (flips = 0 => got' >= got)]_vars
=============================================================================
