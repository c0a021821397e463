-------------------------- MODULE PidManagerProofs --------------------------
(***************************************************************************)
(* Proofs about PidManager, for any set of process numbers.                *)
(*                                                                         *)
(* FilesNameTheLiving needs, beside itself, that a process may remove the  *)
(* file that names it.  SingleInstance needs to know, of every place in    *)
(* pid_manager_init, what a process there has found out about the instance *)
(* that runs, if one does: see Alone.                                      *)
(***************************************************************************)
EXTENDS PidManager, TLAPS

\* Whom a file names, while nobody was killed, can remove it.
Removable ==
    ~killed => \A path \in Paths :
        file[path] \in Pids => MayWrite(file[path], path)

IsBusy(p) == IsStarting(p) \/ at[p] = "exiting"

\* Where the instances of one user write their numbers.
Place == IF users = {"root"} THEN "PID_FILE" ELSE "PID_FILE_ALT"

\* Past its check, a process knows that nobody runs.
Cleared == {"readingAlt", "unlinking", "opening", "writing", "watching"}

\* Instances of one user that could write their numbers, and of which no two
\* starts or ends have overlapped.
Alone ==
    /\ \A p \in Pids : IsBusy(p) \/ IsRunning(p) => users = {user[p]}
    /\ users = {"user"} => file["PID_FILE"] = Absent
    /\ \A p, q \in Pids : IsBusy(p) /\ IsBusy(q) => p = q
    /\ \A p, q \in Pids : IsRunning(p) /\ IsRunning(q) => p = q
    /\ \A p, q \in Pids : IsRunning(p) => at[q] \notin Cleared \cup {"exiting"}
    /\ \A p, q \in Pids : IsRunning(p) /\ at[q] = "checking" => old_pid[q] = p
    /\ \A p \in Pids : IsRunning(p) \/ at[p] = "watching" => file[Place] = p
    /\ \A p \in Pids : at[p] = "writing" => fp[p] = Place

IInv ==
    /\ TypeOK
    /\ FilesNameTheLiving
    /\ Removable
    /\ OneUser /\ ~raced /\ ~unwritten => Alone

-----------------------------------------------------------------------------
LEMMA Initially == Init => IInv
<1> SUFFICES ASSUME Init PROVE IInv
  OBVIOUS
<1>1. /\ \A p \in Pids : at[p] = "free" /\ fp[p] = "none"
      /\ \A path \in Paths : file[path] = Absent
  BY DEF Init
<1>2. Absent \notin Pids
  BY PidAssumption
<1>3. \A p \in Pids : ~IsBusy(p) /\ ~IsRunning(p) /\ at[p] \notin {"watching", "writing", "checking"}
  BY <1>1 DEF IsBusy, IsStarting, IsRunning, Starting
<1>4. TypeOK
  <2>1. at \in [Pids -> Places] /\ user \in [Pids -> Users]
    BY DEF Init, Places, Users
  <2>2. old_pid \in [Pids -> Pids \cup {Empty}] /\ fp \in [Pids -> Paths \cup {"none"}]
    BY DEF Init
  <2>3. file \in [Paths -> Pids \cup {Absent, Empty}]
    BY DEF Init
  <2>4. QED
    BY <1>1, <2>1, <2>2, <2>3 DEF Init, TypeOK
<1>5. FilesNameTheLiving /\ Removable
  BY <1>1, <1>2 DEF FilesNameTheLiving, Removable
<1>6. Alone
  BY <1>1, <1>3 DEF Alone, Paths
<1>7. QED
  BY <1>4, <1>5, <1>6 DEF IInv

-----------------------------------------------------------------------------
(***************************************************************************)
(* The type: a step changes a few places of the functions.                 *)
(***************************************************************************)
LEMMA TypeStep == TypeOK /\ [Next]_vars => TypeOK'
<1> SUFFICES ASSUME TypeOK, [Next]_vars PROVE TypeOK'
  OBVIOUS
<1> USE PidAssumption DEF TypeOK, Places, Starting, Paths, MayWrite, Goes, histories
<1>1. ASSUME NEW p \in Pids, NEW u \in users, Start(p, u) PROVE TypeOK'
  BY <1>1 DEF Start
<1>2. ASSUME NEW p \in Pids, NEW u \in Users, Stranger(p, u) PROVE TypeOK'
  BY <1>2 DEF Stranger
<1>3. ASSUME NEW p \in Pids, ReadPidFile(p) \/ ReadPidFileAlt(p) PROVE TypeOK'
  BY <1>3 DEF ReadPidFile, ReadPidFileAlt
<1>4. ASSUME NEW p \in Pids, Refuse(p) \/ FindStale(p) \/ InitDeathWatch(p) \/ StrangerEnds(p)
      PROVE  TypeOK'
  BY <1>4 DEF Refuse, FindStale, InitDeathWatch, StrangerEnds
<1>5. ASSUME NEW p \in Pids, RemoveStale(p) \/ Exit(p) \/ DeathWatch(p) PROVE TypeOK'
  <2>1. at' \in [Pids -> Places] /\ UNCHANGED <<users, user, old_pid, killed, unwritten>>
    BY <1>5 DEF RemoveStale, Exit, DeathWatch
  <2>2. raced' \in BOOLEAN
    BY <1>5 DEF RemoveStale, Exit, DeathWatch
  <2>3. Removed(p) /\ at[p] # "writing" /\ \A q \in Pids \ {p} : at'[q] = at[q]
    BY <1>5 DEF RemoveStale, Exit, DeathWatch, IsRunning
  <2>4. file' \in [Paths -> Pids \cup {Absent, Empty}]
    BY <2>3 DEF Removed
  <2>5. fp' \in [Pids -> Paths \cup {"none"}]
    BY <2>3 DEF Removed
  <2>6. \A q \in Pids : fp'[q] # "none" => fp'[q] = fp[q] /\ q # p
    BY <2>3 DEF Removed
  <2>7. (\A q \in Pids : fp[q] # "none" => at[q] = "writing" /\ MayWrite(q, fp[q]))'
    BY <2>1, <2>3, <2>6
  <2>8. QED
    BY <2>1, <2>2, <2>4, <2>5, <2>7
<1>6. ASSUME NEW p \in Pids, OpenPidFile(p) \/ OpenFails(p) PROVE TypeOK'
  BY <1>6 DEF OpenPidFile, OpenFails
<1>7. ASSUME NEW p \in Pids, WritePid(p) \/ WriteFails(p) PROVE TypeOK'
  <2>1. CASE WritePid(p)
    BY <2>1 DEF WritePid
  <2>2. CASE WriteFails(p)
    BY <2>2 DEF WriteFails
  <2>3. QED
    BY <1>7, <2>1, <2>2
<1>8. ASSUME NEW p \in Pids, Kill(p) PROVE TypeOK'
  BY <1>8 DEF Kill
<1>9. CASE UNCHANGED vars
  BY <1>9 DEF vars, process
<1>10. QED
  BY <1>1, <1>2, <1>3, <1>4, <1>5, <1>6, <1>7, <1>8, <1>9 DEF Next

\* Files only come to name a process that goes on to watch, and lose their
\* names before it ends.
LEMMA NamesStep ==
    TypeOK /\ FilesNameTheLiving /\ Removable /\ [Next]_vars => (FilesNameTheLiving /\ Removable)'
<1> SUFFICES ASSUME TypeOK, FilesNameTheLiving, Removable, [Next]_vars
             PROVE  (FilesNameTheLiving /\ Removable)'
  OBVIOUS
<1> DEFINE Names == (FilesNameTheLiving /\ Removable)'
<1> USE PidAssumption DEF TypeOK, FilesNameTheLiving, Removable, Paths, MayWrite, Goes, histories
<1>1. ASSUME NEW p \in Pids, NEW u \in users, Start(p, u) PROVE Names
  BY <1>1 DEF Start
<1>2. ASSUME NEW p \in Pids, NEW u \in Users, Stranger(p, u) PROVE Names
  BY <1>2 DEF Stranger
<1>3. ASSUME NEW p \in Pids, ReadPidFile(p) \/ ReadPidFileAlt(p) PROVE Names
  BY <1>3 DEF ReadPidFile, ReadPidFileAlt
<1>4. ASSUME NEW p \in Pids, Refuse(p) \/ FindStale(p) \/ InitDeathWatch(p) \/ StrangerEnds(p)
      PROVE  Names
  BY <1>4 DEF Refuse, FindStale, InitDeathWatch, StrangerEnds
<1>5. ASSUME NEW p \in Pids, RemoveStale(p) \/ Exit(p) \/ DeathWatch(p) PROVE Names
  BY <1>5 DEF RemoveStale, Exit, DeathWatch, Removed, IsRunning
<1>6. ASSUME NEW p \in Pids, OpenPidFile(p) \/ OpenFails(p) PROVE Names
  BY <1>6 DEF OpenPidFile, OpenFails
<1>7. ASSUME NEW p \in Pids, WritePid(p) \/ WriteFails(p) PROVE Names
  BY <1>7 DEF WritePid, WriteFails
<1>8. ASSUME NEW p \in Pids, Kill(p) PROVE Names
  BY <1>8 DEF Kill
<1>9. CASE UNCHANGED vars
  BY <1>9 DEF vars, process
<1>10. QED
  BY <1>1, <1>2, <1>3, <1>4, <1>5, <1>6, <1>7, <1>8, <1>9 DEF Next

-----------------------------------------------------------------------------
(***************************************************************************)
(* Alone.  A start that overlaps with nothing meets at most an instance    *)
(* that runs, whose number it reads and finds alive; an instance ends      *)
(* while nobody is past the check.                                         *)
(***************************************************************************)
LEMMA AloneStep ==
    ASSUME TypeOK, OneUser, Alone, ~raced', ~unwritten', [Next]_vars
    PROVE  Alone'
<1> USE PidAssumption DEF TypeOK, OneUser, Places, Starting, Paths, Users, Goes,
        histories, IsBusy, IsStarting, IsRunning, Cleared, Place
<1>1. ASSUME NEW p \in Pids, NEW u \in users, Start(p, u) PROVE Alone'
  <2>1. \A q \in Pids : ~IsBusy(q)
    BY <1>1, Zenon DEF Start
  <2>2. QED
    BY <1>1, <2>1 DEF Start, Alone
<1>2. ASSUME NEW p \in Pids, NEW u \in Users, Stranger(p, u) PROVE Alone'
  BY <1>2 DEF Stranger, Alone
<1>3. ASSUME NEW p \in Pids, ReadPidFile(p) PROVE Alone'
  BY <1>3 DEF ReadPidFile, Alone
<1>4. ASSUME NEW p \in Pids, ReadPidFileAlt(p) PROVE Alone'
  BY <1>4 DEF ReadPidFileAlt, Alone
<1>5. ASSUME NEW p \in Pids, Refuse(p) \/ InitDeathWatch(p) \/ StrangerEnds(p) PROVE Alone'
  BY <1>5 DEF Refuse, InitDeathWatch, StrangerEnds, Alone
<1>6. ASSUME NEW p \in Pids, FindStale(p) PROVE Alone'
  BY <1>6 DEF FindStale, Alive, Alone
<1>7. ASSUME NEW p \in Pids, RemoveStale(p) PROVE Alone'
  BY <1>7 DEF RemoveStale, Removed, MayWrite, Alone
<1>8. ASSUME NEW p \in Pids, OpenPidFile(p) \/ OpenFails(p) PROVE Alone'
  BY <1>8 DEF OpenPidFile, OpenFails, MayWrite, Alone
<1>9. ASSUME NEW p \in Pids, WritePid(p) \/ WriteFails(p) PROVE Alone'
  BY <1>9 DEF WritePid, WriteFails, Alone
<1>10. ASSUME NEW p \in Pids, Exit(p) PROVE Alone'
  BY <1>10 DEF Exit, Removed, MayWrite, Alone
<1>11. ASSUME NEW p \in Pids, DeathWatch(p) PROVE Alone'
  <2>1. \A q \in Pids : ~IsStarting(q)
    BY <1>11, Zenon DEF DeathWatch
  <2>2. QED
    BY <1>11, <2>1 DEF DeathWatch, Removed, MayWrite, Alone
<1>12. ASSUME NEW p \in Pids, Kill(p) PROVE Alone'
  BY <1>12 DEF Kill, Alone
<1>13. CASE UNCHANGED vars
  BY <1>13 DEF vars, process, Alone
<1>14. QED
  BY <1>1, <1>2, <1>3, <1>4, <1>5, <1>6, <1>7, <1>8, <1>9, <1>10, <1>11, <1>12, <1>13 DEF Next

\* The users are chosen once; an overlap and a failed write are not forgotten.
LEMMA Remembered ==
    [Next]_vars => users' = users /\ (raced => raced') /\ (unwritten => unwritten')
<1> DEFINE Kept == users' = users /\ (raced => raced') /\ (unwritten => unwritten')
<1> SUFFICES ASSUME [Next]_vars PROVE Kept
  OBVIOUS
<1>1. CASE UNCHANGED vars
  BY <1>1 DEF vars, histories
<1>2. ASSUME NEW p \in Pids, NEW u, Start(p, u) \/ DeathWatch(p) PROVE Kept
  <2>1. CASE Start(p, u)
    BY <2>1, Zenon DEF Start
  <2>2. CASE DeathWatch(p)
    BY <2>2, Zenon DEF DeathWatch
  <2>3. QED
    BY <1>2, <2>1, <2>2
<1>3. ASSUME NEW p \in Pids, WriteFails(p) \/ Kill(p) PROVE Kept
  BY <1>3 DEF WriteFails, Kill
<1>4. ASSUME NEW p \in Pids, NEW u,
             \/ Stranger(p, u) \/ ReadPidFile(p) \/ ReadPidFileAlt(p) \/ Refuse(p) \/ FindStale(p)
             \/ RemoveStale(p) \/ OpenPidFile(p) \/ OpenFails(p) \/ WritePid(p)
             \/ InitDeathWatch(p) \/ Exit(p) \/ StrangerEnds(p)
      PROVE  UNCHANGED <<users, histories>>
  BY <1>4 DEF Stranger, ReadPidFile, ReadPidFileAlt, Refuse, FindStale, RemoveStale,
        OpenPidFile, OpenFails, WritePid, InitDeathWatch, Exit, StrangerEnds
<1>5. QED
  BY <1>1, <1>2, <1>3, <1>4 DEF Next, histories

LEMMA Inductive == IInv /\ [Next]_vars => IInv'
  BY TypeStep, NamesStep, AloneStep, Remembered DEF IInv, OneUser

-----------------------------------------------------------------------------
(***************************************************************************)
(* pid_manager.c: a path is open for writing only by who is about to write *)
(* his number to it, and may.                                              *)
(***************************************************************************)
THEOREM Typed == Spec => []TypeOK
<1>1. IInv => TypeOK
  BY DEF IInv
<1>2. QED
  BY Initially, Inductive, <1>1, PTL DEF Spec

(***************************************************************************)
(* pid_manager_init: without SIGKILL a number in a file is that of an      *)
(* instance, for any number of processes and of overlapping starts and     *)
(* ends.                                                                   *)
(***************************************************************************)
THEOREM NamesTheLiving == Spec => []FilesNameTheLiving
<1>1. IInv => FilesNameTheLiving
  BY DEF IInv
<1>2. QED
  BY Initially, Inductive, <1>1, PTL DEF Spec

(***************************************************************************)
(* pid_manager_init keeps the instances of one user from running at a      *)
(* time, for any number of processes, kills and reused numbers, as long as *)
(* starts overlap neither with starts nor with ends and every instance     *)
(* could write its number.                                                 *)
(***************************************************************************)
THEOREM OneInstance == Spec => []SingleInstance
<1>1. IInv => SingleInstance
  BY DEF IInv, Alone, SingleInstance
<1>2. QED
  BY Initially, Inductive, <1>1, PTL DEF Spec
=============================================================================
