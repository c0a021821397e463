----------------------------- MODULE PidManager -----------------------------
(***************************************************************************)
(* The pid file of core/src/cli/pid_manager.c and the processes that start *)
(* and end with it: pid_manager_init reads the file, asks whether the      *)
(* process it names is alive, writes its own number and installs the       *)
(* handlers that remove the file.                                          *)
(*                                                                         *)
(* Every access to a file, and kill, is a step, and others take theirs in  *)
(* between; only the two unlinks of remove_pid_file are one.  A caller     *)
(* that is refused ends.  A process can be killed at any step, its number  *)
(* be given to another program or to a new instance, and the files it      *)
(* leaves stay.                                                            *)
(*                                                                         *)
(* root can do everything.  Anybody else cannot write or remove PID_FILE,  *)
(* which is in /var/run, nor what root has put in /tmp, and for him kill   *)
(* fails on the processes of root.                                         *)
(***************************************************************************)
EXTENDS Naturals

CONSTANTS Pids,
          Absent, Empty,    \* a path without a file, a file without a number
          AllUsers          \* the sets of users that may start instances

Users == {"root", "user"}
Paths == {"PID_FILE", "PID_FILE_ALT"}

ASSUME PidAssumption ==
    /\ {Absent, Empty} \cap Pids = {} /\ Absent # Empty
    /\ AllUsers \subseteq SUBSET Users

VARIABLES users,    \* who starts instances
          at,       \* of each process: where in pid_manager_init it is
          user,     \* whose it is
          old_pid,  \* what it has read
          fp,       \* the path of the file it has open for writing
          file,     \* what is at each path
          raced,    \* did a start ever overlap with another, or with an end?
          killed,   \* was a process ever killed?
          unwritten \* did a process ever fail to write its number?

process == <<at, user, old_pid, fp>>
histories == <<raced, killed, unwritten>>
vars == <<users, process, file, histories>>

Starting == {"reading", "readingAlt", "checking", "unlinking", "opening", "writing", "watching"}
Places == {"free", "stranger", "running", "exiting"} \cup Starting

IsStarting(p) == at[p] \in Starting
IsRunning(p) == at[p] = "running"

MayWrite(p, path) == user[p] = "root" \/ path = "PID_FILE_ALT"

\* kill(pid, 0) == 0.  Strangers count too.
Alive(p, pid) == at[pid] # "free" /\ (user[p] = "root" \/ user[pid] = user[p])

\* remove_pid_file.  Who has the file open writes to a file without a name.
Removed(p) ==
    /\ file' = [path \in Paths |-> IF MayWrite(p, path) THEN Absent ELSE file[path]]
    /\ fp' = [q \in Pids |-> IF fp[q] # "none" /\ MayWrite(p, fp[q]) THEN "none" ELSE fp[q]]

Goes(p, to) == at' = [at EXCEPT ![p] = to]

-----------------------------------------------------------------------------
\* Mistakes the code could have made; each violates a property below.
RefuseWatched(p) ==             \* the exit handler registered before the check
    /\ at[p] = "checking" /\ old_pid[p] \in Pids
    /\ Alive(p, old_pid[p])
    /\ Removed(p)
    /\ Goes(p, "free")
    /\ UNCHANGED <<users, user, old_pid, histories>>

ExitLeaving(p) ==               \* nothing registered with atexit
    /\ IsRunning(p) \/ at[p] = "exiting"
    /\ Goes(p, "free")
    /\ UNCHANGED <<users, user, old_pid, fp, file, histories>>

-----------------------------------------------------------------------------
Init ==
    /\ users \in AllUsers
    /\ at = [p \in Pids |-> "free"]
    /\ user = [p \in Pids |-> "root"]
    /\ old_pid = [p \in Pids |-> Empty]
    /\ fp = [p \in Pids |-> "none"]
    /\ file = [path \in Paths |-> Absent]
    /\ raced = FALSE /\ killed = FALSE /\ unwritten = FALSE

\* A process starts, and calls pid_manager_init.
Start(p, u) ==
    /\ at[p] = "free"
    /\ Goes(p, "reading")
    /\ user' = [user EXCEPT ![p] = u]
    /\ raced' = (raced \/ \E q \in Pids : IsStarting(q) \/ at[q] = "exiting")
    /\ UNCHANGED <<users, old_pid, fp, file, killed, unwritten>>

\* read_pid_file(PID_FILE): the other file when there is none.
ReadPidFile(p) ==
    /\ at[p] = "reading"
    /\ LET path == IF file["PID_FILE"] = Absent THEN "PID_FILE_ALT" ELSE "PID_FILE" IN
       \/ /\ file[path] \in Pids
          /\ old_pid' = [old_pid EXCEPT ![p] = file[path]]
          /\ Goes(p, "checking")
       \/ /\ file[path] \notin Pids
          /\ old_pid' = [old_pid EXCEPT ![p] = Empty]
          /\ Goes(p, "readingAlt")
    /\ UNCHANGED <<users, user, fp, file, histories>>

\* read_pid_file(PID_FILE_ALT), after -1.
ReadPidFileAlt(p) ==
    /\ at[p] = "readingAlt"
    /\ old_pid' = [old_pid EXCEPT ![p] =
           IF file["PID_FILE_ALT"] \in Pids THEN file["PID_FILE_ALT"] ELSE Empty]
    /\ Goes(p, "checking")
    /\ UNCHANGED <<users, user, fp, file, histories>>

\* Another instance is already running.
Refuse(p) ==
    /\ at[p] = "checking" /\ old_pid[p] \in Pids
    /\ Alive(p, old_pid[p])
    /\ Goes(p, "free")
    /\ UNCHANGED <<users, user, old_pid, fp, file, histories>>

FindStale(p) ==
    /\ at[p] = "checking"
    /\ \/ /\ old_pid[p] \in Pids /\ ~Alive(p, old_pid[p])
          /\ Goes(p, "unlinking")
       \/ /\ old_pid[p] = Empty
          /\ Goes(p, "opening")
    /\ UNCHANGED <<users, user, old_pid, fp, file, histories>>

RemoveStale(p) ==
    /\ at[p] = "unlinking"
    /\ Removed(p)
    /\ Goes(p, "opening")
    /\ UNCHANGED <<users, user, old_pid, histories>>

\* fopen(filename, "w"), or the other file.
OpenPidFile(p) ==
    LET path == IF MayWrite(p, "PID_FILE") THEN "PID_FILE" ELSE "PID_FILE_ALT" IN
    /\ at[p] = "opening"
    /\ fp' = [fp EXCEPT ![p] = path]
    /\ file' = [file EXCEPT ![path] = Empty]
    /\ Goes(p, "writing")
    /\ UNCHANGED <<users, user, old_pid, histories>>

\* Neither file can be opened: pid_manager_init returns -1.
OpenFails(p) ==
    /\ at[p] = "opening"
    /\ Goes(p, "free")
    /\ UNCHANGED <<users, user, old_pid, fp, file, histories>>

WritePid(p) ==
    /\ at[p] = "writing"
    /\ file' = IF fp[p] = "none" THEN file ELSE [file EXCEPT ![fp[p]] = p]
    /\ fp' = [fp EXCEPT ![p] = "none"]
    /\ Goes(p, "watching")
    /\ UNCHANGED <<users, user, old_pid, histories>>

\* Nobody looks whether fprintf and fclose succeed: the file stays empty.
WriteFails(p) ==
    /\ at[p] = "writing"
    /\ fp' = [fp EXCEPT ![p] = "none"]
    /\ unwritten' = TRUE
    /\ Goes(p, "watching")
    /\ UNCHANGED <<users, user, old_pid, file, raced, killed>>

InitDeathWatch(p) ==
    /\ at[p] = "watching"
    /\ Goes(p, "running")
    /\ UNCHANGED <<users, user, old_pid, fp, file, histories>>

\* exit: the function registered with atexit.
Exit(p) ==
    /\ IsRunning(p) \/ at[p] = "exiting"
    /\ Removed(p)
    /\ Goes(p, "free")
    /\ UNCHANGED <<users, user, old_pid, histories>>

\* SIGTERM, SIGINT or SIGHUP: the handler removes the file, then calls exit,
\* which removes it again.
DeathWatch(p) ==
    /\ IsRunning(p)
    /\ Removed(p)
    /\ Goes(p, "exiting")
    /\ raced' = (raced \/ \E q \in Pids : IsStarting(q))
    /\ UNCHANGED <<users, user, old_pid, killed, unwritten>>

\* SIGKILL, or any signal before there are handlers.
Kill(p) ==
    /\ at[p] \notin {"free", "stranger"}
    /\ Goes(p, "free")
    /\ fp' = [fp EXCEPT ![p] = "none"]
    /\ killed' = TRUE
    /\ UNCHANGED <<users, user, old_pid, file, raced, unwritten>>

\* Another program gets the number, and ends.
Stranger(p, u) ==
    /\ at[p] = "free"
    /\ Goes(p, "stranger")
    /\ user' = [user EXCEPT ![p] = u]
    /\ UNCHANGED <<users, old_pid, fp, file, histories>>

StrangerEnds(p) ==
    /\ at[p] = "stranger"
    /\ Goes(p, "free")
    /\ UNCHANGED <<users, user, old_pid, fp, file, histories>>

Next ==
    \E p \in Pids :
        \/ \E u \in users : Start(p, u)
        \/ \E u \in Users : Stranger(p, u)
        \/ ReadPidFile(p) \/ ReadPidFileAlt(p) \/ Refuse(p) \/ FindStale(p) \/ RemoveStale(p)
        \/ OpenPidFile(p) \/ OpenFails(p) \/ WritePid(p) \/ WriteFails(p)
        \/ InitDeathWatch(p) \/ DeathWatch(p) \/ Exit(p) \/ Kill(p) \/ StrangerEnds(p)

Spec == Init /\ [][Next]_vars

-----------------------------------------------------------------------------
\* An open file has its name, and a number is written by whoever may.
TypeOK ==
    /\ users \in AllUsers
    /\ at \in [Pids -> Places] /\ user \in [Pids -> Users]
    /\ old_pid \in [Pids -> Pids \cup {Empty}]
    /\ fp \in [Pids -> Paths \cup {"none"}]
    /\ file \in [Paths -> Pids \cup {Absent, Empty}]
    /\ raced \in BOOLEAN /\ killed \in BOOLEAN /\ unwritten \in BOOLEAN
    /\ \A p \in Pids : fp[p] # "none" => at[p] = "writing" /\ MayWrite(p, fp[p])

OneUser == users \in {{"root"}, {"user"}}

(***************************************************************************)
(* Of one user, two instances do not run at a time, whoever was killed     *)
(* before, at whatever step, and whoever has the numbers of the dead:      *)
(* unless two starts have overlapped, or a start and the end of another,   *)
(* which removes the file a second time, or an instance could not write    *)
(* its number and is found by nobody.  (Two users can each have an         *)
(* instance: for one of them the other's is not alive.)                    *)
(***************************************************************************)
SingleInstance ==
    OneUser /\ ~raced /\ ~unwritten =>
        \A p, q \in Pids : IsRunning(p) /\ IsRunning(q) => p = q

(***************************************************************************)
(* As long as no process is killed, no start is ever refused because of a  *)
(* number that outlived its process: what the files name is an instance    *)
(* that runs, or is about to, however starts, refusals and ends overlap.   *)
(***************************************************************************)
FilesNameTheLiving ==
    ~killed => \A path \in Paths :
        file[path] \in Pids => at[file[path]] \in {"watching", "running"}
=============================================================================
