------------------------------- MODULE Daemon -------------------------------
(***************************************************************************)
(* core/canna_daemon.cpp: servers that are started at any time turn into   *)
(* daemons, of which the lock on the pid file lets one run. NameServer     *)
(* puts the server behind it.                                              *)
(***************************************************************************)
EXTENDS Integers, Sequences

CONSTANTS
  Pids,       \* process ids, each the sequence of its digits
  EndOfLine,  \* the character after the pid in the file
  NoPid,
  MaxFaults,  \* BOUND: times in a run that the system refuses what it is asked
              \* or a process is killed before it is a daemon
  MaxStarts   \* BOUND: servers started in a run

VARIABLES
  pc,      \* where each process is in daemon_init, "running" after it, or "unnamed" if it
           \* runs though its line was not written, or "none"
  starts, faults,
  exists,  \* whether the pid file exists
  content, \* its characters
  lock     \* the process that holds its lock, or NoPid

\* What is written to the file.
Characters == {EndOfLine} \cup UNION {{p[i] : i \in DOMAIN p} : p \in Pids}

file == <<exists, content, lock>>
vars == <<pc, starts, faults, file>>

Init ==
  /\ pc = [p \in Pids |-> "none"] /\ starts = 0 /\ faults = 0
  /\ exists = FALSE /\ content = <<>> /\ lock = NoPid

Fault == faults < MaxFaults /\ faults' = faults + 1

\* The kernel gives a new process any id that is free.
FreePids == {p \in Pids : pc[p] = "none"}

Start ==
  /\ starts < MaxStarts /\ starts' = starts + 1
  /\ \E p \in FreePids : pc' = [pc EXCEPT ![p] = "fork"]
  /\ UNCHANGED <<faults, file>>

\* The first fork: the process exits, whether or not it has a child.
Fork(p) ==
  /\ pc[p] = "fork"
  /\ \/ /\ \E q \in FreePids : pc' = [pc EXCEPT ![p] = "none", ![q] = "forkAgain"]
        /\ UNCHANGED faults
     \/ Fault /\ pc' = [pc EXCEPT ![p] = "none"]
  /\ UNCHANGED <<starts, file>>

\* The second: pid, 0 in this process, is compared with what fork returns, so this
\* process goes on, whether or not it has a child, and the child exits.
ForkAgain(p) ==
  /\ pc[p] = "forkAgain"
  /\ \/ /\ \E q \in FreePids : pc' = [pc EXCEPT ![p] = "open", ![q] = "exit"]
        /\ UNCHANGED faults
     \/ Fault /\ pc' = [pc EXCEPT ![p] = "open"]
  /\ UNCHANGED <<starts, file>>

ChildExits(p) ==
  /\ pc[p] = "exit"
  /\ pc' = [pc EXCEPT ![p] = "none"]
  /\ UNCHANGED <<starts, faults, file>>

\* Mutant of CanOpen: the file is opened only if it is new.
CanOpenNew == ~exists
\* open with O_CREAT and without O_EXCL
CanOpen == TRUE

\* open and fdopen("w+"), neither of which truncates the file; when one of them
\* fails the process exits, the file may have been created.
Open(p) ==
  /\ pc[p] = "open"
  /\ \/ CanOpen /\ exists' = TRUE /\ pc' = [pc EXCEPT ![p] = "lock"] /\ UNCHANGED faults
     \/ ~CanOpen /\ pc' = [pc EXCEPT ![p] = "none"] /\ UNCHANGED <<exists, faults>>
     \/ Fault /\ exists' \in {exists, TRUE} /\ pc' = [pc EXCEPT ![p] = "none"]
  /\ UNCHANGED <<starts, content, lock>>

\* Mutant of Lockable: a shared lock.
LockableShared == TRUE
\* Whether flock(LOCK_EX | LOCK_NB) gives the lock.
Lockable == lock = NoPid

Lock(p) ==
  /\ pc[p] = "lock"
  /\ \/ Lockable /\ lock' = p /\ pc' = [pc EXCEPT ![p] = "write"] /\ UNCHANGED faults
     \/ ~Lockable /\ UNCHANGED <<lock, faults>> /\ pc' = [pc EXCEPT ![p] = "none"]
     \/ Fault /\ UNCHANGED lock /\ pc' = [pc EXCEPT ![p] = "none"]
  /\ UNCHANGED <<starts, exists, content>>

\* Mutant of Overwritten: the pid is added at the end of the file.
Appended(line) == content \o line
\* A line written from the start of the file leaves what is behind it.
Overwritten(line) == line \o SubSeq(content, Len(line) + 1, Len(content))

\* fprintf and fflush; on a full file system they leave the file as it is and the
\* daemon runs all the same.
WritePid(p) ==
  /\ pc[p] = "write"
  /\ \/ /\ content' = Overwritten(Append(p, EndOfLine)) /\ UNCHANGED faults
        /\ pc' = [pc EXCEPT ![p] = "running"]
     \/ /\ Fault /\ UNCHANGED content
        /\ pc' = [pc EXCEPT ![p] = "unnamed"]
  /\ UNCHANGED <<starts, exists, lock>>

\* A daemon ignores SIGTERM and never gets to daemon_exit: it is killed. The
\* kernel drops its lock, the file stays.
Dies(p) ==
  /\ pc' = [pc EXCEPT ![p] = "none"]
  /\ lock' = IF lock = p THEN NoPid ELSE lock
  /\ UNCHANGED <<starts, exists, content>>

Killed(p) == pc[p] \in {"running", "unnamed"} /\ Dies(p) /\ UNCHANGED faults

\* ... or in the middle of daemon_init.
KilledEarly(p) == pc[p] \notin {"none", "running", "unnamed"} /\ Fault /\ Dies(p)

DaemonInit(p) == Fork(p) \/ ForkAgain(p) \/ ChildExits(p) \/ Open(p) \/ Lock(p) \/ WritePid(p)

-----------------------------------------------------------------------------
\* The daemons that run.
Running == {p \in Pids : pc[p] \in {"running", "unnamed"}}

\* The variables keep their types.
TypeOK ==
  /\ pc \in [Pids -> {"none", "fork", "forkAgain", "exit", "open", "lock", "write",
                     "running", "unnamed"}]
  /\ starts \in 0 .. MaxStarts /\ faults \in 0 .. MaxFaults
  /\ exists \in BOOLEAN /\ lock \in Pids \cup {NoPid}
  /\ content \in Seq(Characters)

\* "daemon is already running" (canna_daemon.cpp:65): at most one daemon is past the
\* lock, however many are started at the same time.
OneDaemon == \A p, q \in Pids : {pc[p], pc[q]} \subseteq {"write", "running", "unnamed"} => p = q

\* As long as a daemon runs whose line was written, the first line of the pid file is its
\* id: the file of an earlier daemon, perhaps with a longer id, was written over, and no
\* program that is started, refused something or killed meanwhile touches it. Bytes of a
\* longer line may stay behind the first, as the file is never truncated.
PidFileNamesDaemon ==
  \A p \in Pids :
    pc[p] = "running" => SubSeq(content, 1, Len(p) + 1) = Append(p, EndOfLine)

\* A server that is started turns into a daemon unless there is one, also after a
\* daemon was killed and left its file behind, if nothing is refused.
DaemonStarts == (\E p \in Pids : pc[p] = "fork") ~> Running # {} \/ faults > 0
=============================================================================
