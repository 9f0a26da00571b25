----------------------------- MODULE NameServer -----------------------------
(***************************************************************************)
(* nameserver/main.cpp: the program turns into a daemon and then serves    *)
(* names. It can be started and killed at any time; its clients go on.     *)
(***************************************************************************)
EXTENDS Integers, Sequences

CONSTANTS
  Clients, Groups, SERIAL_SIZE, NoGroup, MaxAsks,   \* of NameService
  Pids, EndOfLine, NoPid, MaxFaults, MaxStarts      \* of Daemon

VARIABLES
  asked, requests, asks,                            \* of NameService
  m_serialmap, step, client, group, serial, name, listed, published,
  pc, starts, faults, exists, content, lock         \* of Daemon

N == INSTANCE NameService
D == INSTANCE Daemon

ASSUME NameServerAssumption ==
  /\ SERIAL_SIZE \in Nat \ {0} /\ MaxAsks \in Nat /\ NoGroup \notin Groups
  /\ Pids \subseteq Seq(D!Characters) /\ NoPid \notin Pids
  /\ MaxStarts \in Nat /\ MaxFaults \in Nat

nameVars ==
  <<asked, requests, asks, m_serialmap, step, client, group, serial, name, listed, published>>
daemonVars == <<pc, starts, faults, exists, content, lock>>
vars == <<nameVars, daemonVars>>

Init == N!Init /\ D!Init

\* A program is started, or goes on in daemon_init.
Starting ==
  /\ D!Start \/ \E p \in Pids : D!DaemonInit(p) \/ D!KilledEarly(p)
  /\ UNCHANGED nameVars

\* server_loop runs once daemon_init has returned 0.
Serving ==
  /\ D!Running # {}
  /\ N!Serve
  /\ UNCHANGED daemonVars

\* A client asks whether or not there is a server.
Asking == (\E c \in Clients : N!Ask(c)) /\ UNCHANGED daemonVars

Killed == (\E p \in Pids : D!Killed(p)) /\ N!Lost

Next == Starting \/ Serving \/ Asking \/ Killed

\* Processes run; nobody has to ask, or to start or kill a server.
Spec ==
  /\ Init /\ [][Next]_vars
  /\ \A p \in Pids : WF_vars(D!DaemonInit(p) /\ UNCHANGED nameVars)
  /\ WF_vars(Serving)

-----------------------------------------------------------------------------
\* "daemon is already running" (core/canna_daemon.cpp:65): at most one program is
\* past the lock, however many are started at the same time, whatever is refused
\* and whenever they are killed.
OneDaemon == D!OneDaemon

\* daemon_init: the first line of the pid file is the id of the daemon that runs, also
\* after one with a longer id, unless its line could not be written.
PidFileNamesDaemon == D!PidFileNamesDaemon

\* daemon_init: a program that is started leads to a running server, also when an
\* earlier one was killed, unless something is refused.
DaemonStarts == D!DaemonStarts

\* allotnamepair: one server publishes no name twice.
NamesUnique == N!NamesUnique

\* server_loop: an answer and the publications that follow it together name the
\* whole group, and a name is refused only when all are given.
AnswerComplete == N!AnswerComplete

\* A request that is on the network while a server is up is answered, or the
\* server is killed: the loop of allotnamepair ends, also in a group that is full.
Answered ==
  \A c \in Clients :
    c \in requests /\ D!Running # {} ~> asked[c] = NoGroup \/ D!Running = {}
=============================================================================
