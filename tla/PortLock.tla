------------------------------ MODULE PortLock ------------------------------
(***************************************************************************)
(* How runtimes in several processes choose ports: PortLock and            *)
(* find_available_port_with_lock (openhands/runtime/utils/port_lock.py)    *)
(* and the allocation, start and close of a container in DockerRuntime.    *)
(***************************************************************************)
EXTENDS Naturals, FiniteSets

CONSTANTS
    Workers,     \* processes, with one runtime each
    Ports,       \* the range of ports
    Platforms,   \* subset of BOOLEAN: values of HAS_FCNTL
    MaxFiles,    \* bound on the lock files that are created
    MaxCrashes   \* bound on the processes that die; their containers go on

VARIABLES
    fcntl,     \* HAS_FCNTL: flock on the file, otherwise its exclusive creation
    file,      \* file[p]: the inode of port_<p>.lock, 0 if there is no such file
    files,     \* number of inodes so far
    flock,     \* flock[i]: who has locked inode i, or Nobody
    rt,        \* rt[w]: [pc, port, inode] of the runtime of w
    bound,     \* ports that a container listens on
    crashes

vars == <<fcntl, file, files, flock, rt, bound, crashes>>
Nobody == "nobody"
NoPort == "none"
Idle == [pc |-> "idle", port |-> NoPort, inode |-> 0]

Init ==
    /\ fcntl \in Platforms
    /\ file = [p \in Ports |-> 0]
    /\ files = 0
    /\ flock = [i \in 1 .. MaxFiles |-> Nobody]
    /\ rt = [w \in Workers |-> Idle]
    /\ bound = {}
    /\ crashes = 0

Goto(w, pc) == rt' = [rt EXCEPT ![w].pc = pc]

-----------------------------------------------------------------------------
\* acquire, first part: os.open(O_CREAT) of a port chosen at random.
Open(w, p) ==
    /\ fcntl
    /\ rt[w].pc = "idle"
    /\ IF file[p] # 0
         THEN /\ rt' = [rt EXCEPT ![w] = [pc |-> "opened", port |-> p, inode |-> file[p]]]
              /\ UNCHANGED <<file, files>>
         ELSE /\ files < MaxFiles
              /\ files' = files + 1
              /\ file' = [file EXCEPT ![p] = files + 1]
              /\ rt' = [rt EXCEPT ![w] = [pc |-> "opened", port |-> p, inode |-> files + 1]]
    /\ UNCHANGED <<fcntl, flock, bound, crashes>>

\* flock(LOCK_EX | LOCK_NB), tried again until the timeout.  The lock is one of
\* the inode that was opened, whatever the path names by now.
Flock(w) ==
    /\ rt[w].pc = "opened"
    /\ flock[rt[w].inode] = Nobody
    /\ flock' = [flock EXCEPT ![rt[w].inode] = w]
    /\ Goto(w, "locked")
    /\ UNCHANGED <<fcntl, file, files, bound, crashes>>

FlockTimeout(w) ==
    /\ rt[w].pc = "opened"
    /\ rt' = [rt EXCEPT ![w] = Idle]
    /\ UNCHANGED <<fcntl, file, files, flock, bound, crashes>>

\* Mutant of Create: the file is created or opened.
CreateShared(w, p) ==
    /\ ~fcntl
    /\ rt[w].pc = "idle"
    /\ files < MaxFiles
    /\ files' = files + 1
    /\ file' = [file EXCEPT ![p] = files + 1]
    /\ rt' = [rt EXCEPT ![w] = [pc |-> "locked", port |-> p, inode |-> files + 1]]
    /\ UNCHANGED <<fcntl, flock, bound, crashes>>

\* acquire without fcntl: os.open(O_CREAT | O_EXCL).
Create(w, p) ==
    /\ ~fcntl
    /\ rt[w].pc = "idle"
    /\ file[p] = 0
    /\ files < MaxFiles
    /\ files' = files + 1
    /\ file' = [file EXCEPT ![p] = files + 1]
    /\ rt' = [rt EXCEPT ![w] = [pc |-> "locked", port |-> p, inode |-> files + 1]]
    /\ UNCHANGED <<fcntl, flock, bound, crashes>>

\* _check_port_available binds and closes a socket; Docker is asked, too.
Check(w) ==
    /\ rt[w].pc = "locked"
    /\ Goto(w, IF rt[w].port \in bound THEN "releasing" ELSE "allocated")
    /\ UNCHANGED <<fcntl, file, files, flock, bound, crashes>>

\* _find_available_port_with_lock, when no lock could be had: a free port is
\* taken without one.
Fallback(w) ==
    /\ rt[w].pc = "idle"
    /\ \E p \in Ports \ bound :
         rt' = [rt EXCEPT ![w] = [pc |-> "allocated", port |-> p, inode |-> 0]]
    /\ UNCHANGED <<fcntl, file, files, flock, bound, crashes>>

\* init_container: Docker refuses a port that is in use.
StartContainer(w) ==
    /\ rt[w].pc = "allocated"
    /\ IF rt[w].port \in bound
         THEN Goto(w, "releasing") /\ UNCHANGED bound
         ELSE Goto(w, "up") /\ bound' = bound \cup {rt[w].port}
    /\ UNCHANGED <<fcntl, file, files, flock, crashes>>

\* close stops the container before the locks are released.
StopContainer(w) ==
    /\ rt[w].pc = "up"
    /\ bound' = bound \ {rt[w].port}
    /\ Goto(w, "releasing")
    /\ UNCHANGED <<fcntl, file, files, flock, crashes>>

Unlocked(w) == [i \in DOMAIN flock |-> IF flock[i] = w THEN Nobody ELSE flock[i]]

\* release: unlock and close, then remove the file by its path.
Unlock(w) ==
    /\ rt[w].pc = "releasing"
    /\ IF rt[w].inode = 0 THEN rt' = [rt EXCEPT ![w] = Idle] ELSE Goto(w, "unlinking")
    /\ flock' = Unlocked(w)
    /\ UNCHANGED <<fcntl, file, files, bound, crashes>>

Unlink(w) ==
    /\ rt[w].pc = "unlinking"
    /\ rt' = [rt EXCEPT ![w] = Idle]
    /\ file' = [file EXCEPT ![rt[w].port] = 0]
    /\ UNCHANGED <<fcntl, files, flock, bound, crashes>>

\* The process dies: its descriptors are closed, its file and container stay.
Crash(w) ==
    /\ crashes < MaxCrashes
    /\ crashes' = crashes + 1
    /\ rt' = [rt EXCEPT ![w] = Idle]
    /\ flock' = Unlocked(w)
    /\ UNCHANGED <<fcntl, file, files, bound>>

Next ==
    \E w \in Workers :
        \/ \E p \in Ports : Open(w, p) \/ Create(w, p)
        \/ Flock(w) \/ FlockTimeout(w) \/ Check(w) \/ Fallback(w)
        \/ StartContainer(w) \/ StopContainer(w) \/ Unlock(w) \/ Unlink(w) \/ Crash(w)

Spec == Init /\ [][Next]_vars

-----------------------------------------------------------------------------
Allocated == {w \in Workers : rt[w].inode # 0 /\ rt[w].pc \in {"locked", "allocated", "up"}}

\* Two processes never hold the lock of one port, from the check that it is free
\* until the container is gone: "to prevent multiple workers from allocating the
\* same port simultaneously" (docker_runtime.py:649).
AllocatedOnce == \A w, v \in Allocated : rt[w].port = rt[v].port => w = v

\* Without fcntl, the file keeps two processes from allocating one port, also when
\* a process dies.  With flock, it only keeps them from locking one inode, but
\* the lock goes with its process: an inode is locked by a process that has it
\* open and has not given it up.
LocksExclude ==
    /\ ~fcntl => AllocatedOnce
    /\ \A i \in DOMAIN flock : flock[i] # Nobody =>
         /\ rt[flock[i]].inode = i
         /\ rt[flock[i]].pc \in {"locked", "allocated", "up", "releasing"}
=============================================================================
