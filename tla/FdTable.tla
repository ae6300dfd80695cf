------------------------------ MODULE FdTable ------------------------------
(***************************************************************************)
(* What the descriptor tables of processes promise, without vectors,       *)
(* counters and reference counts: a table is a partial function from       *)
(* descriptors to files, a task works on a file it holds a reference to,   *)
(* and a file exists exactly while a table or a task refers to it.         *)
(* FdMan is shown to implement this specification.                         *)
(***************************************************************************)
CONSTANTS FdThreads, FdProcs, Fds, Files, NoFile,
          ProcOf  \* the process of each thread

VARIABLES
  table,  \* the file of each descriptor of each process, or NoFile
  held,   \* the file each thread holds a reference to, or NoFile
  doing,  \* what each thread does with it
  alive   \* the files that exist

avars == <<table, held, doing, alive>>

Inserts == {"ins", "insat", "insh"}

Referred ==
  {f \in Files : \/ \E p \in FdProcs, fd \in Fds : table[p][fd] = f
                 \/ \E t \in FdThreads : held[t] = f}

AInit ==
  /\ table = [p \in FdProcs |-> [fd \in Fds |-> NoFile]]
  /\ held = [t \in FdThreads |-> NoFile]
  /\ doing = [t \in FdThreads |-> "idle"]
  /\ alive = {}

\* A thread opens a file that did not exist, or takes a reference to a file of
\* its own table.
Take(t) ==
  /\ doing[t] = "idle"
  /\ \E f \in Files \cup {NoFile} :
       /\ \/ f \notin alive
          \/ \E fd \in Fds : table[ProcOf[t]][fd] = f
       /\ held' = [held EXCEPT ![t] = f]
  /\ \E d \in Inserts \cup {"drop"} : doing' = [doing EXCEPT ![t] = d]
  /\ UNCHANGED table

\* An insertion puts the file under a descriptor that named nothing.
Put(t) ==
  /\ doing[t] \in Inserts
  /\ \E fd \in Fds :
       /\ table[ProcOf[t]][fd] = NoFile
       /\ table' = [table EXCEPT ![ProcOf[t]][fd] = held[t]]
  /\ held' = [held EXCEPT ![t] = NoFile]
  /\ \E d \in {"idle", "drop"} : doing' = [doing EXCEPT ![t] = d]

\* Only an insertion at a given descriptor replaces what it named.
Replace(t) ==
  /\ doing[t] = "insat"
  /\ \E fd \in Fds :
       /\ table' = [table EXCEPT ![ProcOf[t]][fd] = held[t]]
       /\ held' = [held EXCEPT ![t] = table[ProcOf[t]][fd]]
  /\ doing' = [doing EXCEPT ![t] = "drop"]

GiveUp(t) ==
  /\ doing[t] \in Inserts
  /\ doing' = [doing EXCEPT ![t] = "drop"]
  /\ UNCHANGED <<table, held>>

\* A close takes the file out of the table before the reference is dropped.
TakeOut(t) ==
  /\ doing[t] \in {"idle", "closing"}
  /\ \E fd \in Fds :
       /\ table[ProcOf[t]][fd] # NoFile
       /\ held' = [held EXCEPT ![t] = table[ProcOf[t]][fd]]
       /\ table' = [table EXCEPT ![ProcOf[t]][fd] = NoFile]
  /\ \E d \in {"drop", "dropall"} : doing' = [doing EXCEPT ![t] = d]

Release(t) ==
  /\ \/ doing[t] = "drop" /\ doing' = [doing EXCEPT ![t] = "idle"]
     \/ doing[t] = "dropall" /\ doing' = [doing EXCEPT ![t] = "closing"]
  /\ held' = [held EXCEPT ![t] = NoFile]
  /\ UNCHANGED table

AllClosed(t) ==
  /\ doing[t] = "closing"
  /\ doing' = [doing EXCEPT ![t] = "idle"]
  /\ UNCHANGED <<table, held>>

\* A fork gives an empty table the contents of another one.
CopyTable(p, q) ==
  /\ \A fd \in Fds : table[q][fd] = NoFile
  /\ table' = [table EXCEPT ![q] = table[p]]
  /\ UNCHANGED <<held, doing>>

\* The last thread of a process is gone.
EmptyTable(p) ==
  /\ \A t \in FdThreads : ProcOf[t] = p => doing[t] = "idle"
  /\ table' = [table EXCEPT ![p] = [fd \in Fds |-> NoFile]]
  /\ UNCHANGED <<held, doing>>

ANext ==
  /\ \/ \E t \in FdThreads : \/ Take(t) \/ Put(t) \/ Replace(t) \/ GiveUp(t)
                             \/ TakeOut(t) \/ Release(t) \/ AllClosed(t)
     \/ \E p \in FdProcs : EmptyTable(p) \/ \E q \in FdProcs : CopyTable(p, q)
  /\ alive' = Referred'

ASpec == AInit /\ [][ANext]_avars
============================================================================
