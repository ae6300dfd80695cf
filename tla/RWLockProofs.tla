---------------------------- MODULE RWLockProofs ----------------------------
(***************************************************************************)
(* Proofs about RWLock for any number of tasks, any set of calls, with or  *)
(* without timeouts and interrupts.                                        *)
(***************************************************************************)
EXTENDS RWLock, KSignalProofs

WritePlaces == {"writing", "closing"}

\* The inductive invariant.  Exclusion alone is not inductive: a writer is alone
\* because write mode is only entered when rw_readc is 0, which says something
\* about the readers only because rw_readc counts them; and a task may leave
\* write mode without breaking "a closed lock is in write mode" only because
\* nobody holds a closed lock.
IInv ==
  /\ LockTypeOK
  /\ ReadersCounted
  /\ wmode => readc = 0
  /\ rw_sig \in dead => wmode
  /\ \A t \in Tasks : pc[t] \in WritePlaces => wmode /\ rw_sig \notin dead
  /\ \A t, u \in Tasks : pc[t] \in WritePlaces /\ pc[u] \in WritePlaces => t = u

----------------------------------------------------------------------------
\* The tasks that hold a read lock when the tasks are where f says.
ReadersAt(f) == {t \in Tasks : f[t] = "reading"}

\* Readers can be counted.
LEMMA ReadersFinite ==
  ASSUME NEW f
  PROVE  IsFiniteSet(ReadersAt(f)) /\ Cardinality(ReadersAt(f)) \in Nat
BY TasksAssumption, FS_Subset, FS_CardinalityType DEF ReadersAt

\* A task that starts to read adds one to the number of readers.
LEMMA ReaderEnters ==
  ASSUME NEW f \in [Tasks -> Places], NEW t \in Tasks, f[t] # "reading"
  PROVE  Cardinality(ReadersAt([f EXCEPT ![t] = "reading"])) = Cardinality(ReadersAt(f)) + 1
<1>1. ReadersAt([f EXCEPT ![t] = "reading"]) = ReadersAt(f) \cup {t}
  BY DEF ReadersAt
<1>2. t \notin ReadersAt(f)
  BY DEF ReadersAt
<1>. QED  BY <1>1, <1>2, ReadersFinite, FS_AddElement, Zenon

\* A reader that goes elsewhere takes one from it, and there was one to take.
LEMMA ReaderLeaves ==
  ASSUME NEW f \in [Tasks -> Places], NEW t \in Tasks, f[t] = "reading",
         NEW p, p # "reading"
  PROVE  /\ Cardinality(ReadersAt(f)) > 0
         /\ Cardinality(ReadersAt([f EXCEPT ![t] = p])) = Cardinality(ReadersAt(f)) - 1
<1>1. ReadersAt([f EXCEPT ![t] = p]) = ReadersAt(f) \ {t}
  BY DEF ReadersAt
<1>2. t \in ReadersAt(f)
  BY DEF ReadersAt
<1>3. Cardinality(ReadersAt(f)) # 0
  BY <1>2, ReadersFinite, FS_EmptySet
<1>4. Cardinality(ReadersAt(f) \ {t}) = Cardinality(ReadersAt(f)) - 1
  BY <1>2, ReadersFinite, FS_RemoveElement, Zenon
<1>5. Cardinality(ReadersAt(f)) \in Nat
  BY ReadersFinite
<1>6. Cardinality(ReadersAt(f)) > 0
  BY <1>3, <1>5
<1>7. Cardinality(ReadersAt([f EXCEPT ![t] = p])) = Cardinality(ReadersAt(f)) - 1
  BY <1>1, <1>4, Zenon
<1>. QED  BY <1>6, <1>7

\* Other moves leave it alone.
LEMMA ReadersStay ==
  ASSUME NEW f \in [Tasks -> Places], NEW t \in Tasks, f[t] # "reading",
         NEW p, p # "reading"
  PROVE  ReadersAt([f EXCEPT ![t] = p]) = ReadersAt(f)
BY DEF ReadersAt

\* ReadersAt applied to the current places is Readers.
LEMMA ReadersDef == Readers = ReadersAt(pc)
BY DEF Readers, ReadersAt

----------------------------------------------------------------------------
\* The use the clients make of the lock is fixed.
LEMMA NextKeepsUse == [Next]_vars => use' = use
<1>. SUFFICES ASSUME [Next]_vars PROVE use' = use
  OBVIOUS
<1>1. ASSUME NEW t \in Tasks, Step(t) PROVE use' = use
  <2>1. CASE BeginRead(t) \/ BeginWrite(t)
    BY <2>1, RecvUndisturbed DEF BeginRead, BeginWrite, RecvOrFail, Undisturbed, sigvars
  <2>2. CASE ReadWoken(t) \/ WriteWoken(t) \/ UpgradeWoken(t)
    BY <2>2, WokenUndisturbed DEF ReadWoken, WriteWoken, UpgradeWoken, Resume, Undisturbed
  <2>3. CASE EndRead(t) \/ EndWrite(t) \/ End(t) \/ SendStep(t)
    BY <2>3, SendUndisturbed DEF EndRead, EndWrite, End, Undisturbed, sigvars
  <2>4. CASE UpgradeRelock(t) \/ Close(t)
    BY <2>4 DEF UpgradeRelock, Close, CloseSig, sigvars
  <2>. QED  BY <1>1, <2>1, <2>2, <2>3, <2>4 DEF Step
<1>2. ASSUME NEW t \in Tasks, ClientCall(t) PROVE use' = use
  <2>1. ASSUME NEW c, NEW tm, Upgrade(t, c, tm) PROVE use' = use
    BY <2>1, RecvUndisturbed DEF Upgrade, Undisturbed, sigvars
  <2>2. CASE Downgrade(t)
    BY <2>2, SendUndisturbed DEF Downgrade, Undisturbed
  <2>. QED
    BY <1>2, <2>1, <2>2 DEF ClientCall, Enter, TryBeginWrite, TryBeginRead, TryUpgrade, Reset,
                            ResetSig, sigvars
<1>3. ASSUME NEW t \in Tasks, Environment(t) PROVE use' = use
  BY <1>3, OutsideUndisturbed DEF Environment, Undisturbed
<1>4. CASE UNCHANGED vars
  BY <1>4 DEF vars, sigvars
<1>. QED  BY <1>1, <1>2, <1>3, <1>4 DEF Next

----------------------------------------------------------------------------
(* The ways a task can change the lock.  Every action is one of them.      *)

\* The types of the variables the lock's correctness does not rest on.
BooksOK ==
  /\ call \in [Tasks -> RWCalls \cup {"none"}]
  /\ timed \in [Tasks -> BOOLEAN]
  /\ budget \in [Tasks -> Nat]

\* Where a task neither reads nor writes.
Outside == Places \ ({"reading"} \cup WritePlaces)

\* A step that moves no task and leaves the lock alone, except that a closed lock
\* may be opened again.
LEMMA NobodyMoves ==
  ASSUME IInv, BooksOK', pc' = pc, readc' = readc, wmode' = wmode,
         dead' = dead \/ dead' = dead \ {rw_sig}
  PROVE  IInv'
BY DEF IInv, BooksOK, LockTypeOK, ReadersCounted, Readers

\* A task that neither reads nor writes goes to another such place.
LEMMA Walks ==
  ASSUME IInv, BooksOK', NEW t \in Tasks, NEW p \in Outside, pc[t] \in Outside,
         pc' = [pc EXCEPT ![t] = p], readc' = readc, wmode' = wmode, dead' = dead
  PROVE  IInv'
<1>1. Readers' = Readers
  BY ReadersDef, ReadersStay DEF IInv, LockTypeOK, Outside, Readers
<1>2. LockTypeOK'
  BY DEF IInv, LockTypeOK, BooksOK, Outside
<1>. QED  BY <1>1, <1>2 DEF IInv, LockTypeOK, ReadersCounted, Outside

\* A task starts to read; the lock is not in write mode.
LEMMA StartsReading ==
  ASSUME IInv, BooksOK', NEW t \in Tasks, pc[t] \in Outside, ~wmode,
         pc' = [pc EXCEPT ![t] = "reading"], readc' = readc + 1, wmode' = wmode,
         dead' = dead
  PROVE  IInv'
<1>1. Cardinality(Readers') = Cardinality(Readers) + 1
  BY ReaderEnters DEF IInv, LockTypeOK, Outside, Readers, ReadersAt
<1>2. LockTypeOK'
  BY DEF IInv, LockTypeOK, BooksOK, Places
<1>. QED  BY <1>1, <1>2 DEF IInv, LockTypeOK, ReadersCounted, WritePlaces

\* A reader gives up its lock.
LEMMA StopsReading ==
  ASSUME IInv, BooksOK', NEW t \in Tasks, NEW p \in Outside, pc[t] = "reading",
         pc' = [pc EXCEPT ![t] = p], readc' = readc - 1, wmode' = FALSE, dead' = dead
  PROVE  IInv' /\ readc > 0 /\ ~wmode
<1>0. Readers' = ReadersAt([pc EXCEPT ![t] = p]) /\ p # "reading" /\ pc \in [Tasks -> Places]
  BY DEF IInv, LockTypeOK, Outside, Readers, ReadersAt
<1>1. /\ Cardinality(ReadersAt(pc)) > 0
      /\ Cardinality(ReadersAt([pc EXCEPT ![t] = p])) = Cardinality(ReadersAt(pc)) - 1
  BY <1>0, ReaderLeaves, Zenon
<1>2. readc > 0 /\ readc' = Cardinality(Readers')
  BY <1>0, <1>1, ReadersDef DEF IInv, ReadersCounted
<1>3. ~wmode
  BY <1>2 DEF IInv
<1>4. readc' \in Nat
  BY <1>2 DEF IInv, LockTypeOK
<1>5. LockTypeOK'
  BY <1>4, Zenon DEF IInv, LockTypeOK, BooksOK, Outside
<1>. QED  BY <1>2, <1>3, <1>5 DEF IInv, LockTypeOK, ReadersCounted, Outside, WritePlaces

\* A task that held nothing enters write mode.
LEMMA StartsWriting ==
  ASSUME IInv, BooksOK', NEW t \in Tasks, NEW p \in WritePlaces, pc[t] \in Outside, Unheld,
         pc' = [pc EXCEPT ![t] = p], readc' = readc, wmode' = TRUE, dead' = dead
  PROVE  IInv'
<1>1. Readers' = Readers
  BY ReadersDef, ReadersStay DEF IInv, LockTypeOK, Outside, WritePlaces, Readers
<1>2. LockTypeOK'
  BY DEF IInv, LockTypeOK, BooksOK, WritePlaces, Places
<1>. QED  BY <1>1, <1>2, Zenon DEF IInv, LockTypeOK, ReadersCounted, Unheld, WritePlaces

\* The only reader enters write mode.
LEMMA Promoted ==
  ASSUME IInv, BooksOK', NEW t \in Tasks, pc[t] = "reading", readc = 1,
         pc' = [pc EXCEPT ![t] = "writing"], readc' = 0, wmode' = TRUE, dead' = dead
  PROVE  IInv'
<1>0. Readers' = ReadersAt([pc EXCEPT ![t] = "writing"]) /\ pc \in [Tasks -> Places]
  BY DEF IInv, LockTypeOK, Readers, ReadersAt
<1>1. Cardinality(Readers') = Cardinality(Readers) - 1
  BY <1>0, ReaderLeaves, ReadersDef, Zenon
<1>2. LockTypeOK'
  BY DEF IInv, LockTypeOK, BooksOK, Places
<1>3. ~wmode
  BY DEF IInv
<1>4. ReadersCounted'
  <2>1. Cardinality(Readers) = 1
    BY DEF IInv, ReadersCounted
  <2>2. Cardinality(Readers') = 0
    BY <1>1, <2>1
  <2>. QED  BY <2>2 DEF ReadersCounted
<1>5. \A u \in Tasks : pc'[u] \in WritePlaces => u = t
  BY <1>3 DEF IInv, LockTypeOK
<1>. QED  BY <1>2, <1>3, <1>4, <1>5 DEF IInv

\* A writer gives up its lock, or closes it and leaves it in write mode.
LEMMA StopsWriting ==
  ASSUME IInv, BooksOK', NEW t \in Tasks, NEW p \in Outside, pc[t] \in WritePlaces,
         pc' = [pc EXCEPT ![t] = p], readc' = readc,
         \/ wmode' = FALSE /\ dead' = dead
         \/ wmode' = wmode /\ dead' = dead \cup {rw_sig}
  PROVE  IInv'
<1>1. Readers' = Readers
  BY ReadersDef, ReadersStay DEF IInv, LockTypeOK, Outside, WritePlaces, Readers
<1>2. LockTypeOK'
  BY Zenon DEF IInv, LockTypeOK, BooksOK, Outside
<1>3. \A u \in Tasks : pc'[u] \notin WritePlaces
  BY DEF IInv, LockTypeOK, Outside
<1>4. wmode /\ rw_sig \notin dead
  BY DEF IInv
<1>. QED  BY <1>1, <1>2, <1>3, <1>4, Zenon DEF IInv, LockTypeOK, ReadersCounted

\* A writer becomes the only reader.
LEMMA Demoted ==
  ASSUME IInv, BooksOK', NEW t \in Tasks, pc[t] = "writing",
         pc' = [pc EXCEPT ![t] = "reading"], readc' = 1, wmode' = FALSE, dead' = dead
  PROVE  IInv'
<1>1. Cardinality(Readers') = Cardinality(Readers) + 1
  BY ReaderEnters DEF IInv, LockTypeOK, Readers, ReadersAt
<1>2. LockTypeOK'
  BY Zenon DEF IInv, LockTypeOK, BooksOK, Places
<1>3. wmode /\ readc = 0 /\ rw_sig \notin dead
  BY DEF IInv, WritePlaces
<1>4. \A u \in Tasks : pc'[u] \notin WritePlaces
  BY DEF IInv, LockTypeOK, WritePlaces
<1>. QED  BY <1>1, <1>2, <1>3, <1>4 DEF IInv, LockTypeOK, ReadersCounted

----------------------------------------------------------------------------
(* One lemma per action that changes the lock.                             *)

\* Waiting for the signal in krwlock_begin*, or failing to.
LEMMA ReceiveOutside ==
  ASSUME IInv, NEW t \in Tasks, NEW tm, NEW p \in Outside, pc[t] \in Outside,
         RecvOrFail(t, tm, p), UNCHANGED <<readc, wmode, budget>>
  PROVE  IInv'
<1>1. dead' = dead
  BY RecvUndisturbed DEF RecvOrFail, Undisturbed
<1>2. BooksOK'
  BY Zenon DEF RecvOrFail, Leave, IInv, LockTypeOK, BooksOK
<1>3. \E q \in Outside : pc' = [pc EXCEPT ![t] = q]
  BY DEF RecvOrFail, Leave, Goto, Outside, Places, WritePlaces
<1>. QED  BY <1>1, <1>2, <1>3, Walks, Zenon

\* Returning from that wait.
LEMMA ResumeKeeps ==
  ASSUME IInv, NEW t \in Tasks, NEW w \in Outside, NEW p \in Outside, Resume(t, w, p)
  PROVE  IInv'
<1>1. dead' = dead /\ UNCHANGED <<readc, wmode>>
  BY DEF Resume, Woken
<1>2. BooksOK'
  BY Zenon DEF Resume, Leave, IInv, LockTypeOK, BooksOK
<1>3. \E q \in Outside : pc' = [pc EXCEPT ![t] = q]
  BY DEF Resume, Leave, Goto, Outside, Places, WritePlaces
<1>4. pc[t] \in Outside
  BY DEF Resume
<1>. QED  BY <1>1, <1>2, <1>3, <1>4, Walks, Zenon

\* krwlock_beginread preserves the invariant.
LEMMA BeginReadKeeps ==
  ASSUME IInv, NEW t \in Tasks, BeginRead(t)
  PROVE  IInv'
<1>0. pc[t] \in Outside /\ "readwait" \in Outside
  BY DEF BeginRead, At, Outside, Places, WritePlaces
<1>1. CASE wmode
  BY <1>0, <1>1, ReceiveOutside DEF BeginRead
<1>2. CASE ~wmode
  <2>1. BooksOK'
    BY <1>2, Zenon DEF BeginRead, Leave, IInv, LockTypeOK, BooksOK
  <2>2. dead' = dead
    BY <1>2 DEF BeginRead, sigvars
  <2>. QED  BY <1>0, <1>2, <2>1, <2>2, StartsReading DEF BeginRead, Leave, Goto
<1>. QED  BY <1>1, <1>2

\* krwlock_beginwrite does,
LEMMA BeginWriteKeeps ==
  ASSUME IInv, NEW t \in Tasks, BeginWrite(t)
  PROVE  IInv'
<1>0. pc[t] \in Outside /\ "writewait" \in Outside
  BY DEF BeginWrite, At, Outside, Places, WritePlaces
<1>1. CASE ~Unheld
  BY <1>0, <1>1, ReceiveOutside DEF BeginWrite
<1>2. CASE Unheld
  <2>1. BooksOK'
    BY <1>2, Zenon DEF BeginWrite, Leave, IInv, LockTypeOK, BooksOK
  <2>2. dead' = dead /\ readc' = readc /\ wmode' = TRUE
    BY <1>2 DEF BeginWrite, sigvars
  <2>3. \E p \in WritePlaces : pc' = [pc EXCEPT ![t] = p]
    BY <1>2 DEF BeginWrite, Leave, Goto, WritePlaces
  <2>. QED  BY <1>0, <1>2, <2>1, <2>2, <2>3, StartsWriting, Zenon
<1>. QED  BY <1>1, <1>2

\* krwlock_endread does,
LEMMA EndReadKeeps ==
  ASSUME IInv, NEW t \in Tasks, EndRead(t)
  PROVE  IInv'
<1>1. pc[t] = "reading" /\ "idle" \in Outside
  BY DEF EndRead, At, Outside, Places, WritePlaces
<1>2. BooksOK'
  BY DEF EndRead, IInv, LockTypeOK, BooksOK
<1>3. dead' = dead
  BY DEF EndRead, BeginSendLocked, sigvars
<1>4. readc' = readc - 1 /\ wmode' = wmode /\ pc' = [pc EXCEPT ![t] = "idle"]
  BY DEF EndRead, Goto
<1>5. ~wmode
  <2>1. Cardinality(ReadersAt(pc)) > 0
    BY <1>1, ReaderLeaves, Zenon DEF IInv, LockTypeOK
  <2>. QED  BY <2>1, ReadersDef DEF IInv, ReadersCounted
<1>6. wmode' = FALSE
  BY <1>4, <1>5 DEF IInv, LockTypeOK
<1>. QED  BY <1>1, <1>2, <1>3, <1>4, <1>6, StopsReading, Zenon

\* krwlock_endwrite does,
LEMMA EndWriteKeeps ==
  ASSUME IInv, NEW t \in Tasks, EndWrite(t)
  PROVE  IInv'
<1>1. pc[t] \in WritePlaces /\ "idle" \in Outside
  BY DEF EndWrite, At, Outside, Places, WritePlaces
<1>2. BooksOK'
  BY DEF EndWrite, IInv, LockTypeOK, BooksOK
<1>3. dead' = dead
  BY DEF EndWrite, BeginSend
<1>. QED  BY <1>1, <1>2, <1>3, StopsWriting, Zenon DEF EndWrite, Goto

\* krwlock_end does: the mode of the lock tells what the caller holds,
LEMMA EndKeeps ==
  ASSUME IInv, NEW t \in Tasks, End(t)
  PROVE  IInv'
<1>0. "idle" \in Outside
  BY DEF Outside, Places, WritePlaces
<1>1. BooksOK'
  BY DEF End, IInv, LockTypeOK, BooksOK
<1>2. dead' = dead /\ wmode' = FALSE /\ pc' = [pc EXCEPT ![t] = "idle"]
  BY DEF End, BeginSend, sigvars, Goto
<1>3. CASE pc[t] = "reading"
  <2>1. Cardinality(ReadersAt(pc)) > 0
    BY <1>3, ReaderLeaves, Zenon DEF IInv, LockTypeOK
  <2>2. ~wmode
    BY <2>1, ReadersDef DEF IInv, ReadersCounted
  <2>3. readc' = readc - 1
    BY <2>2 DEF End
  <2>. QED  BY <1>0, <1>1, <1>2, <1>3, <2>3, StopsReading, Zenon
<1>4. CASE pc[t] = "writing"
  <2>1. pc[t] \in WritePlaces
    BY <1>4 DEF WritePlaces
  <2>2. readc' = readc
    BY <2>1 DEF End, IInv
  <2>. QED  BY <1>0, <1>1, <1>2, <2>1, <2>2, StopsWriting, Zenon
<1>. QED  BY <1>3, <1>4 DEF End, At

\* krwlock_close does,
LEMMA CloseKeeps ==
  ASSUME IInv, NEW t \in Tasks, Close(t)
  PROVE  IInv'
<1>1. pc[t] \in WritePlaces /\ "idle" \in Outside
  BY DEF Close, At, Outside, Places, WritePlaces
<1>2. BooksOK'
  BY DEF Close, IInv, LockTypeOK, BooksOK
<1>3. dead' = dead \cup {rw_sig}
  BY <1>1 DEF Close, CloseSig, IInv
<1>. QED  BY <1>1, <1>2, <1>3, StopsWriting, Zenon DEF Close, Goto

\* the second half of an upgrade does,
LEMMA UpgradeRelockKeeps ==
  ASSUME IInv, NEW t \in Tasks, UpgradeRelock(t)
  PROVE  IInv'
<1>0. pc[t] \in Outside
  BY DEF UpgradeRelock, At, Outside, Places, WritePlaces
<1>1. BooksOK'
  BY Zenon DEF UpgradeRelock, Leave, IInv, LockTypeOK, BooksOK
<1>2. dead' = dead /\ readc' = readc
  BY DEF UpgradeRelock, sigvars
<1>3. CASE rw_sig \notin dead /\ Unheld
  <2>1. wmode' = TRUE /\ pc' = [pc EXCEPT ![t] = "writing"] /\ "writing" \in WritePlaces
    BY <1>3 DEF UpgradeRelock, Leave, Goto, WritePlaces
  <2>. QED  BY <1>0, <1>1, <1>2, <1>3, <2>1, StartsWriting, Zenon
<1>4. CASE rw_sig \in dead \/ ~Unheld
  <2>1. wmode' = wmode
    BY <1>4 DEF UpgradeRelock
  <2>2. \E p \in Outside : pc' = [pc EXCEPT ![t] = p]
    BY <1>4 DEF UpgradeRelock, Leave, Goto, Outside, Places, WritePlaces
  <2>. QED  BY <1>0, <1>1, <1>2, <2>1, <2>2, Walks, Zenon
<1>. QED  BY <1>3, <1>4

\* and the first half,
LEMMA UpgradeKeeps ==
  ASSUME IInv, NEW t \in Tasks, NEW c \in RWCalls, NEW tm \in BOOLEAN, Upgrade(t, c, tm)
  PROVE  IInv'
<1>0. pc[t] = "reading"
  BY DEF Upgrade, At
<1>1. BooksOK'
  <2>1. budget' \in [Tasks -> Nat]
    BY DEF Upgrade, Pay, IInv, LockTypeOK
  <2>2. CASE readc = 1
    BY <2>1, <2>2 DEF Upgrade, IInv, LockTypeOK, BooksOK
  <2>3. CASE readc # 1
    BY <2>1, <2>3, Zenon DEF Upgrade, Leave, IInv, LockTypeOK, BooksOK
  <2>. QED  BY <2>2, <2>3
<1>2. CASE readc = 1
  <2>1. dead' = dead /\ readc' = 0 /\ wmode' = TRUE /\ pc' = [pc EXCEPT ![t] = "writing"]
    BY <1>2 DEF Upgrade, Goto, sigvars
  <2>. QED  BY <1>0, <1>1, <1>2, <2>1, Promoted, Zenon
<1>3. CASE readc # 1
  <2>1. readc' = readc - 1 /\ wmode' = wmode
    BY <1>3 DEF Upgrade
  <2>2. dead' = dead
    BY <1>3, RecvUndisturbed DEF Upgrade, Undisturbed
  <2>3. \E p \in Outside : pc' = [pc EXCEPT ![t] = p]
    BY <1>3 DEF Upgrade, Leave, Goto, Outside, Places, WritePlaces
  <2>4. Cardinality(ReadersAt(pc)) > 0
    BY <1>0, ReaderLeaves, Zenon DEF IInv, LockTypeOK
  <2>5. wmode' = FALSE
    BY <2>1, <2>4, ReadersDef DEF IInv, LockTypeOK, ReadersCounted
  <2>. QED  BY <1>0, <1>1, <2>1, <2>2, <2>3, <2>5, StopsReading, Zenon
<1>. QED  BY <1>2, <1>3

\* krwlock_tryupgrade does,
LEMMA TryUpgradeKeeps ==
  ASSUME IInv, NEW t \in Tasks, TryUpgrade(t)
  PROVE  IInv'
<1>1. BooksOK'
  BY DEF TryUpgrade, Pay, IInv, LockTypeOK, BooksOK
<1>2. dead' = dead /\ pc[t] = "reading"
  BY DEF TryUpgrade, At, sigvars
<1>. QED  BY <1>1, <1>2, Promoted, Zenon DEF TryUpgrade, Goto

\* krwlock_trybeginread does,
LEMMA TryBeginReadKeeps ==
  ASSUME IInv, NEW t \in Tasks, TryBeginRead(t)
  PROVE  IInv'
<1>1. BooksOK'
  BY DEF TryBeginRead, Pay, IInv, LockTypeOK, BooksOK
<1>2. dead' = dead /\ pc[t] \in Outside
  BY DEF TryBeginRead, At, sigvars, Outside, Places, WritePlaces
<1>. QED  BY <1>1, <1>2, StartsReading, Zenon DEF TryBeginRead, Goto

\* krwlock_trybeginwrite and krwlock_tryclose do,
LEMMA TryBeginWriteKeeps ==
  ASSUME IInv, NEW t \in Tasks, NEW c, TryBeginWrite(t, c)
  PROVE  IInv'
<1>1. BooksOK'
  BY DEF TryBeginWrite, Pay, IInv, LockTypeOK, BooksOK
<1>2. dead' = dead /\ pc[t] \in Outside
  BY DEF TryBeginWrite, At, sigvars, Outside, Places, WritePlaces
<1>3. \E p \in WritePlaces : pc' = [pc EXCEPT ![t] = p]
  BY Zenon DEF TryBeginWrite, Goto, WritePlaces
<1>. QED  BY <1>1, <1>2, <1>3, StartsWriting, Zenon DEF TryBeginWrite

\* krwlock_downgrade does,
LEMMA DowngradeKeeps ==
  ASSUME IInv, NEW t \in Tasks, Downgrade(t)
  PROVE  IInv'
<1>1. BooksOK'
  BY DEF Downgrade, Pay, IInv, LockTypeOK, BooksOK
<1>2. dead' = dead /\ pc[t] = "writing"
  BY DEF Downgrade, At, BeginSend
<1>. QED  BY <1>1, <1>2, Demoted, Zenon DEF Downgrade, Goto

\* calling a function that may block does,
LEMMA EnterKeeps ==
  ASSUME IInv, NEW t \in Tasks, NEW c \in RWCalls, NEW tm \in BOOLEAN, Enter(t, c, tm)
  PROVE  IInv'
<1>1. BooksOK'
  BY DEF Enter, Pay, IInv, LockTypeOK, BooksOK
<1>2. dead' = dead /\ pc[t] \in Outside
  BY DEF Enter, sigvars, Outside, Places, WritePlaces
<1>3. \E p \in Outside : pc' = [pc EXCEPT ![t] = p]
  BY Zenon DEF Enter, Goto, Outside, Places, WritePlaces
<1>. QED  BY <1>1, <1>2, <1>3, Walks, Zenon DEF Enter

\* and krwlock_reset does.
LEMMA ResetKeeps ==
  ASSUME IInv, NEW t \in Tasks, Reset(t)
  PROVE  IInv'
<1>1. BooksOK'
  BY DEF Reset, Pay, IInv, LockTypeOK, BooksOK
<1>. QED  BY <1>1, NobodyMoves DEF Reset, ResetSig

----------------------------------------------------------------------------
(* The invariant is inductive: it holds initially and every step of every  *)
(* task, of the timer and of whoever interrupts tasks preserves it.        *)

\* A new lock satisfies the invariant.
LEMMA InitIInv == Init => IInv
<1>. SUFFICES ASSUME Init PROVE IInv
  OBVIOUS
<1>1. Readers = {}
  BY DEF Init, Readers
<1>2. ReadersCounted
  BY <1>1, FS_EmptySet DEF Init, ReadersCounted
<1>3. LockTypeOK
  BY RWAssumption, Zenon DEF Init, SigInit, LockTypeOK, Places
<1>. QED  BY <1>2, <1>3 DEF Init, SigInit, IInv, WritePlaces

\* Whatever a task does inside its calls preserves the invariant,
LEMMA StepIInv ==
  ASSUME IInv, NEW t \in Tasks, Step(t)
  PROVE  IInv'
<1>0. /\ "readwait" \in Outside /\ "writewait" \in Outside /\ "upwait" \in Outside
      /\ "beginread" \in Outside /\ "beginwrite" \in Outside /\ "relock" \in Outside
  BY DEF Outside, Places, WritePlaces
<1>1. CASE ReadWoken(t) \/ WriteWoken(t) \/ UpgradeWoken(t)
  BY <1>0, <1>1, ResumeKeeps DEF ReadWoken, WriteWoken, UpgradeWoken
<1>2. CASE SendStep(t) /\ UNCHANGED rwvars
  <2>1. BooksOK'
    BY <1>2 DEF rwvars, IInv, LockTypeOK, BooksOK
  <2>. QED  BY <1>2, <2>1, SendUndisturbed, NobodyMoves DEF rwvars, Undisturbed
<1>. QED
  BY <1>1, <1>2, BeginReadKeeps, BeginWriteKeeps, UpgradeRelockKeeps, EndReadKeeps,
     EndWriteKeeps, EndKeeps, CloseKeeps DEF Step

\* whatever call it makes does,
LEMMA ClientCallIInv ==
  ASSUME IInv, use \in Uses, NEW t \in Tasks, ClientCall(t)
  PROVE  IInv'
<1>1. use.timed \subseteq BOOLEAN
  BY RWAssumption
<1>2. {"beginread", "beginwrite", "close", "upgrade", "atomic_upgrade"} \subseteq RWCalls
  BY DEF RWCalls
<1>3. ASSUME NEW c \in {"beginread", "beginwrite", "close"}, NEW tm \in use.timed, Enter(t, c, tm)
      PROVE  IInv'
  BY <1>1, <1>2, <1>3, EnterKeeps
<1>4. ASSUME NEW c \in {"upgrade", "atomic_upgrade"}, NEW tm \in use.timed, Upgrade(t, c, tm)
      PROVE  IInv'
  BY <1>1, <1>2, <1>4, UpgradeKeeps
<1>. QED
  BY <1>3, <1>4, TryBeginWriteKeeps, TryBeginReadKeeps, TryUpgradeKeeps, DowngradeKeeps,
     ResetKeeps DEF ClientCall

\* and so does every step.
LEMMA NextIInv == use \in Uses /\ IInv /\ [Next]_vars => IInv'
<1>. SUFFICES ASSUME use \in Uses, IInv, [Next]_vars PROVE IInv'
  OBVIOUS
<1>1. ASSUME NEW t \in Tasks, Environment(t) PROVE IInv'
  <2>1. BooksOK'
    BY <1>1 DEF Environment, rwvars, IInv, LockTypeOK, BooksOK
  <2>. QED  BY <1>1, <2>1, OutsideUndisturbed, NobodyMoves DEF Environment, rwvars, Undisturbed
<1>2. CASE UNCHANGED vars
  <2>1. BooksOK'
    BY <1>2 DEF vars, rwvars, IInv, LockTypeOK, BooksOK
  <2>. QED  BY <1>2, <2>1, NobodyMoves DEF vars, rwvars, sigvars
<1>. QED  BY <1>1, <1>2, StepIInv, ClientCallIInv DEF Next

\* The inductive invariant holds always.
THEOREM IInvAlways == Spec => []IInv
<1>1. Init => use \in Uses
  BY DEF Init, SigInit
<1>2. use \in Uses /\ [Next]_vars => (use \in Uses)'
  BY NextKeepsUse
<1>. QED  BY <1>1, <1>2, InitIInv, NextIInv, PTL DEF Spec

----------------------------------------------------------------------------
\* The lock's variables keep their types; in particular rw_readc never drops
\* below zero, whatever mix of krwlock_endread, krwlock_end and upgrades runs.
THEOREM LockTypes == Spec => []LockTypeOK
<1>1. IInv => LockTypeOK
  BY DEF IInv
<1>. QED  BY <1>1, IInvAlways, PTL

\* rw_readc counts the tasks that hold a read lock.
THEOREM ReadersAreCounted == Spec => []ReadersCounted
<1>1. IInv => ReadersCounted
  BY DEF IInv
<1>. QED  BY <1>1, IInvAlways, PTL

\* A task that holds the write lock is alone: krwlock_beginwrite, krwlock_close
\* and the upgrades exclude other writers and all readers.
THEOREM WritersAreAlone == Spec => []Exclusion
<1>1. IInv => Exclusion
  <2>. SUFFICES ASSUME IInv, NEW t \in Writers PROVE Writers = {t} /\ Readers = {}
    BY DEF Exclusion
  <2>1. t \in Tasks /\ pc[t] \in WritePlaces
    BY DEF Writers, WritePlaces
  <2>2. Writers = {t}
    BY <2>1 DEF IInv, Writers, WritePlaces
  <2>3. Cardinality(ReadersAt(pc)) = 0
    BY <2>1, ReadersDef DEF IInv, ReadersCounted
  <2>4. Readers = {}
    BY <2>3, ReadersFinite, ReadersDef, FS_EmptySet
  <2>. QED  BY <2>2, <2>4
<1>. QED  BY <1>1, IInvAlways, PTL

\* A closed lock is in write mode and has no readers, as krwlock_reset asserts.
THEOREM ClosedLocksAreInWriteMode == Spec => []ClosedInWriteMode
<1>1. IInv => ClosedInWriteMode
  BY DEF IInv, ClosedInWriteMode
<1>. QED  BY <1>1, IInvAlways, PTL

\* The word of a krwlock says what its holders may rely on: all of the above.
THEOREM LockIsSound == Spec => []LockSound
<1>1. Exclusion /\ ReadersCounted /\ ClosedInWriteMode => LockSound
  BY DEF LockSound
<1>. QED  BY <1>1, WritersAreAlone, ReadersAreCounted, ClosedLocksAreInWriteMode, PTL

----------------------------------------------------------------------------
(* No way out of a call keeps the write lock *)

\* What an action may do to the write mode: leave it, or have a writer or a closed
\* lock afterwards, or leave everything about it alone.
KeepsOwner(t) ==
  \/ wmode' = FALSE
  \/ pc'[t] \in WritePlaces
  \/ rw_sig \in dead'
  \/ wmode' = wmode /\ dead' = dead /\ pc[t] \notin WritePlaces

\* Such a step keeps the mode owned.
LEMMA OwnerKept ==
  ASSUME IInv, WriteModeOwned, use' = use, NEW t \in Tasks, KeepsOwner(t),
         \A x \in Tasks : x # t => pc'[x] = pc[x]
  PROVE  WriteModeOwned'
BY ZenonT(30) DEF KeepsOwner, WriteModeOwned, Writers, WritePlaces, IInv, LockTypeOK

\* Every call moves its own task only, and is such a step unless it is krwlock_reset.
LEMMA CallsKeepOwner ==
  ASSUME IInv, NEW t \in Tasks, Step(t) \/ ClientCall(t), ~Reset(t),
         ~(SendStep(t) /\ UNCHANGED rwvars)
  PROVE  KeepsOwner(t) /\ \A x \in Tasks : x # t => pc'[x] = pc[x]
<1>0. /\ {"writing", "closing"} = WritePlaces
      /\ pc \in [Tasks -> Places]
  BY DEF WritePlaces, IInv, LockTypeOK
<1>1. ASSUME NEW w, NEW p, Resume(t, w, p), w \notin WritePlaces
      PROVE  KeepsOwner(t) /\ \A x \in Tasks : x # t => pc'[x] = pc[x]
  BY <1>0, <1>1 DEF Resume, Woken, Leave, Goto, KeepsOwner
<1>2. CASE ReadWoken(t) \/ WriteWoken(t) \/ UpgradeWoken(t)
  BY <1>0, <1>1, <1>2 DEF ReadWoken, WriteWoken, UpgradeWoken
<1>3. ASSUME NEW tm, NEW p, RecvOrFail(t, tm, p), wmode' = wmode, pc[t] \notin WritePlaces
      PROVE  KeepsOwner(t) /\ \A x \in Tasks : x # t => pc'[x] = pc[x]
  BY <1>0, <1>3, RecvUndisturbed DEF RecvOrFail, Leave, Goto, KeepsOwner, Undisturbed
<1>4. CASE BeginRead(t)
  <2>1. pc[t] \notin WritePlaces /\ wmode' = wmode
    BY <1>0, <1>4 DEF BeginRead, At
  <2>2. CASE wmode
    BY <1>3, <1>4, <2>1, <2>2 DEF BeginRead
  <2>3. CASE ~wmode
    BY <1>0, <1>4, <2>1, <2>3 DEF BeginRead, Leave, Goto, KeepsOwner, sigvars
  <2>. QED  BY <2>2, <2>3
<1>5. CASE BeginWrite(t)
  <2>1. pc[t] \notin WritePlaces
    BY <1>0, <1>5 DEF BeginWrite, At
  <2>2. CASE Unheld
    BY <1>0, <1>5, <2>2, Zenon DEF BeginWrite, Leave, Goto, KeepsOwner
  <2>3. CASE ~Unheld
    BY <1>3, <1>5, <2>1, <2>3 DEF BeginWrite
  <2>. QED  BY <2>2, <2>3
<1>6. CASE EndRead(t)
  BY <1>0, <1>6, Zenon DEF EndRead, At, Goto, KeepsOwner, BeginSendLocked, sigvars
<1>7. CASE EndWrite(t) \/ End(t) \/ Downgrade(t)
  BY <1>0, <1>7 DEF EndWrite, End, Downgrade, Goto, KeepsOwner
<1>8. CASE Close(t)
  BY <1>0, <1>8 DEF Close, CloseSig, Goto, KeepsOwner, sigvars
<1>9. CASE UpgradeRelock(t)
  BY <1>0, <1>9 DEF UpgradeRelock, At, Leave, Goto, KeepsOwner, sigvars
<1>10. ASSUME NEW c, NEW tm, Enter(t, c, tm)
       PROVE  KeepsOwner(t) /\ \A x \in Tasks : x # t => pc'[x] = pc[x]
  BY <1>0, <1>10 DEF Enter, Goto, KeepsOwner, sigvars
<1>11. ASSUME NEW c, NEW tm, Upgrade(t, c, tm)
       PROVE  KeepsOwner(t) /\ \A x \in Tasks : x # t => pc'[x] = pc[x]
  <2>1. pc[t] \notin WritePlaces
    BY <1>0, <1>11 DEF Upgrade, At
  <2>2. CASE readc = 1
    BY <1>0, <1>11, <2>2, Zenon DEF Upgrade, Goto, KeepsOwner
  <2>3. CASE readc # 1
    BY <1>0, <1>11, <2>1, <2>3, RecvUndisturbed DEF Upgrade, Leave, Goto, KeepsOwner, Undisturbed
  <2>. QED  BY <2>2, <2>3
<1>12. ASSUME NEW c, TryBeginWrite(t, c)
       PROVE  KeepsOwner(t) /\ \A x \in Tasks : x # t => pc'[x] = pc[x]
  BY <1>0, <1>12, Zenon DEF TryBeginWrite, Goto, KeepsOwner
<1>13. CASE TryBeginRead(t) \/ TryUpgrade(t)
  BY <1>0, <1>13 DEF TryBeginRead, TryUpgrade, At, Goto, KeepsOwner, sigvars
<1>. QED
  BY <1>2, <1>4, <1>5, <1>6, <1>7, <1>8, <1>9, <1>10, <1>11, <1>12, <1>13, ZenonT(30) DEF Step, ClientCall

\* Every step keeps the write mode owned.
LEMMA NextOwned == IInv /\ WriteModeOwned /\ [Next]_vars => WriteModeOwned'
<1>. SUFFICES ASSUME IInv, WriteModeOwned, [Next]_vars PROVE WriteModeOwned'
  OBVIOUS
<1>1. use' = use
  BY NextKeepsUse
<1>2. ASSUME NEW t \in Tasks, Reset(t) PROVE WriteModeOwned'
  BY <1>1, <1>2 DEF Reset, Pay, WriteModeOwned
<1>3. ASSUME UNCHANGED rwvars, dead' = dead PROVE WriteModeOwned'
  BY <1>1, <1>3 DEF rwvars, WriteModeOwned, Writers
<1>4. ASSUME NEW t \in Tasks, SendStep(t) /\ UNCHANGED rwvars PROVE WriteModeOwned'
  BY <1>3, <1>4, SendUndisturbed DEF Undisturbed
<1>5. ASSUME NEW t \in Tasks, Environment(t) PROVE WriteModeOwned'
  BY <1>3, <1>5, OutsideUndisturbed DEF Environment, Undisturbed
<1>6. CASE UNCHANGED vars
  BY <1>3, <1>6, Zenon DEF vars, sigvars
<1>7. ASSUME NEW t \in Tasks, Step(t) \/ ClientCall(t) PROVE WriteModeOwned'
  BY <1>1, <1>2, <1>4, <1>7, CallsKeepOwner, OwnerKept, Zenon
<1>. QED  BY <1>5, <1>6, <1>7 DEF Next

----------------------------------------------------------------------------
(* Nobody sleeps on a free lock *)

WaitPlaces == {"readwait", "writewait", "upwait"}

\* Every send of a krwlock goes to rw_sig and wakes one task or all,
SendsWake == \A u \in Tasks : Sending(u) => snd[u].sig = rw_sig /\ snd[u].mode \in {"one", "all"}

\* who sleeps does so in a receive of rw_sig, and is queued there or popped,
SleepsListed ==
  \A t \in Tasks : tstate[t] # "RUNNING" =>
     pc[t] \in WaitPlaces /\ (t \in Popped \/ t \in Range(waiters[rw_sig]))

\* and, without interrupts, only the receive whose timeout passed reports a timeout:
\* KTASK_FLAG_TIMEDOUT does not outlive it.
TimeInv ==
  ~use.intr =>
     /\ wasintr = {}
     /\ \A t \in timedout : tstate[t] = "RUNNING" /\ t \in tmo /\ pc[t] \in WaitPlaces
     /\ \A t \in Tasks : tstate[t] = "WAITINGTMO" => t \in tmo

\* The inductive invariant behind NoLostWakeup, without TimeInv.
PassInv == SigInv /\ SendsWake /\ SleepsListed /\ NoLostWakeup

\* A send that ends early woke a task which will retry.
SendsGoOn ==
  \A u \in Tasks : SendTo(u, rw_sig) =>
     \/ SendTo(u, rw_sig)' /\ snd'[u].mode = snd[u].mode
     \/ Range(waiters[rw_sig]) = {}
     \/ snd[u].mode = "one" /\ \E x \in Tasks : Retrying(x)'

\* A step that puts nobody to sleep keeps the invariant if no send is lost, the lock
\* becomes free only together with a send, and a task that would have retried does
\* so or takes the lock.
LEMMA WakingPasses ==
  ASSUME PassInv, use' = use, SigInv', SendsWake', KeepsReach, WakesOnly,
         \A x \in Tasks : tstate'[x] # "RUNNING" => pc'[x] = pc[x],
         ~use.intr => SendsGoOn,
         ~use.intr /\ Unheld' =>
            \/ Unheld /\ \A x \in Tasks : Retrying(x) => \E y \in Tasks : Retrying(y)'
            \/ \E u \in Tasks : SendTo(u, rw_sig)'
            \/ Range(waiters[rw_sig]) = {},
         ~use.intr /\ ~wmode' =>
            \/ ~wmode
            \/ \E u \in Tasks : SendTo(u, rw_sig)' /\ snd'[u].mode = "all"
  PROVE  PassInv'
<1>1. SleepsListed'
  BY RWAssumption DEF PassInv, SleepsListed, WakesOnly, KeepsReach
<1>2. ASSUME NEW x \in Tasks, tstate'[x] # "RUNNING", x \in Popped
      PROVE  x \in Popped' /\ \E u \in Tasks : SendTo(u, rw_sig)'
  <2>1. x \in Popped'
    BY <1>2 DEF KeepsReach
  <2>2. PICK u \in Tasks : snd'[u].task = x
    BY <2>1, PoppedHolds, Zenon
  <2>3. Sending(u)'
    BY <2>2, NoSendFacts, TasksAssumption DEF SigInv, SendsSound
  <2>. QED  BY <2>1, <2>3, Zenon DEF SendsWake, SendTo
<1>3. ASSUME NEW x \in Tasks, tstate'[x] # "RUNNING"
      PROVE  tstate[x] # "RUNNING" /\ pc'[x] = pc[x]
             /\ (x \in Popped \/ Range(waiters[rw_sig]) # {})
  BY <1>3 DEF WakesOnly, PassInv, SleepsListed
<1>4. ASSUME ~use.intr, Unheld', NEW x \in Tasks, tstate'[x] # "RUNNING"
      PROVE  \E t \in Tasks : SendTo(t, rw_sig)' \/ Retrying(t)'
  <2>1. CASE x \in Popped
    BY <1>2, <1>4, <2>1, Zenon
  <2>2. CASE Range(waiters[rw_sig]) # {} /\ Unheld
                /\ \A y \in Tasks : Retrying(y) => \E z \in Tasks : Retrying(z)'
    <3>1. PICK t \in Tasks : SendTo(t, rw_sig) \/ Retrying(t)
      BY <1>3, <1>4, <2>2, Zenon DEF PassInv, NoLostWakeup, Asleep
    <3>. QED  BY <1>4, <2>2, <3>1, ZenonT(30) DEF SendsGoOn
  <2>. QED  BY <1>3, <1>4, <2>1, <2>2, Zenon
<1>5. ASSUME ~use.intr, ~wmode', NEW x \in Tasks, tstate'[x] # "RUNNING", pc'[x] = "readwait"
      PROVE  x \in Popped' \/ \E u \in Tasks : SendTo(u, rw_sig)' /\ snd'[u].mode = "all"
  <2>1. CASE x \in Popped
    BY <1>2, <1>5, <2>1, Zenon
  <2>2. CASE x \notin Popped /\ Range(waiters[rw_sig]) # {} /\ ~wmode
    <3>1. PICK u \in Tasks : SendTo(u, rw_sig) /\ snd[u].mode = "all"
      BY <1>3, <1>5, <2>2 DEF PassInv, NoLostWakeup, Asleep
    <3>. QED  BY <1>5, <2>2, <3>1, Zenon DEF SendsGoOn
  <2>. QED  BY <1>3, <1>5, <2>1, <2>2
<1>6. NoLostWakeup'
  BY <1>4, <1>5 DEF NoLostWakeup, Asleep
<1>. QED  BY <1>1, <1>6, Zenon DEF PassInv

\* A task receives rw_sig while the lock is held; a reader, while it is in write mode.
LEMMA ReceivePasses ==
  ASSUME PassInv, use' = use, NEW t \in Tasks, NEW tm, NEW r, Recv(rw_sig, t, tm, r),
         tstate[t] = "RUNNING", \A x \in Tasks : x # t => pc'[x] = pc[x],
         ~Unheld', wmode' = wmode,
         r = "blocked" => pc'[t] \in WaitPlaces /\ (pc'[t] = "readwait" => wmode)
  PROVE  PassInv'
<1>1. /\ SigInv' /\ KeepsReach /\ snd' = snd
      /\ \A x \in Tasks : x # t => tstate'[x] = tstate[x]
      /\ r # "blocked" => waiters' = waiters /\ tstate' = tstate
      /\ r = "blocked" => t \in Range(waiters'[rw_sig])
  <2>1. RecvSet({rw_sig}, t, tm, r) /\ {rw_sig} \in SUBSET Sigs /\ SigInv
    BY RWAssumption DEF Recv, PassInv
  <2>. QED  BY <2>1, RecvKeeps, ZenonT(30)
<1>2. SendsWake'
  BY <1>1 DEF PassInv, SendsWake, Sending
<1>3. SleepsListed'
  BY <1>1, RWAssumption DEF PassInv, SleepsListed, KeepsReach
<1>4. ASSUME ~use.intr, ~wmode', NEW x \in Tasks, tstate'[x] # "RUNNING", pc'[x] = "readwait"
      PROVE  x \in Popped' \/ \E u \in Tasks : SendTo(u, rw_sig)' /\ snd'[u].mode = "all"
  <2>1. x # t
    BY <1>1, <1>4
  <2>2. x \in Popped \/ \E u \in Tasks : SendTo(u, rw_sig) /\ snd[u].mode = "all"
    BY <1>1, <1>4, <2>1, Zenon DEF PassInv, NoLostWakeup, Asleep
  <2>. QED  BY <1>1, <1>4, <2>2, Zenon DEF KeepsReach, SendTo, Sending
<1>5. NoLostWakeup'
  BY <1>4, Zenon DEF NoLostWakeup, Asleep
<1>. QED  BY <1>1, <1>2, <1>3, <1>5, Zenon DEF PassInv

\* A step that leaves the signals alone, after which the lock is held, or as free as before
\* and the acting task on its way to its attempt.
LEMMA QuietPasses ==
  ASSUME PassInv, use' = use, NEW t \in Tasks, UNCHANGED sigvars, tstate[t] = "RUNNING",
         \A x \in Tasks : x # t => pc'[x] = pc[x],
         Unheld' => Unheld /\ pc'[t] \in {"beginread", "beginwrite"},
         ~wmode' => ~wmode
  PROVE  PassInv'
<1>1. /\ SigInv' /\ KeepsReach /\ WakesOnly
      /\ UNCHANGED <<snd, tstate, wasintr, tmo, timedout>>
  BY UnchangedKeeps DEF PassInv, sigvars
<1>2. SendsWake' /\ SendsGoOn
  BY <1>1 DEF PassInv, SendsWake, SendsGoOn, SendTo, Sending
<1>3. Unheld' => \A x \in Tasks : Retrying(x) => \E y \in Tasks : Retrying(y)'
  <2>1. Unheld' => Retrying(t)'
    BY <1>1, Zenon DEF Retrying, Asleep
  <2>. QED  BY <2>1
<1>. QED  BY <1>1, <1>2, <1>3, WakingPasses, Zenon

\* A release that sends to everybody, and a close.
LEMMA SendAllPasses ==
  ASSUME PassInv, use' = use, NEW t \in Tasks, tstate[t] = "RUNNING", ~Sending(t),
         BeginSend(t, "all", rw_sig, 0) \/ CloseSig(t, rw_sig),
         \A x \in Tasks : x # t => pc'[x] = pc[x]
  PROVE  PassInv'
<1>1. /\ SigInv' /\ KeepsReach /\ WakesOnly /\ tstate' = tstate
      /\ \A u \in Tasks : u # t => snd'[u] = snd[u]
      /\ snd'[t].mode = "all" /\ snd'[t].sig = rw_sig
  BY BeginSendKeeps, CloseSigKeeps, RWAssumption, Zenon DEF PassInv, SendModes
<1>2. SendsWake' /\ SendsGoOn
  BY <1>1 DEF PassInv, SendsWake, SendsGoOn, SendTo, Sending
<1>3. SendTo(t, rw_sig)' /\ snd'[t].mode = "all"
  BY <1>1 DEF SendTo, Sending
<1>. QED  BY <1>1, <1>2, <1>3, WakingPasses, ZenonT(30)

\* The release of the last reader, which sends to one.
LEMMA SendOnePasses ==
  ASSUME PassInv, use' = use, NEW t \in Tasks, tstate[t] = "RUNNING", ~Sending(t),
         BeginSendLocked(t, "one", rw_sig), \A x \in Tasks : x # t => pc'[x] = pc[x],
         ~wmode
  PROVE  PassInv'
<1>1. /\ SigInv' /\ KeepsReach /\ WakesOnly /\ tstate' = tstate
      /\ \A u \in Tasks : u # t => snd'[u] = snd[u]
      /\ \/ Range(waiters[rw_sig]) = {}
         \/ snd'[t].mode = "one" /\ snd'[t].sig = rw_sig
  BY BeginSendLockedKeeps, RWAssumption DEF PassInv, SendModes
<1>2. SendsWake'
  <2>1. Sending(t)' => snd'[t].mode = "one" /\ snd'[t].sig = rw_sig
    <3>1. /\ Job("one", rw_sig, 0) \in Sends
          /\ Job("one", rw_sig, 0).mode = "one" /\ Job("one", rw_sig, 0).sig = rw_sig
          /\ Job("one", rw_sig, 0).task = NULL
      BY JobFacts, RWAssumption DEF SendModes
    <3>2. Pop(t, Job("one", rw_sig, 0)) /\ SigTypeOK
      BY Zenon DEF BeginSendLocked, PassInv, SigInv
    <3>3. \/ snd'[t] = After(Job("one", rw_sig, 0), "KS_EMPTY")
          \/ snd'[t].mode = "one" /\ snd'[t].sig = rw_sig
      BY <3>1, <3>2, PopFacts, RWAssumption, ZenonT(30)
    <3>. QED  BY <3>1, <3>3, AfterFacts DEF Sending
  <2>. QED  BY <1>1, <2>1, Zenon DEF PassInv, SendsWake, Sending
<1>3. SendsGoOn
  BY <1>1, Zenon DEF SendsGoOn, SendTo, Sending
<1>4. Range(waiters[rw_sig]) = {} \/ SendTo(t, rw_sig)'
  BY <1>1 DEF SendTo, Sending
<1>. QED  BY <1>1, <1>2, <1>3, <1>4, WakingPasses, ZenonT(30)

\* The steps of a send.
LEMMA SendStepPasses ==
  ASSUME PassInv, TimeInv, use' = use, NEW t \in Tasks, SendStep(t), UNCHANGED rwvars
  PROVE  PassInv'
<1>1. /\ pc' = pc /\ wmode' = wmode /\ Unheld' = Unheld
      /\ UNCHANGED <<wasintr, tmo, timedout>>
  BY ZenonT(30) DEF rwvars, Unheld, SendStep, SendPop, SendReschedule
<1>2. snd[t] \in Sends /\ snd[t].mode \in {"one", "all"} /\ snd[t].sig = rw_sig
  BY DEF SendStep, SendPop, SendReschedule, PassInv, SendsWake, SigInv, SigTypeOK
<1>3. ASSUME NEW x \in Tasks, tstate[x] = "RUNNING" => tstate'[x] = "RUNNING", Retrying(x)
      PROVE  Retrying(x)'
  BY <1>1, <1>3 DEF Retrying, Asleep, WakeResult
<1>4. CASE SendPop(t)
  <2>1. /\ SigInv' /\ KeepsReach /\ WakesOnly /\ tstate' = tstate
        /\ \A u \in Tasks : u # t => snd'[u] = snd[u]
        /\ \/ Range(waiters[rw_sig]) = {} /\ snd'[t] = After(snd[t], "KS_EMPTY")
           \/ snd'[t].mode = snd[t].mode /\ snd'[t].sig = rw_sig
    BY <1>2, <1>4, SendPopKeeps, ZenonT(30) DEF PassInv
  <2>2. SendsWake'
    <3>1. ASSUME Sending(t)' PROVE snd'[t].mode = snd[t].mode /\ snd'[t].sig = rw_sig
      BY <1>2, <2>1, <3>1, AfterFacts DEF Sending
    <3>2. SendsWake
      BY DEF PassInv
    <3>. QED  BY <1>2, <2>1, <3>1, <3>2, Zenon DEF SendsWake, Sending
  <2>3. SendsGoOn
    BY <1>2, <2>1 DEF SendsGoOn, SendTo, Sending
  <2>. QED  BY <1>1, <1>3, <2>1, <2>2, <2>3, WakingPasses, ZenonT(30)
<1>5. CASE SendReschedule(t)
  <2>0. PICK u \in Tasks : u = snd[t].task
    BY <1>5, SendRescheduleKeeps, Zenon DEF PassInv
  <2>1. /\ SigInv' /\ KeepsReach /\ WakesOnly
        /\ \A x \in Tasks : x # t => snd'[x] = snd[x]
        /\ \A x \in Tasks : x # u => tstate'[x] = tstate[x]
        /\ tstate'[u] = "RUNNING"
        /\ \/ snd'[t] = After(snd[t], "KS_UNCHANGED")
           \/ tstate[u] # "RUNNING" /\ snd'[t] = After(snd[t], "KE_OK")
    BY <1>5, <2>0, SendRescheduleKeeps, Zenon DEF PassInv
  <2>2. ~use.intr /\ tstate[u] # "RUNNING" => Retrying(u)'
    <3>. SUFFICES ASSUME ~use.intr, tstate[u] # "RUNNING" PROVE Retrying(u)'
      OBVIOUS
    <3>1. pc'[u] \in WaitPlaces
      BY <1>1, <2>1, Zenon DEF PassInv, SleepsListed
    <3>2. u \notin wasintr' /\ u \notin timedout'
      BY <1>1, <2>1, Zenon DEF TimeInv
    <3>. QED  BY <2>1, <3>1, <3>2 DEF Retrying, Asleep, WakeResult, WaitPlaces
  <2>3. SendsWake'
    <3>1. ASSUME Sending(t)' PROVE snd'[t].mode = snd[t].mode /\ snd'[t].sig = rw_sig
      BY <1>2, <2>1, <3>1, AfterFacts DEF Sending
    <3>2. SendsWake
      BY DEF PassInv
    <3>. QED  BY <1>2, <2>1, <3>1, <3>2, Zenon DEF SendsWake, Sending
  <2>4. \/ SendTo(t, rw_sig)' /\ snd'[t].mode = snd[t].mode
        \/ snd[t].mode = "one" /\ tstate[u] # "RUNNING"
    BY <1>2, <2>1, AfterFacts DEF SendTo, Sending
  <2>5. ~use.intr => SendsGoOn
    BY <2>1, <2>2, <2>4, Zenon DEF SendsGoOn, SendTo, Sending
  <2>6. \A x \in Tasks : Retrying(x) => Retrying(x)'
    BY <1>3, <2>1, Zenon
  <2>. QED  BY <1>1, <2>1, <2>3, <2>5, <2>6, WakingPasses, Zenon
<1>. QED  BY <1>4, <1>5, Zenon DEF SendStep

\* A task returns from its receive: if it got the signal it retries.
LEMMA ResumePasses ==
  ASSUME PassInv, use' = use, NEW t \in Tasks, NEW w \in WaitPlaces,
         NEW p \in {"beginread", "beginwrite", "relock"}, Resume(t, w, p), IInv
  PROVE  PassInv'
<1>0. PICK r \in WakeResults : Woken(t, r) /\ (r = "KE_OK" => pc' = [pc EXCEPT ![t] = p])
  BY DEF Resume, Goto
<1>1. /\ SigInv' /\ KeepsReach /\ WakesOnly /\ snd' = snd /\ tstate' = tstate
  BY <1>0, WokenKeeps, Zenon DEF PassInv
<1>2. /\ pc[t] = w /\ wmode' = wmode /\ Unheld' = Unheld /\ tstate[t] = "RUNNING"
      /\ \A x \in Tasks : x # t => pc'[x] = pc[x]
      /\ r = "KE_OK" => pc'[t] = p
  BY <1>0, Zenon DEF Resume, Leave, Goto, Unheld, IInv, LockTypeOK, Woken, Runs
<1>3. SendsWake' /\ SendsGoOn
  BY <1>1 DEF PassInv, SendsWake, SendsGoOn, SendTo, Sending
<1>4. ASSUME NEW x \in Tasks, Retrying(x) PROVE Retrying(x)'
  <2>1. CASE x = t
    <3>1. WakeResult(t) = "KE_OK"
      BY <1>2, <1>4, <2>1 DEF Retrying, WaitPlaces
    <3>2. r = "KE_OK"
      BY <1>0, <3>1, Zenon DEF Woken
    <3>. QED  BY <1>1, <1>2, <2>1, <3>2, Zenon DEF Retrying, Asleep
  <2>2. CASE x # t
    <3>1. /\ x \in wasintr' <=> x \in wasintr
          /\ x \in tmo' <=> x \in tmo
          /\ x \in timedout' <=> x \in timedout
      BY <1>0, <2>2 DEF Woken
    <3>2. WakeResult(x)' = WakeResult(x)
      BY <3>1 DEF WakeResult
    <3>. QED  BY <1>1, <1>2, <1>4, <2>2, <3>2, Zenon DEF Retrying, Asleep
  <2>. QED  BY <2>1, <2>2
<1>. QED  BY <1>1, <1>2, <1>3, <1>4, WakingPasses, Zenon

\* The timer and interrupts.
LEMMA EnvironmentPasses ==
  ASSUME PassInv, use' = use, NEW t \in Tasks, Environment(t)
  PROVE  PassInv'
<1>1. /\ SigInv' /\ KeepsReach /\ WakesOnly /\ snd' = snd
      /\ pc' = pc /\ wmode' = wmode /\ Unheld' = Unheld
  BY TickKeeps, InterruptKeeps DEF PassInv, Environment, rwvars, Unheld
<1>2. SendsWake' /\ SendsGoOn
  BY <1>1 DEF PassInv, SendsWake, SendsGoOn, SendTo, Sending
<1>3. ASSUME ~use.intr, NEW x \in Tasks, Retrying(x) PROVE Retrying(x)'
  <2>1. Tick(t)
    BY <1>3 DEF Environment
  <2>2. x # t
    BY <1>3, <2>1 DEF Tick, Retrying, Asleep
  <2>3. /\ tstate'[x] = tstate[x] /\ wasintr' = wasintr /\ tmo' = tmo
        /\ x \in timedout' <=> x \in timedout
    BY <2>1, <2>2 DEF Tick, PassInv, SigInv, SigTypeOK
  <2>. QED  BY <1>1, <1>3, <2>3 DEF Retrying, Asleep, WakeResult
<1>. QED  BY <1>1, <1>2, <1>3, WakingPasses, Zenon

\* What IInv says of a task that reads.
LEMMA ReaderFacts ==
  ASSUME IInv, NEW t \in Tasks, pc[t] = "reading"
  PROVE  readc \in Nat /\ readc > 0 /\ ~wmode
<1>1. Cardinality(ReadersAt(pc)) > 0
  BY ReaderLeaves, Zenon DEF IInv, LockTypeOK
<1>. QED  BY <1>1, ReadersDef DEF IInv, LockTypeOK, ReadersCounted

\* The functions a task is inside of, and its releases.
LEMMA StepPasses ==
  ASSUME PassInv, TimeInv, IInv, use' = use, NEW t \in Tasks, Step(t)
  PROVE  PassInv'
<1>0. pc \in [Tasks -> Places] /\ readc \in Nat
  BY DEF IInv, LockTypeOK
<1>1. CASE BeginRead(t)
  <2>1. /\ tstate[t] = "RUNNING" /\ wmode' = wmode
        /\ \A x \in Tasks : x # t => pc'[x] = pc[x]
    BY <1>0, <1>1 DEF BeginRead, At, Free, Runs, RecvOrFail, Leave, Goto
  <2>2. CASE wmode
    <3>1. PICK r \in RecvResults :
             /\ Recv(rw_sig, t, timed[t], r)
             /\ r = "blocked" => pc' = [pc EXCEPT ![t] = "readwait"]
      BY <1>1, <2>2 DEF BeginRead, RecvOrFail, Goto
    <3>2. ~Unheld'
      BY <2>1, <2>2 DEF Unheld
    <3>. QED  BY <1>0, <2>1, <2>2, <3>1, <3>2, ReceivePasses, Zenon DEF WaitPlaces
  <2>3. CASE ~wmode
    <3>1. UNCHANGED sigvars /\ ~Unheld'
      BY <1>0, <1>1, <2>3 DEF BeginRead, Unheld
    <3>. QED  BY <2>1, <3>1, QuietPasses
  <2>. QED  BY <2>2, <2>3
<1>2. CASE BeginWrite(t)
  <2>1. /\ tstate[t] = "RUNNING" /\ readc' = readc
        /\ \A x \in Tasks : x # t => pc'[x] = pc[x]
    BY <1>0, <1>2 DEF BeginWrite, At, Free, Runs, RecvOrFail, Leave, Goto
  <2>2. CASE ~Unheld
    <3>1. PICK r \in RecvResults :
             /\ Recv(rw_sig, t, timed[t], r)
             /\ r = "blocked" => pc' = [pc EXCEPT ![t] = "writewait"]
      BY <1>2, <2>2 DEF BeginWrite, RecvOrFail, Goto
    <3>2. ~Unheld' /\ wmode' = wmode
      BY <1>2, <2>1, <2>2 DEF BeginWrite, Unheld
    <3>. QED  BY <1>0, <2>1, <3>1, <3>2, ReceivePasses, ZenonT(30) DEF WaitPlaces
  <2>3. CASE Unheld
    <3>1. UNCHANGED sigvars /\ wmode' /\ ~Unheld'
      BY <1>2, <2>3 DEF BeginWrite, Unheld
    <3>. QED  BY <2>1, <3>1, QuietPasses
  <2>. QED  BY <2>2, <2>3
<1>3. CASE ReadWoken(t) \/ WriteWoken(t) \/ UpgradeWoken(t)
  BY <1>3, ResumePasses DEF ReadWoken, WriteWoken, UpgradeWoken, WaitPlaces
<1>4. CASE UpgradeRelock(t)
  <2>1. /\ tstate[t] = "RUNNING" /\ UNCHANGED sigvars /\ readc' = readc
        /\ \A x \in Tasks : x # t => pc'[x] = pc[x]
    BY <1>0, <1>4, Zenon DEF UpgradeRelock, At, Free, Runs, Leave, Goto
  <2>2. (Unheld => wmode') /\ (~Unheld => wmode' = wmode)
    BY <1>4 DEF UpgradeRelock, IInv, Unheld
  <2>3. ~Unheld' /\ (~wmode' => ~wmode)
    BY <2>1, <2>2 DEF Unheld
  <2>. QED  BY <2>1, <2>3, QuietPasses
<1>5. CASE EndRead(t)
  <2>1. /\ tstate[t] = "RUNNING" /\ ~Sending(t) /\ wmode' = wmode /\ readc' = readc - 1
        /\ pc[t] = "reading"
        /\ \A x \in Tasks : x # t => pc'[x] = pc[x]
    BY <1>0, <1>5 DEF EndRead, At, Free, Runs, Goto
  <2>2. readc > 0 /\ ~wmode
    BY <2>1, ReaderFacts
  <2>3. CASE readc = 1
    BY <1>5, <2>1, <2>2, <2>3, SendOnePasses, Zenon DEF EndRead
  <2>4. CASE readc # 1
    <3>1. UNCHANGED sigvars /\ ~Unheld'
      BY <1>0, <1>5, <2>1, <2>2, <2>4, SMTT(20) DEF EndRead, Unheld
    <3>. QED  BY <2>1, <2>2, <3>1, QuietPasses, Zenon
  <2>. QED  BY <2>3, <2>4
<1>6. CASE EndWrite(t)
  <2>1. /\ tstate[t] = "RUNNING" /\ ~Sending(t)
        /\ \A x \in Tasks : x # t => pc'[x] = pc[x]
    BY <1>0, <1>6 DEF EndWrite, At, Free, Runs, Goto
  <2>. QED  BY <1>6, <2>1, SendAllPasses DEF EndWrite
<1>7. CASE End(t)
  <2>1. /\ tstate[t] = "RUNNING" /\ ~Sending(t)
        /\ \A x \in Tasks : x # t => pc'[x] = pc[x]
    BY <1>0, <1>7, Zenon DEF End, At, Free, Runs, Goto
  <2>2. CASE readc' = 0
    BY <1>7, <2>1, <2>2, SendAllPasses DEF End
  <2>3. CASE readc' # 0
    <3>1. UNCHANGED sigvars /\ ~Unheld' /\ ~wmode
      BY <1>7, <2>3, ZenonT(30) DEF End, Unheld, IInv
    <3>. QED  BY <2>1, <3>1, QuietPasses, Zenon
  <2>. QED  BY <2>2, <2>3
<1>8. CASE Close(t)
  <2>1. /\ tstate[t] = "RUNNING" /\ ~Sending(t) /\ rw_sig \notin dead
        /\ \A x \in Tasks : x # t => pc'[x] = pc[x]
    BY <1>0, <1>8 DEF Close, At, Free, Runs, Goto, IInv, WritePlaces
  <2>. QED  BY <1>8, <2>1, SendAllPasses DEF Close
<1>9. CASE SendStep(t) /\ UNCHANGED rwvars
  BY <1>9, SendStepPasses
<1>. QED  BY <1>1, <1>2, <1>3, <1>4, <1>5, <1>6, <1>7, <1>8, <1>9, ZenonT(30) DEF Step

\* The calls clients make.
LEMMA ClientCallPasses ==
  ASSUME PassInv, IInv, use' = use, NEW t \in Tasks, ClientCall(t)
  PROVE  PassInv'
<1>0. pc \in [Tasks -> Places] /\ readc \in Nat
  BY DEF IInv, LockTypeOK
<1>1. ASSUME NEW c, NEW tm, Enter(t, c, tm) PROVE PassInv'
  <2>1. /\ tstate[t] = "RUNNING" /\ UNCHANGED sigvars /\ wmode' = wmode /\ Unheld' = Unheld
        /\ pc'[t] \in {"beginread", "beginwrite"}
        /\ \A x \in Tasks : x # t => pc'[x] = pc[x]
    BY <1>0, <1>1 DEF Enter, Free, Runs, Goto, Unheld
  <2>. QED  BY <2>1, QuietPasses
<1>2. ASSUME NEW c, NEW tm, Upgrade(t, c, tm) PROVE PassInv'
  <2>1. /\ tstate[t] = "RUNNING" /\ pc[t] = "reading"
        /\ \A x \in Tasks : x # t => pc'[x] = pc[x]
    BY <1>0, <1>2, Zenon DEF Upgrade, At, Free, Runs, Leave, Goto
  <2>2. readc > 0 /\ ~wmode
    BY <2>1, ReaderFacts, Zenon
  <2>3. CASE readc = 1
    <3>1. UNCHANGED sigvars /\ ~Unheld'
      BY <1>2, <2>3 DEF Upgrade, Unheld
    <3>. QED  BY <2>1, <2>2, <3>1, QuietPasses
  <2>4. CASE readc # 1
    <3>1. PICK r \in RecvResults :
             /\ Recv(rw_sig, t, tm, r)
             /\ r = "blocked" => pc' = [pc EXCEPT ![t] = "upwait"]
      BY <1>2, <2>4 DEF Upgrade, Goto
    <3>2. readc' = readc - 1 /\ wmode' = wmode
      BY <1>2, <2>4 DEF Upgrade
    <3>3. ~Unheld'
      BY <1>0, <2>2, <2>4, <3>2 DEF Unheld
    <3>. QED  BY <1>0, <2>1, <3>1, <3>2, <3>3, ReceivePasses, ZenonT(30) DEF WaitPlaces
  <2>. QED  BY <2>3, <2>4
<1>3. ASSUME NEW c, TryBeginWrite(t, c) PROVE PassInv'
  <2>1. /\ tstate[t] = "RUNNING" /\ UNCHANGED sigvars /\ wmode' /\ ~Unheld'
        /\ \A x \in Tasks : x # t => pc'[x] = pc[x]
    BY <1>0, <1>3 DEF TryBeginWrite, At, Free, Runs, Goto, Unheld
  <2>. QED  BY <2>1, QuietPasses
<1>4. CASE TryBeginRead(t)
  <2>1. /\ tstate[t] = "RUNNING" /\ UNCHANGED sigvars /\ wmode' = wmode /\ ~Unheld'
        /\ \A x \in Tasks : x # t => pc'[x] = pc[x]
    BY <1>0, <1>4 DEF TryBeginRead, At, Free, Runs, Goto, Unheld
  <2>. QED  BY <2>1, QuietPasses
<1>5. CASE TryUpgrade(t)
  <2>1. /\ tstate[t] = "RUNNING" /\ UNCHANGED sigvars /\ wmode' /\ ~Unheld'
        /\ \A x \in Tasks : x # t => pc'[x] = pc[x]
    BY <1>0, <1>5, Zenon DEF TryUpgrade, At, Free, Runs, Goto, Unheld
  <2>. QED  BY <2>1, QuietPasses
<1>6. CASE Downgrade(t)
  <2>1. /\ tstate[t] = "RUNNING" /\ ~Sending(t)
        /\ \A x \in Tasks : x # t => pc'[x] = pc[x]
    BY <1>0, <1>6 DEF Downgrade, At, Free, Runs, Goto
  <2>. QED  BY <1>6, <2>1, SendAllPasses DEF Downgrade
<1>7. CASE Reset(t)
  <2>1. /\ SigInv' /\ KeepsReach /\ WakesOnly /\ snd' = snd
    BY <1>7, ResetSigKeeps DEF Reset, PassInv
  <2>2. SendsWake' /\ SendsGoOn
    BY <2>1 DEF PassInv, SendsWake, SendsGoOn, SendTo, Sending
  <2>3. pc' = pc /\ wmode' = wmode /\ wmode
    BY <1>7 DEF Reset, IInv
  <2>4. ~Unheld'
    BY <2>3, Zenon DEF Unheld
  <2>. QED  BY <2>1, <2>2, <2>3, <2>4, WakingPasses
<1>. QED  BY <1>1, <1>2, <1>3, <1>4, <1>5, <1>6, <1>7, ZenonT(30) DEF ClientCall

\* The flags and the timeouts of all tasks but t stay as they are, and t, which is
\* awake, may be put to sleep.
LEMMA OthersKeepTime ==
  ASSUME TimeInv, use' = use, NEW t \in Tasks, tstate[t] = "RUNNING", pc[t] \notin WaitPlaces,
         wasintr' \subseteq wasintr, timedout' = timedout, tmo \subseteq tmo',
         tstate'[t] = "WAITINGTMO" => t \in tmo',
         \A x \in Tasks : x # t => /\ pc'[x] = pc[x]
                                   /\ tstate'[x] \in {tstate[x], "RUNNING"},
         timedout \subseteq Tasks
  PROVE  TimeInv'
BY DEF TimeInv

\* TimeInv is preserved by the receives and their returns,
LEMMA ReceiveTime ==
  ASSUME TimeInv, SigTypeOK, use' = use, NEW t \in Tasks, NEW tm, NEW r,
         Recv(rw_sig, t, tm, r), tstate[t] = "RUNNING", pc[t] \notin WaitPlaces,
         \A x \in Tasks : x # t => pc'[x] = pc[x]
  PROVE  TimeInv'
<1>1. /\ wasintr' \subseteq wasintr /\ timedout' = timedout /\ tmo \subseteq tmo'
      /\ tstate'[t] = "WAITINGTMO" => t \in tmo'
      /\ \A x \in Tasks : x # t => tstate'[x] = tstate[x]
  BY Zenon DEF Recv, RecvSet, SigTypeOK, sigvars
<1>. QED  BY <1>1, OthersKeepTime, ZenonT(30) DEF SigTypeOK

\* A task that returns from its receive clears the flags of that receive.
LEMMA ResumeTime ==
  ASSUME TimeInv, SigTypeOK, IInv, use' = use, NEW t \in Tasks, NEW w, NEW p, Resume(t, w, p)
  PROVE  TimeInv'
<1>. SUFFICES ASSUME ~use.intr
              PROVE  /\ wasintr' = {}
                     /\ \A x \in timedout' : tstate'[x] = "RUNNING" /\ x \in tmo'
                                             /\ pc'[x] \in WaitPlaces
                     /\ \A x \in Tasks : tstate'[x] = "WAITINGTMO" => x \in tmo'
  BY DEF TimeInv
<1>1. PICK r : Woken(t, r)
  BY DEF Resume
<1>2. \A x \in Tasks : x # t => pc'[x] = pc[x]
  BY Zenon DEF Resume, Leave, Goto, IInv, LockTypeOK
<1>3. wasintr = {} /\ wasintr' = {} /\ tstate' = tstate /\ tstate[t] = "RUNNING"
      /\ tmo' = tmo \ {t}
  BY <1>1, Zenon DEF TimeInv, Woken, Runs
<1>4. t \notin timedout' /\ timedout' \subseteq timedout
  BY <1>1, <1>3, Zenon DEF TimeInv, Woken, WakeResult
<1>5. \A x \in timedout' : tstate'[x] = "RUNNING" /\ x \in tmo' /\ pc'[x] \in WaitPlaces
  BY <1>2, <1>3, <1>4, Zenon DEF TimeInv, SigTypeOK
<1>. QED  BY <1>3, <1>5, Zenon DEF TimeInv

\* by the timer, the sends and interrupts,
LEMMA SignalTime ==
  ASSUME TimeInv, PassInv, use' = use, NEW t \in Tasks,
         UNCHANGED rwvars, SendStep(t) \/ Tick(t) \/ (use.intr /\ Interrupt(t))
  PROVE  TimeInv'
<1>0. pc' = pc /\ SigTypeOK
  BY DEF rwvars, PassInv, SigInv
<1>1. CASE SendStep(t)
  <2>1. UNCHANGED <<wasintr, tmo, timedout>>
    BY <1>1, Zenon DEF SendStep, SendPop, SendReschedule
  <2>2. \A x \in Tasks : tstate'[x] \in {tstate[x], "RUNNING"}
    BY <1>0, <1>1, Zenon DEF SendStep, SendPop, SendReschedule, SigTypeOK
  <2>. QED  BY <1>0, <2>1, <2>2, Zenon DEF TimeInv, SigTypeOK
<1>2. CASE Tick(t)
  <2>1. /\ tstate[t] = "WAITINGTMO" /\ timedout' = timedout \cup {t}
        /\ tmo' = tmo /\ wasintr' = wasintr /\ tstate'[t] = "RUNNING"
        /\ \A x \in Tasks : x # t => tstate'[x] = tstate[x]
    BY <1>0, <1>2, Zenon DEF Tick, SigTypeOK
  <2>2. pc[t] \in WaitPlaces
    BY <2>1 DEF PassInv, SleepsListed
  <2>. QED  BY <1>0, <2>1, <2>2, Zenon DEF TimeInv, SigTypeOK
<1>. QED  BY <1>1, <1>2 DEF TimeInv

\* and by every call that waits for nothing.
LEMMA QuietTime ==
  ASSUME TimeInv, SigTypeOK, use' = use, NEW t \in Tasks, tstate[t] = "RUNNING",
         pc[t] \notin WaitPlaces, UNCHANGED <<tstate, tmo, timedout, wasintr>>,
         \A x \in Tasks : x # t => pc'[x] = pc[x]
  PROVE  TimeInv'
BY OthersKeepTime DEF SigTypeOK

\* So it is preserved by what tasks do inside their calls,
LEMMA StepTime ==
  ASSUME TimeInv, PassInv, IInv, use' = use, NEW t \in Tasks, Step(t)
  PROVE  TimeInv'
<1>0. pc \in [Tasks -> Places] /\ SigTypeOK
  BY Zenon DEF IInv, LockTypeOK, PassInv, SigInv
<1>1. ASSUME NEW tm, NEW p, RecvOrFail(t, tm, p), tstate[t] = "RUNNING", pc[t] \notin WaitPlaces
      PROVE  TimeInv'
  <2>1. PICK r \in RecvResults : Recv(rw_sig, t, tm, r)
    BY <1>1 DEF RecvOrFail
  <2>2. \A x \in Tasks : x # t => pc'[x] = pc[x]
    BY <1>0, <1>1, Zenon DEF RecvOrFail, Leave, Goto
  <2>. QED  BY <1>0, <1>1, <2>1, <2>2, ReceiveTime, ZenonT(30)
<1>2. CASE BeginRead(t) \/ BeginWrite(t)
  <2>1. tstate[t] = "RUNNING" /\ pc[t] \notin WaitPlaces
    BY <1>2 DEF BeginRead, BeginWrite, At, Free, Runs, WaitPlaces
  <2>2. CASE UNCHANGED sigvars
    <3>1. UNCHANGED <<tstate, tmo, timedout, wasintr>>
      BY <2>2 DEF sigvars
    <3>2. \A x \in Tasks : x # t => pc'[x] = pc[x]
      BY <1>0, <1>2 DEF BeginRead, BeginWrite, RecvOrFail, Leave, Goto
    <3>. QED  BY <1>0, <2>1, <3>1, <3>2, QuietTime, Zenon
  <2>. QED  BY <1>1, <1>2, <2>1, <2>2, ZenonT(30) DEF BeginRead, BeginWrite
<1>3. CASE ReadWoken(t) \/ WriteWoken(t) \/ UpgradeWoken(t)
  BY <1>0, <1>3, ResumeTime, ZenonT(30) DEF ReadWoken, WriteWoken, UpgradeWoken
<1>4. CASE UpgradeRelock(t) \/ EndRead(t) \/ EndWrite(t) \/ End(t) \/ Close(t)
  <2>1. tstate[t] = "RUNNING" /\ pc[t] \notin WaitPlaces
    BY <1>4, Zenon DEF UpgradeRelock, EndRead, EndWrite, End, Close, At, Free, Runs, WaitPlaces
  <2>2. UNCHANGED <<tstate, tmo, timedout, wasintr>>
    BY <1>4, Zenon DEF UpgradeRelock, EndRead, EndWrite, End, Close, BeginSend, BeginSendLocked, CloseSig,
                sigvars
  <2>3. \A x \in Tasks : x # t => pc'[x] = pc[x]
    BY <1>0, <1>4, Zenon DEF UpgradeRelock, EndRead, EndWrite, End, Close, Leave, Goto
  <2>. QED  BY <1>0, <2>1, <2>2, <2>3, QuietTime
<1>5. CASE SendStep(t) /\ UNCHANGED rwvars
  BY <1>5, SignalTime, Zenon
<1>. QED  BY <1>2, <1>3, <1>4, <1>5 DEF Step

\* and by the calls they make.
LEMMA ClientCallTime ==
  ASSUME TimeInv, PassInv, IInv, use' = use, NEW t \in Tasks, ClientCall(t)
  PROVE  TimeInv'
<1>0. pc \in [Tasks -> Places] /\ SigTypeOK
  BY DEF IInv, LockTypeOK, PassInv, SigInv
<1>1. ASSUME NEW c, NEW tm, Enter(t, c, tm) PROVE TimeInv'
  <2>1. /\ tstate[t] = "RUNNING" /\ pc[t] \notin WaitPlaces
        /\ UNCHANGED <<tstate, tmo, timedout, wasintr>>
        /\ \A x \in Tasks : x # t => pc'[x] = pc[x]
    BY <1>0, <1>1 DEF Enter, Free, Runs, WaitPlaces, Goto, sigvars
  <2>. QED  BY <1>0, <2>1, QuietTime
<1>2. ASSUME NEW c, NEW tm, Upgrade(t, c, tm) PROVE TimeInv'
  <2>1. /\ tstate[t] = "RUNNING" /\ pc[t] \notin WaitPlaces
        /\ \A x \in Tasks : x # t => pc'[x] = pc[x]
    BY <1>0, <1>2, ZenonT(30) DEF Upgrade, At, Free, Runs, WaitPlaces, Leave, Goto
  <2>2. CASE readc = 1
    <3>1. UNCHANGED <<tstate, tmo, timedout, wasintr>>
      BY <1>2, <2>2, Zenon DEF Upgrade, sigvars
    <3>. QED  BY <1>0, <2>1, <3>1, QuietTime
  <2>3. CASE readc # 1
    <3>1. PICK r \in RecvResults : Recv(rw_sig, t, tm, r)
      BY <1>2, <2>3 DEF Upgrade
    <3>. QED  BY <1>0, <2>1, <3>1, ReceiveTime
  <2>. QED  BY <2>2, <2>3
<1>3. ASSUME NEW c, TryBeginWrite(t, c) PROVE TimeInv'
  <2>1. /\ tstate[t] = "RUNNING" /\ pc[t] \notin WaitPlaces
        /\ UNCHANGED <<tstate, tmo, timedout, wasintr>>
        /\ \A x \in Tasks : x # t => pc'[x] = pc[x]
    BY <1>0, <1>3, ZenonT(30) DEF TryBeginWrite, At, Free, Runs, WaitPlaces, Goto, sigvars
  <2>. QED  BY <1>0, <2>1, QuietTime
<1>4. CASE TryBeginRead(t) \/ TryUpgrade(t) \/ Downgrade(t) \/ Reset(t)
  <2>1. tstate[t] = "RUNNING" /\ pc[t] \notin WaitPlaces
    BY <1>4 DEF TryBeginRead, TryUpgrade, Downgrade, Reset, At, Free, Runs, WaitPlaces
  <2>2. UNCHANGED <<tstate, tmo, timedout, wasintr>>
    BY <1>4 DEF TryBeginRead, TryUpgrade, Downgrade, Reset, BeginSend, ResetSig, sigvars
  <2>3. \A x \in Tasks : x # t => pc'[x] = pc[x]
    BY <1>0, <1>4 DEF TryBeginRead, TryUpgrade, Downgrade, Reset, Goto
  <2>. QED  BY <1>0, <2>1, <2>2, <2>3, QuietTime
<1>. QED  BY <1>1, <1>2, <1>3, <1>4, Zenon DEF ClientCall

\* A new lock has no sleepers, and every step preserves both invariants.
LEMMA InitPass == Init => PassInv /\ TimeInv
<1>. SUFFICES ASSUME Init PROVE PassInv /\ TimeInv
  OBVIOUS
<1>1. SigInv
  BY InitSigInv DEF Init
<1>2. \A t \in Tasks : tstate[t] = "RUNNING" /\ snd[t].mode = "none"
  BY NoSendFacts DEF Init, SigInit
<1>3. SendsWake /\ SleepsListed /\ NoLostWakeup
  BY <1>2 DEF SendsWake, Sending, SleepsListed, NoLostWakeup, Asleep
<1>4. TimeInv
  BY <1>2 DEF Init, SigInit, TimeInv
<1>. QED  BY <1>1, <1>3, <1>4 DEF PassInv

\* Every step passes a free lock on, or leaves somebody who will.
LEMMA NextPass == IInv /\ PassInv /\ TimeInv /\ [Next]_vars => PassInv' /\ TimeInv'
<1>. SUFFICES ASSUME IInv, PassInv, TimeInv, [Next]_vars PROVE PassInv' /\ TimeInv'
  OBVIOUS
<1>1. use' = use
  BY NextKeepsUse
<1>2. ASSUME NEW t \in Tasks, Step(t) \/ ClientCall(t) PROVE PassInv' /\ TimeInv'
  BY <1>1, <1>2, StepPasses, ClientCallPasses, StepTime, ClientCallTime, Zenon
<1>3. ASSUME NEW t \in Tasks, Environment(t) PROVE PassInv' /\ TimeInv'
  BY <1>1, <1>3, EnvironmentPasses, SignalTime, Zenon DEF Environment
<1>4. CASE UNCHANGED vars
  <2>1. /\ SigInv' /\ KeepsReach /\ WakesOnly
        /\ UNCHANGED <<snd, tstate, wasintr, tmo, timedout, pc, wmode, readc>>
    BY <1>4, UnchangedKeeps, Zenon DEF PassInv, vars, sigvars, rwvars
  <2>2. SendsWake' /\ SendsGoOn
    BY <2>1 DEF PassInv, SendsWake, SendsGoOn, SendTo, Sending
  <2>3. Unheld' = Unheld /\ \A x \in Tasks : Retrying(x) => Retrying(x)'
    BY <2>1, ZenonT(30) DEF Unheld, Retrying, Asleep, WakeResult
  <2>4. TimeInv'
    BY <1>1, <2>1 DEF TimeInv
  <2>. QED  BY <1>1, <2>1, <2>2, <2>3, <2>4, WakingPasses, Zenon
<1>. QED  BY <1>2, <1>3, <1>4 DEF Next

\* The lock is passed on: the write mode is owned, and no task sleeps on a lock that is
\* free, or, for a reader, not in write mode, unless its wake-up is under way
\* (krwlock_endread, krwlock_endwrite, krwlock_end, krwlock_downgrade, the upgrades and
\* every timeout).
THEOREM LockIsPassedOn == Spec => []LockPassedOn
<1>1. Init => WriteModeOwned
  BY DEF Init, WriteModeOwned
<1>2. IInv /\ PassInv => TypeOK /\ NoLostWakeup
  BY DEF IInv, PassInv, SigInv, TypeOK
<1>3. TypeOK /\ WriteModeOwned /\ NoLostWakeup => LockPassedOn
  BY DEF LockPassedOn
<1>. QED  BY <1>1, <1>2, <1>3, IInvAlways, NextOwned, InitPass, NextPass, PTL DEF Spec
=============================================================================
