----------------------------- MODULE ByteQueue ------------------------------
(***************************************************************************)
(* What an I/O buffer promises: bytes leave it in the order in which they  *)
(* entered it, each of them once.  IOBuf shows for which uses the ring     *)
(* buffer of src/kernel/iobuf.c implements this.  The bytes are numbered   *)
(* in the order in which writers hand them in.                             *)
(***************************************************************************)
EXTENDS Naturals, Sequences

CONSTANTS IbTasks, MaxBytes

VARIABLES queue,  \* the bytes in the buffer
          out,    \* what the last call of each task has returned
          sent    \* how many bytes writers have handed in

QInit == queue = <<>> /\ out = [t \in IbTasks |-> <<>>] /\ sent = 0

\* A call begins, or returns without data.
Ask(t) == out' = [out EXCEPT ![t] = <<>>] /\ UNCHANGED <<queue, sent>>

Write(t) ==
  /\ out' = [out EXCEPT ![t] = <<>>]
  /\ sent' \in sent .. MaxBytes
  /\ queue' = queue \o [i \in 1 .. sent' - sent |-> sent + i]

Read(t) ==
  \E n \in 1 .. Len(queue) :
    /\ out' = [out EXCEPT ![t] = SubSeq(queue, 1, n)]
    /\ queue' = SubSeq(queue, n + 1, Len(queue))
    /\ UNCHANGED sent

Peek(t) ==
  /\ \E n \in 1 .. Len(queue) : out' = [out EXCEPT ![t] = SubSeq(queue, 1, n)]
  /\ UNCHANGED <<queue, sent>>

\* kiobuf_discard, and the end of a closed buffer
Discard == queue' = <<>> /\ UNCHANGED <<out, sent>>

QNext == Discard \/ \E t \in IbTasks : Ask(t) \/ Write(t) \/ Read(t) \/ Peek(t)

QSpec == QInit /\ [][QNext]_<<queue, out, sent>>
=============================================================================
