------------------------------- MODULE MCData -------------------------------
(* Small instances of PageFrame, RamInfo, IOBuf, DDist and AdDist; one of them *)
(* moves.                                                                      *)
EXTENDS PageFrame, RamInfo, IOBuf, DDist, AdDist, TLC

CONSTANTS p1, p2, r1, r2, w1, b1, b2, c1, c2, a1, a2, a3

VARIABLE part

MCPfThreads == {p1, p2}

\* Two regions of RAM that do not touch; one region.
MCGiven == {[start |-> 1, n |-> 2], [start |-> 4, n |-> 3]}
OneGiven == {[start |-> 1, n |-> 4]}

MCPfUses ==
  {[calls |-> c, asserts |-> a, given |-> MCGiven, at |-> {}] :
     c \in {{"alloc", "free"}, {"alloc", "one", "free"}}, a \in BOOLEAN}
  \cup
  {[calls |-> c, asserts |-> TRUE, given |-> OneGiven, at |-> {[start |-> 2, n |-> 1]}] :
     c \in {{"at", "alloc", "free"}, {"try", "free"}, {"resize", "free"}}}
  \cup
  {[calls |-> {"resize", "free"}, asserts |-> FALSE, given |-> OneGiven, at |-> {}]}

MCIbTasks == {r1, r2, w1}

IbUse(calls, readers, writers, rm, rn, wm, wn, size) ==
  [calls |-> calls, readers |-> readers, writers |-> writers, rmodes |-> rm, rsizes |-> rn,
   wmodes |-> wm, wsizes |-> wn, size |-> size]

\* One reader and bytes written one by one, with everything that keeps the queue;
\* the same with two writers; reads of all there is; two readers; closing a buffer
\* that grows; the calls that move the positions.
MCIbUses ==
  {IbUse({"read", "peek", "write", "discard", "interrupt", "close"}, {r1}, {w1},
         {"first", "none"}, {1, 4}, {"none", "first"}, {1}, IbMax),
   IbUse({"read", "write"}, {r1}, {r2, w1}, {"first"}, {1, 2}, {"first"}, {1}, IbMax),
   IbUse({"read", "write"}, {r1}, {r2, w1}, {"first"}, {IbMax}, {"all"}, {1, 2, 3}, IbMax),
   IbUse({"read", "quick", "write"}, {r1, r2}, {w1}, {"first"}, {1, 2}, {"first"}, {2}, IbMax),
   IbUse({"read", "write", "interrupt", "close", "reset"}, {r1, r2}, {w1},
         {"first", "all"}, {4}, {"none"}, {2}, 0),
   IbUse({"read", "write", "fault", "flush", "reserve", "unread", "unwrite", "setmaxsize"},
         {r1}, {w1}, {"none"}, {1}, {"first"}, {2, 4}, 0)}

MCDdTasks == {b1, b2, c1, c2}
DdBasic == {"adduser", "deluser", "recv", "send"}

DdUse(calls, bakers, bakes, eats, intr, noirq, debug) ==
  [calls |-> calls, bakers |-> bakers, eaters |-> {c1, c2}, bakes |-> bakes, eats |-> eats,
   intr |-> intr, noirq |-> noirq, debug |-> debug]

\* Two bakers; a distributor that is closed and used again; sends that can be
\* preempted; consumers that give up; the debug build.
MCDdUses ==
  {DdUse(DdBasic, {b1, b2}, 2, 4, FALSE, TRUE, FALSE),
   DdUse(DdBasic \cup {"unregistered", "timedsend", "close", "reset"}, {b1}, 3, 3,
         FALSE, TRUE, FALSE),
   DdUse(DdBasic \cup {"asyncsend"}, {b1}, 2, 3, FALSE, TRUE, FALSE),
   DdUse(DdBasic \cup {"asyncsend"}, {b1}, 2, 3, FALSE, FALSE, FALSE),
   DdUse(DdCalls, {b1}, 1, 3, TRUE, TRUE, FALSE),
   DdUse(DdCalls, {b1}, 2, 2, TRUE, FALSE, TRUE)}

MCAdTasks == {a1, a2, a3}

AdUse(readers, blockers, calls, max, sends, n, nomem, intr, tracked) ==
  [readers |-> readers, blockers |-> blockers, calls |-> calls, max |-> max,
   sends |-> sends, n |-> n, nomem |-> nomem, intr |-> intr, tracked |-> tracked]

\* One ticket that is interrupted; one ticket and no memory; tickets that are only
\* polled; two tickets that wait; the same and no buffer; everything else.
MCAdUses ==
  {AdUse({a1}, {a1}, {"delticket", "recv", "tryrecv"}, 2, 4, 5, FALSE, TRUE, FALSE),
   AdUse({a1}, {a1}, {"delticket", "recv", "tryrecv"}, 2, 4, 5, TRUE, FALSE, TRUE),
   AdUse({a1, a2, a3}, {}, {"delticket", "tryrecv"}, 2, 3, 2, FALSE, FALSE, TRUE),
   AdUse({a1, a2}, {a1, a2}, {"delticket", "recv"}, 2, 3, 3, FALSE, FALSE, TRUE),
   AdUse({a1, a2}, {a1, a2}, {"delticket", "recv"}, 1, 3, 2, FALSE, TRUE, FALSE),
   AdUse({a1, a2}, {a1}, {"recv", "timedrecv", "tryrecv", "close", "reset"}, 0, 2, 3,
         FALSE, FALSE, FALSE)}

Symm == Permutations({c1, c2})

Init ==
  /\ part \in {"pf", "rm", "ib", "dd", "ad"}
  /\ PfInit /\ (part # "pf" => pfuse = CHOOSE u \in PfUses : TRUE)
  /\ RmInit /\ (part # "rm" => kernel_end = CHOOSE e \in KernelEnds : TRUE)
  /\ IbInit /\ (part # "ib" => ibuse = CHOOSE u \in IbUses : TRUE)
  /\ DdInit /\ (part # "dd" => dduse = CHOOSE u \in DdUses : TRUE)
  /\ AdInit /\ (part # "ad" => aduse = CHOOSE u \in AdUses : TRUE)

Next ==
  \/ part = "pf" /\ PfNext /\ UNCHANGED <<rmvars, ibvars, ddvars, advars, part>>
  \/ part = "rm" /\ RmNext /\ UNCHANGED <<pfvars, ibvars, ddvars, advars, part>>
  \/ part = "ib" /\ IbNext /\ UNCHANGED <<pfvars, rmvars, ddvars, advars, part>>
  \/ part = "dd" /\ DdNext /\ UNCHANGED <<pfvars, rmvars, ibvars, advars, part>>
  \/ part = "ad" /\ AdNext /\ UNCHANGED <<pfvars, rmvars, ibvars, ddvars, part>>

Spec == Init /\ [][Next]_<<pfvars, rmvars, ibvars, ddvars, advars, part>>
=============================================================================
