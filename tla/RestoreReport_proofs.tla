------------------------ MODULE RestoreReport_proofs ------------------------
(***************************************************************************)
(* What RestoreReport promises of the report, for every number of restores *)
(* and of files: each file is counted once, and nothing is reported that   *)
(* did not happen.                                                         *)
(***************************************************************************)
EXTENDS RestoreReport, FiniteSetTheorems, TLAPS

Counts == [Outcomes -> Nat]
EventType ==
  [type : {"file", "finished", "threadEnd"}, op : Ops, outcome : Outcomes, counts : Counts]

(* What the types rest on: a thread has its restore, and what it did and has yet to do are *)
(* the files that were marked.                                                             *)

ThreadType == [pc : {"idle", "start", "core", "clear"}, op : 0 .. MaxOps, left : 0 .. MaxFiles]

ThreadOK ==
  /\ thread \in ThreadType
  /\ thread.op \in 0 .. begun
  /\ thread.pc = "idle" <=> thread.op = None
  /\ thread.pc = "start" => actual[thread.op] = Zero
  /\ thread.op # None => actual[thread.op]["ok"] + actual[thread.op]["failed"] + thread.left <= MaxFiles

ReportTypes ==
  /\ begun \in 0 .. MaxOps /\ frame \in {None, begun}
  /\ dlg \in {"none", "open", "finished"} /\ (dlg = "none" <=> frame = None)
  /\ exiting \subseteq Ops /\ conns \in Seq(Ops)
  /\ queue \in Seq(EventType)
  /\ counted \in Counts /\ actual \in [Ops -> [Outcomes -> 0 .. MaxFiles]]
  /\ \A o \in Ops : o > begun => actual[o] = Zero
  /\ \A s \in shown : s.op \in 1 .. begun /\ s.counts \in Counts
  /\ {hooked, dismissed, overlap} \subseteq BOOLEAN

Working == thread.pc \in {"start", "core"}
Kind(i) == queue[i].type

(* Until a dialog is dismissed: the restore on the stack is the only one that has files or *)
(* a finished signal on their way, and the finished signal comes behind the files.         *)

QueueInv ==
  /\ Working => frame = thread.op /\ dlg = "open"
  /\ \A i \in DOMAIN queue : Kind(i) # "threadEnd" => queue[i].op = frame /\ dlg = "open"
  /\ \A i \in DOMAIN queue : Kind(i) = "finished" =>
       ~Working /\ \A j \in i + 1 .. Len(queue) : Kind(j) = "threadEnd"

(* And what is counted, or about to be shown, the restore at work has done. *)

Backed(counts, o) == \A r \in Outcomes : counts[r] > 0 => actual[o][r] > 0

BackedInv ==
  /\ Working => Backed(counted, thread.op)
  /\ \A i \in DOMAIN queue : Kind(i) = "file" => actual[queue[i].op][queue[i].outcome] > 0
  /\ \A i \in DOMAIN queue : Kind(i) = "finished" => Backed(queue[i].counts, queue[i].op)
  /\ \A s \in shown : Backed(s.counts, s.op)

(* Until restores overlap: one connection counts while a restore has its thread, and it is *)
(* cut before the next.                                                                    *)

ConnInv ==
  /\ thread.op = None => conns = <<>> \/ exiting # {} \/ \E i \in DOMAIN queue : Kind(i) = "threadEnd"
  /\ thread.op # None =>
       thread.op = begun /\ conns = <<thread.op>> /\ exiting = {} /\ \A i \in DOMAIN queue : Kind(i) # "threadEnd"

HookInv ==
  (thread.pc = "core" \/ \E i \in DOMAIN queue : Kind(i) = "file") => hooked

CountInv == thread.op # None => \A r \in Outcomes : counted[r] + Posted(thread.op, r) = actual[thread.op][r]

TypeInv == ReportTypes /\ ThreadOK
SignalInv == ~dismissed => QueueInv /\ BackedInv
OnceInv == ~dismissed /\ ~overlap => ConnInv /\ HookInv /\ CountInv

-----------------------------------------------------------------------------
(* The file events of a queue. *)

Matches(e, o, r) == e.type = "file" /\ e.op = o /\ e.outcome = r
At(q, o, r) == {i \in DOMAIN q : Matches(q[i], o, r)}
Pending(q, o, r) == Cardinality(At(q, o, r))

LEMMA AtFinite ==
  ASSUME NEW q \in Seq(EventType), NEW o, NEW r
  PROVE  IsFiniteSet(At(q, o, r)) /\ Cardinality(At(q, o, r)) \in Nat
<1>1. IsFiniteSet(1 .. Len(q))
  BY FS_Interval
<1>2. At(q, o, r) \in SUBSET (1 .. Len(q))
  BY DEF At
<1>3. IsFiniteSet(At(q, o, r))
  BY <1>1, <1>2, FS_Subset
<1> QED
  BY <1>3, FS_CardinalityType

LEMMA AtNone ==
  ASSUME NEW q, NEW o, NEW r, \A i \in DOMAIN q : q[i].type # "file"
  PROVE  Cardinality(At(q, o, r)) = 0
<1>1. At(q, o, r) = {}
  BY DEF At, Matches
<1> QED
  BY <1>1, FS_EmptySet

LEMMA AtAppend ==
  ASSUME NEW q \in Seq(EventType), NEW e \in EventType, NEW o, NEW r
  PROVE  Cardinality(At(Append(q, e), o, r)) =
           IF Matches(e, o, r) THEN Cardinality(At(q, o, r)) + 1 ELSE Cardinality(At(q, o, r))
<1> DEFINE n == Len(q) + 1
<1>0. n \notin At(q, o, r)
  BY DEF At
<1>1. CASE Matches(e, o, r)
  <2>1. At(Append(q, e), o, r) = At(q, o, r) \cup {n}
    BY <1>1 DEF At
  <2> QED
    BY <1>0, <1>1, <2>1, AtFinite, FS_AddElement
<1>2. CASE ~Matches(e, o, r)
  <2>1. At(Append(q, e), o, r) = At(q, o, r)
    BY <1>2 DEF At
  <2> QED
    BY <1>2, <2>1
<1> QED
  BY <1>1, <1>2

LEMMA AtTail ==
  ASSUME NEW q \in Seq(EventType), q # <<>>, NEW o, NEW r
  PROVE  Cardinality(At(q, o, r)) =
           IF Matches(Head(q), o, r) THEN Cardinality(At(Tail(q), o, r)) + 1 ELSE Cardinality(At(Tail(q), o, r))
<1> DEFINE S == At(Tail(q), o, r)
           T == At(q, o, r) \ {1}
           f == [i \in S |-> i + 1]
<1>0. Tail(q) \in Seq(EventType) /\ Head(q) = q[1] /\ 1 \in DOMAIN q
  OBVIOUS
<1>1. \A i \in 1 .. Len(q) - 1 : Tail(q)[i] = q[i + 1]
  OBVIOUS
<1>2. S \subseteq 1 .. Len(q) - 1 /\ DOMAIN Tail(q) = 1 .. Len(q) - 1
  BY <1>0 DEF At
<1>3. f \in [S -> T]
  BY <1>1, <1>2 DEF At
<1>4. \A a, b \in S : f[a] = f[b] => a = b
  BY <1>2
<1>5. \A t \in T : \E s \in S : f[s] = t
  <2> SUFFICES ASSUME NEW t \in T PROVE t - 1 \in S /\ f[t - 1] = t
    OBVIOUS
  <2>1. t \in 2 .. Len(q) /\ Matches(q[t], o, r)
    BY DEF At
  <2>2. t - 1 \in DOMAIN Tail(q) /\ Tail(q)[t - 1] = q[t]
    BY <2>1, <1>1, <1>2
  <2>3. t - 1 \in S
    BY <2>1, <2>2 DEF At
  <2> QED
    BY <2>1, <2>3
<1>6. f \in Bijection(S, T)
  BY <1>3, <1>4, <1>5 DEF Bijection, Injection, Surjection, IsInjective
<1>7. Cardinality(T) = Cardinality(S)
  <2>1. IsFiniteSet(S)
    BY <1>0, AtFinite
  <2> HIDE DEF S, T, f
  <2>2. ExistsBijection(S, T)
    BY <1>6 DEF ExistsBijection
  <2> QED
    BY <2>1, <2>2, FS_Bijection
<1>8. IsFiniteSet(At(q, o, r)) /\ Cardinality(At(q, o, r)) \in Nat
  BY AtFinite
<1>9. 1 \in At(q, o, r) <=> Matches(Head(q), o, r)
  BY <1>0 DEF At
<1>10. Cardinality(T) = IF 1 \in At(q, o, r) THEN Cardinality(At(q, o, r)) - 1 ELSE Cardinality(At(q, o, r))
  BY <1>8, FS_RemoveElement
<1>11. Cardinality(S) \in Nat
  BY <1>0, AtFinite
<1> HIDE DEF S, T, f
<1>12. Cardinality(At(q, o, r)) = IF Matches(Head(q), o, r) THEN Cardinality(S) + 1 ELSE Cardinality(S)
  BY <1>7, <1>8, <1>9, <1>10, <1>11
<1> QED
  BY <1>12 DEF S

-----------------------------------------------------------------------------
(* The types. *)

LEMMA TypeInit == Init => TypeInv
<1> SUFFICES ASSUME Init PROVE TypeInv
  OBVIOUS
<1> USE DEF Init, Zero, NoThread, Ops, Outcomes, None
<1>1. ThreadOK
  BY BoundsAssumption DEF ThreadOK, ThreadType
<1>2. /\ conns \in Seq(Ops) /\ queue \in Seq(EventType)
      /\ counted \in Counts /\ actual \in [Ops -> [Outcomes -> 0 .. MaxFiles]]
  BY BoundsAssumption DEF Counts
<1>3. {hooked, dismissed, overlap} \subseteq BOOLEAN
  BY Zenon
<1>4. ReportTypes
  BY <1>2, <1>3, BoundsAssumption DEF ReportTypes
<1> QED
  BY <1>1, <1>4 DEF TypeInv

LEMMA ZeroType == Zero \in Counts /\ \A r \in Outcomes : Zero[r] = 0
  BY DEF Zero, Counts

LEMMA CountUp ==
  ASSUME NEW c \in Counts, NEW r \in Outcomes, NEW n \in Nat
  PROVE  [c EXCEPT ![r] = @ + n] \in Counts
  BY DEF Counts

LEMMA ThreadTyped ==
  ASSUME NEW t \in ThreadType, NEW n \in 0 .. MaxFiles
  PROVE  [t EXCEPT !.left = n] \in ThreadType
  BY DEF ThreadType

LEMMA EventTyped ==
  ASSUME NEW t \in {"file", "finished", "threadEnd"}, NEW o \in Ops, NEW r \in Outcomes, NEW c \in Counts
  PROVE  Event(t, o, r, c) \in EventType
  BY DEF Event, EventType

LEMMA ThreadOp == TypeInv /\ thread.pc # "idle" => thread.op \in Ops
  BY DEF TypeInv, ThreadOK, ThreadType, Ops, None

LEMMA TypeStep == TypeInv /\ [Next]_vars => TypeInv'
<1> SUFFICES ASSUME TypeInv, [Next]_vars PROVE TypeInv'
  OBVIOUS
<1> USE BoundsAssumption DEF TypeInv, ReportTypes, ThreadOK, ThreadType
<1>1. ASSUME NEW n \in 1 .. MaxFiles, BeginRestore(n) PROVE TypeInv'
  <2>1. begun + 1 \in Ops /\ Len(conns) \in Nat
    BY <1>1 DEF BeginRestore, Ops
  <2>2. CASE thread.pc # "idle"
    BY <1>1, <2>1, <2>2 DEF BeginRestore, StartRestorer, Ops, None
  <2>3. CASE thread.pc = "idle"
    <3>1. /\ counted' = Zero /\ conns' = Append(conns, begun + 1)
          /\ thread' = [pc |-> "start", op |-> begun + 1, left |-> n]
          /\ actual' = actual /\ begun' = begun + 1
      BY <1>1, <2>3 DEF BeginRestore, StartRestorer
    <3>2. actual[begun + 1] = Zero
      BY <2>1
    <3>3. ThreadOK'
      BY <1>1, <2>1, <3>1, <3>2, ZeroType DEF Ops, None, Outcomes
    <3>4. ReportTypes'
      BY SMTT(30), <1>1, <2>1, <3>1, ZeroType DEF BeginRestore, Ops, None
    <3> QED
      BY <3>3, <3>4
  <2> QED
    BY <2>2, <2>3
<1>2. CASE AcceptDialog \/ Dismiss
  BY <1>2 DEF AcceptDialog, Dismiss, Return, None
<1>3. CASE DeliverFile
  <2>1. Head(queue) \in EventType /\ Tail(queue) \in Seq(EventType)
    BY <1>3 DEF DeliverFile, Take
  <2>2. Len(conns) \in Nat
    OBVIOUS
  <2>3. Head(queue).outcome \in Outcomes /\ counted \in [Outcomes -> Nat]
    BY <2>1 DEF EventType, Counts
  <2>4. counted' = counted \/ counted' = [counted EXCEPT ![Head(queue).outcome] = @ + Len(conns)]
    BY <1>3 DEF DeliverFile
  <2>5. counted' \in Counts
    BY <2>2, <2>3, <2>4, CountUp
  <2> QED
    BY <1>3, <2>1, <2>5 DEF DeliverFile, Take, history
<1>4. CASE DeliverFinished
  <2>1. Head(queue) \in EventType /\ Tail(queue) \in Seq(EventType)
    BY <1>4 DEF DeliverFinished, Take
  <2>2. CASE Head(queue).op = frame
    <3>1. frame \in 1 .. begun /\ Head(queue).counts \in Counts
      <4>1. Head(queue).op \in Ops /\ Head(queue).counts \in Counts
        BY SMTT(30), <2>1 DEF EventType
      <4>2. frame \in {None, begun} /\ begun \in Nat
        OBVIOUS
      <4> QED
        BY SMTT(30), <2>2, <4>1, <4>2 DEF Ops, None
    <3>2. shown' = shown \cup {[op |-> frame, counts |-> Head(queue).counts]} /\ dlg' = "finished"
      BY <1>4, <2>2 DEF DeliverFinished
    <3>3. \A s \in shown' : s.op \in 1 .. begun /\ s.counts \in Counts
      BY <3>1, <3>2
    <3>4. frame # None
      BY <3>1 DEF None
    <3> QED
      BY <1>4, <2>1, <3>2, <3>3, <3>4 DEF DeliverFinished, Take, history
  <2>3. CASE Head(queue).op # frame
    BY <1>4, <2>1, <2>3 DEF DeliverFinished, Take, history
  <2> QED
    BY <2>2, <2>3
<1>5. CASE DeliverThreadEnd
  <2>1. Tail(queue) \in Seq(EventType)
    BY <1>5 DEF DeliverThreadEnd, Take
  <2> QED
    BY <1>5, <2>1 DEF DeliverThreadEnd, Take, history
<1>6. CASE InstallCallbacks
  BY <1>6, ThreadOp DEF InstallCallbacks, history
<1>7. ASSUME NEW r \in Outcomes, RestoreFile(r) PROVE TypeInv'
  <2>1. thread.op \in Ops /\ thread.pc = "core" /\ thread.left > 0 /\ thread.op # None
    BY <1>7, ThreadOp DEF RestoreFile
  <2>2. actual[thread.op] \in [Outcomes -> 0 .. MaxFiles]
    BY <2>1
  <2>3. actual[thread.op][r] + 1 \in 0 .. MaxFiles
    BY <2>1, <2>2 DEF Outcomes
  <2>4. /\ actual' = [actual EXCEPT ![thread.op][r] = @ + 1]
        /\ thread' = [thread EXCEPT !.left = @ - 1]
    BY <1>7 DEF RestoreFile
  <2>5. actual' \in [Ops -> [Outcomes -> 0 .. MaxFiles]]
    BY <2>1, <2>2, <2>3, <2>4
  <2>6. /\ actual'[thread.op]["ok"] + actual'[thread.op]["failed"] = actual[thread.op]["ok"] + actual[thread.op]["failed"] + 1
        /\ \A o \in Ops : o # thread.op => actual'[o] = actual[o]
    <3> DEFINE a == actual[thread.op]
    <3>1. a \in [Outcomes -> 0 .. MaxFiles] /\ actual'[thread.op] = [a EXCEPT ![r] = @ + 1]
      BY <2>1, <2>2, <2>4
    <3>2. \A o \in Ops : o # thread.op => actual'[o] = actual[o]
      BY <2>4
    <3> HIDE DEF a
    <3>3. [a EXCEPT ![r] = @ + 1]["ok"] + [a EXCEPT ![r] = @ + 1]["failed"] = a["ok"] + a["failed"] + 1
      <4>1. CASE r = "ok"
        BY <3>1, <4>1 DEF Outcomes
      <4>2. CASE r = "failed"
        BY <3>1, <4>2 DEF Outcomes
      <4> QED
        BY <4>1, <4>2 DEF Outcomes
    <3> QED
      BY <3>1, <3>2, <3>3 DEF a
  <2>7. ThreadOK'
    <3> DEFINE old == actual[thread.op]["ok"] + actual[thread.op]["failed"]
               new == actual'[thread.op]["ok"] + actual'[thread.op]["failed"]
    <3>1. new = old + 1 /\ old \in Nat /\ old + thread.left <= MaxFiles
      BY <2>1, <2>2, <2>6 DEF Outcomes
    <3> HIDE DEF old, new
    <3>2. thread' = [thread EXCEPT !.left = @ - 1] /\ begun' = begun
      BY <1>7 DEF RestoreFile
    <3>3. /\ thread'.op = thread.op /\ thread'.pc = "core" /\ thread'.left = thread.left - 1
          /\ new + thread'.left <= MaxFiles
      BY <2>1, <3>1, <3>2
    <3>4. thread' \in ThreadType
      <4>1. thread.left - 1 \in 0 .. MaxFiles
        BY <2>1 DEF ThreadType
      <4> QED
        BY <3>2, <4>1, ThreadTyped
    <3>5. actual'[thread'.op]["ok"] + actual'[thread'.op]["failed"] + thread'.left <= MaxFiles
      BY <3>3 DEF new
    <3>6. thread'.op \in 0 .. begun' /\ thread'.pc # "idle" /\ thread'.op # None /\ thread'.pc # "start"
      BY <2>1, <3>2, <3>3
    <3> HIDE DEF TypeInv, ReportTypes
    <3> QED
      BY <3>4, <3>5, <3>6
  <2>8. Event("file", thread.op, r, Zero) \in EventType
    BY <2>1, EventTyped, ZeroType
  <2>9. queue' \in Seq(EventType)
    BY <1>7, <2>8 DEF RestoreFile
  <2>10. \A o \in Ops : o > begun => actual'[o] = Zero
    BY <2>1, <2>6
  <2>11. ReportTypes'
    BY <1>7, <2>5, <2>9, <2>10 DEF RestoreFile
  <2> QED
    BY <2>7, <2>11
<1>8. CASE FileSystemRefused
  <2>1. thread.op \in Ops
    BY <1>8, ThreadOp DEF FileSystemRefused
  <2>2. actual[thread.op]["ok"] \in Nat /\ actual[thread.op]["failed"] \in Nat
    BY <2>1 DEF Outcomes
  <2>3. /\ thread'.op = thread.op /\ thread'.pc = "core" /\ thread'.left = 0
        /\ actual' = actual /\ begun' = begun
    BY <1>8 DEF FileSystemRefused
  <2>4. actual'[thread'.op]["ok"] + actual'[thread'.op]["failed"] + thread'.left <= MaxFiles
    BY SMTT(30), <2>1, <2>2, <2>3 DEF Ops, None
  <2>5. ThreadOK'
    <3>1. thread'.op \in 0 .. begun' /\ thread'.pc # "idle" /\ thread'.op # None /\ thread'.pc # "start"
      BY <2>1, <2>3 DEF Ops, None
    <3>2. thread' \in ThreadType
      BY <1>8, ThreadTyped DEF FileSystemRefused
    <3> HIDE DEF TypeInv, ReportTypes
    <3> QED
      BY <2>4, <3>1, <3>2
  <2> QED
    BY <1>8, <2>5 DEF FileSystemRefused
<1>9. CASE EmitFinished
  <2>1. thread.op \in Ops
    BY <1>9, ThreadOp DEF EmitFinished
  <2>2. Event("finished", thread.op, "ok", counted) \in EventType
    BY <2>1, EventTyped DEF Outcomes
  <2>3. queue' \in Seq(EventType)
    BY <1>9, <2>2 DEF EmitFinished
  <2> QED
    BY <1>9, <2>1, <2>3 DEF EmitFinished, history
<1>10. CASE ClearRunning
  <2>1. thread.op \in Ops
    BY <1>10, ThreadOp DEF ClearRunning
  <2> QED
    BY <1>10, <2>1 DEF ClearRunning, history, NoThread, None
<1>11. ASSUME NEW o \in Ops, EndThread(o) PROVE TypeInv'
  <2>1. Event("threadEnd", o, "ok", Zero) \in EventType
    BY EventTyped, ZeroType DEF Outcomes
  <2>2. queue' \in Seq(EventType)
    BY <1>11, <2>1 DEF EndThread
  <2> QED
    BY <1>11, <2>2 DEF EndThread, history
<1>12. CASE UNCHANGED vars
  BY <1>12 DEF vars, history
<1> QED
  BY <1>1, <1>2, <1>3, <1>4, <1>5, <1>6, <1>7, <1>8, <1>9, <1>10, <1>11, <1>12 DEF Next, Deliver, WorkerStep

-----------------------------------------------------------------------------
(* Until a dialog is dismissed. *)

LEMMA StaysDismissed == [Next]_vars /\ ~dismissed' => ~dismissed
  BY DEF Next, BeginRestore, AcceptDialog, Dismiss, Return, Deliver, DeliverFile, DeliverFinished, DeliverThreadEnd,
         WorkerStep, InstallCallbacks, RestoreFile, FileSystemRefused, EmitFinished, ClearRunning, EndThread,
         history, vars

LEMMA Queued ==
  ASSUME TypeInv, NEW i \in DOMAIN queue
  PROVE  queue[i] \in EventType
  BY DEF TypeInv, ReportTypes

LEMMA Delivered ==
  ASSUME TypeInv, NEW t, Take(t)
  PROVE  /\ 1 \in DOMAIN queue /\ Head(queue) = queue[1] /\ Kind(1) = t
         /\ Len(queue') = Len(queue) - 1 /\ DOMAIN queue' = 1 .. Len(queue) - 1
         /\ \A i \in DOMAIN queue' : i + 1 \in DOMAIN queue /\ queue'[i] = queue[i + 1]
<1>1. queue \in Seq(EventType) /\ queue # <<>>
  BY DEF TypeInv, ReportTypes, Take
<1> QED
  BY <1>1 DEF Take, Kind

LEMMA AppendedAt ==
  ASSUME TypeInv, NEW e, queue' = Append(queue, e)
  PROVE  /\ Len(queue') = Len(queue) + 1 /\ queue'[Len(queue) + 1] = e
         /\ DOMAIN queue' = DOMAIN queue \cup {Len(queue) + 1}
         /\ \A i \in DOMAIN queue : queue'[i] = queue[i]
<1>1. queue \in Seq(EventType)
  BY DEF TypeInv, ReportTypes
<1> QED
  BY <1>1

\* No restore on the stack: nothing of one is on its way.
LEMMA IdleQueue ==
  ASSUME TypeInv, QueueInv, dlg # "open"
  PROVE  ~Working /\ \A i \in DOMAIN queue : Kind(i) = "threadEnd"
  BY DEF QueueInv

LEMMA QueueStep == TypeInv /\ QueueInv /\ [Next]_vars /\ ~dismissed' => QueueInv'
<1> SUFFICES ASSUME TypeInv, QueueInv, [Next]_vars, ~dismissed' PROVE QueueInv'
  OBVIOUS
<1> USE DEF QueueInv, Working, Kind
<1>0. Len(queue) \in Nat /\ DOMAIN queue = 1 .. Len(queue)
  BY DEF TypeInv, ReportTypes
<1>1. ASSUME NEW n \in 1 .. MaxFiles, BeginRestore(n) PROVE QueueInv'
  <2>1. dlg # "open" /\ queue' = queue /\ dlg' = "open"
    BY <1>1 DEF BeginRestore, TypeInv, ReportTypes
  <2>2. ~Working /\ \A i \in DOMAIN queue : Kind(i) = "threadEnd"
    BY <2>1, IdleQueue
  <2>3. thread' = thread \/ (thread'.op = frame' /\ dlg' = "open")
    BY <1>1 DEF BeginRestore, StartRestorer
  <2> QED
    BY <2>1, <2>2, <2>3
<1>2. CASE AcceptDialog
  <2>1. ~Working /\ \A i \in DOMAIN queue : Kind(i) = "threadEnd"
    BY <1>2, IdleQueue DEF AcceptDialog
  <2> QED
    BY <1>2, <2>1 DEF AcceptDialog, Return
<1>3. CASE Dismiss
  BY <1>3 DEF Dismiss
<1>4. CASE DeliverFile
  <2>1. \A i \in DOMAIN queue' : i + 1 \in DOMAIN queue /\ queue'[i] = queue[i + 1]
    BY <1>4, Delivered DEF DeliverFile
  <2>2. Len(queue') = Len(queue) - 1 /\ DOMAIN queue' = 1 .. Len(queue')
    BY <1>4, Delivered DEF DeliverFile
  <2>3. UNCHANGED <<thread, frame, dlg>>
    BY <1>4 DEF DeliverFile
  <2> QED
    BY <1>0, <2>1, <2>2, <2>3
<1>5. CASE DeliverFinished
  <2>1. 1 \in DOMAIN queue /\ Kind(1) = "finished" /\ Head(queue) = queue[1]
    BY <1>5, Delivered DEF DeliverFinished
  <2>2. ~Working /\ \A j \in 2 .. Len(queue) : Kind(j) = "threadEnd"
    BY <2>1
  <2>3. \A i \in DOMAIN queue' : queue'[i].type = "threadEnd"
    <3>1. DOMAIN queue' = 1 .. Len(queue) - 1 /\ \A i \in DOMAIN queue' : queue'[i] = queue[i + 1]
      BY <1>5, Delivered DEF DeliverFinished
    <3>2. \A i \in 1 .. Len(queue) - 1 : i + 1 \in 2 .. Len(queue)
      BY <1>0
    <3> QED
      BY <2>2, <3>1, <3>2
  <2>4. UNCHANGED <<thread, frame>>
    BY <1>5 DEF DeliverFinished
  <2> QED
    BY <2>2, <2>3, <2>4
<1>6. CASE DeliverThreadEnd
  <2>1. \A i \in DOMAIN queue' : i + 1 \in DOMAIN queue /\ queue'[i] = queue[i + 1]
    BY <1>6, Delivered DEF DeliverThreadEnd
  <2>2. Len(queue') = Len(queue) - 1 /\ DOMAIN queue' = 1 .. Len(queue')
    BY <1>6, Delivered DEF DeliverThreadEnd
  <2>3. UNCHANGED <<thread, frame, dlg>>
    BY <1>6 DEF DeliverThreadEnd
  <2> QED
    BY <1>0, <2>1, <2>2, <2>3
<1>7. CASE InstallCallbacks
  BY <1>7 DEF InstallCallbacks, TypeInv, ThreadOK, ThreadType
<1>8. ASSUME NEW r \in Outcomes, RestoreFile(r) PROVE QueueInv'
  <2>1. Working /\ thread'.op = thread.op /\ UNCHANGED <<frame, dlg>>
    BY <1>8 DEF RestoreFile, TypeInv, ThreadOK, ThreadType
  <2>2. frame = thread.op /\ dlg = "open" /\ \A i \in DOMAIN queue : Kind(i) # "finished"
    BY <2>1
  <2>3. CASE hooked
    <3>1. queue' = Append(queue, Event("file", thread.op, r, Zero))
      BY <1>8, <2>3 DEF RestoreFile
    <3> QED
      BY <2>1, <2>2, <3>1, AppendedAt DEF Event
  <2>4. CASE ~hooked
    BY <1>8, <2>1, <2>2, <2>4 DEF RestoreFile
  <2> QED
    BY <2>3, <2>4
<1>9. CASE FileSystemRefused
  BY <1>9 DEF FileSystemRefused, TypeInv, ThreadOK, ThreadType
<1>10. CASE EmitFinished
  <2>1. Working /\ thread'.pc = "clear" /\ UNCHANGED <<frame, dlg>>
    BY <1>10 DEF EmitFinished, history, TypeInv, ThreadOK, ThreadType
  <2>2. frame = thread.op /\ dlg = "open" /\ \A i \in DOMAIN queue : Kind(i) # "finished"
    BY <2>1
  <2>3. queue' = Append(queue, Event("finished", thread.op, "ok", counted))
    BY <1>10 DEF EmitFinished
  <2> QED
    BY <1>0, <2>1, <2>2, <2>3, AppendedAt DEF Event
<1>11. CASE ClearRunning
  BY <1>11 DEF ClearRunning, NoThread, history
<1>12. ASSUME NEW o \in Ops, EndThread(o) PROVE QueueInv'
  <2>1. queue' = Append(queue, Event("threadEnd", o, "ok", Zero)) /\ UNCHANGED <<thread, frame, dlg>>
    BY <1>12 DEF EndThread
  <2> QED
    BY <1>0, <2>1, AppendedAt DEF Event
<1>13. CASE UNCHANGED vars
  BY <1>13 DEF vars
<1> QED
  BY <1>1, <1>2, <1>3, <1>4, <1>5, <1>6, <1>7, <1>8, <1>9, <1>10, <1>11, <1>12, <1>13 DEF Next, Deliver, WorkerStep

\* A step copies at most one file, of the restore at work.
LEMMA ActualGrows ==
  ASSUME TypeInv, [Next]_vars
  PROVE  \A o \in Ops, r \in Outcomes : actual[o][r] > 0 => actual'[o][r] > 0
<1>1. ASSUME NEW r \in Outcomes, RestoreFile(r)
      PROVE  \A o \in Ops, s \in Outcomes : actual'[o][s] = IF o = thread.op /\ s = r THEN actual[o][s] + 1 ELSE actual[o][s]
  BY <1>1 DEF RestoreFile, TypeInv, ReportTypes
<1>2. \A o \in Ops, r \in Outcomes : actual[o][r] \in Nat
  BY BoundsAssumption DEF TypeInv, ReportTypes
<1>3. (\E r \in Outcomes : RestoreFile(r)) \/ actual' = actual
  BY DEF Next, BeginRestore, AcceptDialog, Dismiss, Return, Deliver, DeliverFile, DeliverFinished,
         DeliverThreadEnd, WorkerStep, InstallCallbacks, FileSystemRefused, EmitFinished, ClearRunning, EndThread,
         history, vars
<1>4. CASE actual' = actual
  BY <1>4
<1>5. CASE \E r \in Outcomes : RestoreFile(r)
  BY <1>1, <1>2, <1>5
<1> QED
  BY <1>3, <1>4, <1>5

EventBacked(e) ==
  /\ e.type = "file" => actual[e.op][e.outcome] > 0
  /\ e.type = "finished" => Backed(e.counts, e.op)

LEMMA BackedByEvents ==
  BackedInv <=> /\ Working => Backed(counted, thread.op)
                /\ \A i \in DOMAIN queue : EventBacked(queue[i])
                /\ \A s \in shown : Backed(s.counts, s.op)
  BY DEF BackedInv, EventBacked, Kind

\* What was backed stays backed.
LEMMA BackedStays ==
  ASSUME TypeInv, [Next]_vars
  PROVE  /\ \A c \in Counts, o \in Ops : Backed(c, o) => Backed(c, o)'
         /\ \A e \in EventType : EventBacked(e) => EventBacked(e)'
         /\ Working /\ Backed(counted, thread.op) => \A r \in Outcomes : counted[r] > 0 => actual'[thread.op][r] > 0
         /\ (\A s \in shown : Backed(s.counts, s.op)) => \A s \in shown, r \in Outcomes : s.counts[r] > 0 => actual'[s.op][r] > 0
<1>1. \A o \in Ops, r \in Outcomes : actual[o][r] > 0 => actual'[o][r] > 0
  BY ActualGrows
<1>2. \A c \in Counts, o \in Ops : Backed(c, o) => Backed(c, o)'
  BY <1>1 DEF Backed
<1>3. \A e \in EventType : EventBacked(e) => EventBacked(e)'
  BY <1>1, <1>2 DEF EventBacked, EventType, Backed
<1>4. Working => thread.op \in Ops
  BY ThreadOp DEF Working
<1>5. \A s \in shown : s.op \in Ops
  BY BoundsAssumption DEF TypeInv, ReportTypes, Ops
<1> QED
  BY <1>1, <1>2, <1>3, <1>4, <1>5 DEF Backed

LEMMA BackedStep == TypeInv /\ QueueInv /\ BackedInv /\ [Next]_vars /\ ~dismissed' => BackedInv'
<1> SUFFICES ASSUME TypeInv, QueueInv, BackedInv, [Next]_vars, ~dismissed' PROVE BackedInv'
  OBVIOUS
<1> DEFINE CountedOK == Working => Backed(counted, thread.op)
           QueueOK == \A i \in DOMAIN queue : EventBacked(queue[i])
           ShownOK == \A s \in shown : Backed(s.counts, s.op)
<1>0. CountedOK /\ QueueOK /\ ShownOK
  BY BackedByEvents
<1>a. CountedOK' /\ QueueOK' /\ ShownOK' => BackedInv'
  BY BackedByEvents, PTL
<1>b. UNCHANGED <<thread, counted>> => CountedOK'
  BY <1>0, BackedStays DEF Working, Backed
<1>c. UNCHANGED shown => ShownOK'
  BY <1>0, BackedStays DEF Backed
<1>d. (\A i \in DOMAIN queue' : \E j \in DOMAIN queue : queue'[i] = queue[j]) => QueueOK'
  <2> SUFFICES ASSUME \A i \in DOMAIN queue' : \E j \in DOMAIN queue : queue'[i] = queue[j],
                      NEW i \in DOMAIN queue'
               PROVE  EventBacked(queue[i])'
    OBVIOUS
  <2>1. PICK j \in DOMAIN queue : queue'[i] = queue[j]
    OBVIOUS
  <2>2. queue[j] \in EventType /\ EventBacked(queue[j])
    BY <1>0, Queued
  <2> QED
    BY <2>1, <2>2, BackedStays DEF EventBacked, Backed
<1>e. UNCHANGED queue => QueueOK'
  BY <1>d
<1>f. ASSUME NEW t, Take(t) PROVE QueueOK'
  BY <1>d, <1>f, Delivered
<1>g. ASSUME NEW e \in EventType, queue' = Append(queue, e), EventBacked(e)' PROVE QueueOK'
  <2> SUFFICES ASSUME NEW i \in DOMAIN queue' PROVE EventBacked(queue[i])'
    OBVIOUS
  <2>1. CASE i \in DOMAIN queue
    <3>1. queue'[i] = queue[i] /\ queue[i] \in EventType /\ EventBacked(queue[i])
      BY <1>0, <1>g, <2>1, AppendedAt, Queued
    <3> QED
      BY <3>1, BackedStays DEF EventBacked, Backed
  <2>2. CASE i \notin DOMAIN queue
    <3>1. queue'[i] = e
      BY <1>g, <2>2, AppendedAt
    <3> QED
      BY <1>g, <3>1 DEF EventBacked, Backed
  <2> QED
    BY <2>1, <2>2
<1>1. ASSUME NEW n \in 1 .. MaxFiles, BeginRestore(n) PROVE BackedInv'
  <2>1. UNCHANGED <<queue, shown>>
    BY <1>1 DEF BeginRestore
  <2>2. ~Working
    BY <1>1, IdleQueue DEF BeginRestore, TypeInv, ReportTypes
  <2>3. CASE thread.pc # "idle"
    BY <1>1, <1>a, <1>b, <1>c, <1>e, <2>1, <2>3 DEF BeginRestore, StartRestorer
  <2>4. CASE thread.pc = "idle"
    <3>1. counted' = Zero
      BY <1>1, <2>4 DEF BeginRestore, StartRestorer
    <3>2. CountedOK'
      BY <3>1, ZeroType DEF Backed
    <3> QED
      BY <1>a, <1>c, <1>e, <2>1, <3>2
  <2> QED
    BY <2>3, <2>4
<1>2. CASE AcceptDialog
  BY <1>2, <1>a, <1>b, <1>c, <1>e DEF AcceptDialog, Return
<1>3. CASE Dismiss
  BY <1>3 DEF Dismiss
<1>4. CASE DeliverFile
  <2>1. 1 \in DOMAIN queue /\ Kind(1) = "file" /\ Head(queue) = queue[1]
    BY <1>4, Delivered DEF DeliverFile
  <2>2. queue[1] \in EventType /\ actual[queue[1].op][queue[1].outcome] > 0 /\ queue[1].op = frame
    BY <1>0, <2>1, Queued DEF QueueInv, EventBacked, Kind
  <2>3. CountedOK'
    <3> SUFFICES ASSUME Working PROVE \A r \in Outcomes : counted'[r] > 0 => actual[frame][r] > 0
      BY <1>4 DEF DeliverFile, Working, Backed, QueueInv, history
    <3>1. \A r \in Outcomes : counted[r] > 0 => actual[frame][r] > 0
      BY <1>0 DEF Backed, QueueInv
    <3>2. counted \in [Outcomes -> Nat] /\ queue[1].outcome \in Outcomes
      BY <2>2 DEF TypeInv, ReportTypes, Counts, EventType
    <3>3. \A r \in Outcomes : r # queue[1].outcome => counted'[r] = counted[r]
      BY <1>4, <2>1, <3>2 DEF DeliverFile
    <3> QED
      BY <2>2, <3>1, <3>2, <3>3
  <2> QED
    BY <1>4, <1>a, <1>c, <1>f, <2>3 DEF DeliverFile
<1>5. CASE DeliverFinished
  <2>1. 1 \in DOMAIN queue /\ Kind(1) = "finished" /\ Head(queue) = queue[1]
    BY <1>5, Delivered DEF DeliverFinished
  <2>2. queue[1] \in EventType /\ Backed(queue[1].counts, frame) /\ queue[1].op = frame
    BY <1>0, <2>1, Queued DEF QueueInv, EventBacked, Kind
  <2>3. shown' = shown \cup {[op |-> frame, counts |-> queue[1].counts]} /\ UNCHANGED <<actual, thread, counted>>
    BY <1>5, <2>1, <2>2 DEF DeliverFinished, history
  <2>4. ShownOK'
    BY <1>0, <2>2, <2>3 DEF Backed
  <2> QED
    BY <1>5, <1>a, <1>b, <1>f, <2>3, <2>4 DEF DeliverFinished
<1>6. CASE DeliverThreadEnd
  BY <1>6, <1>a, <1>b, <1>c, <1>f DEF DeliverThreadEnd
<1>7. CASE InstallCallbacks
  <2>1. Working /\ thread'.op = thread.op /\ UNCHANGED <<counted, actual>>
    BY <1>7 DEF InstallCallbacks, Working, history, TypeInv, ThreadOK, ThreadType
  <2>2. CountedOK'
    BY <1>0, <2>1 DEF Backed
  <2> QED
    BY <1>7, <1>a, <1>c, <1>e, <2>2 DEF InstallCallbacks
<1>8. ASSUME NEW r \in Outcomes, RestoreFile(r) PROVE BackedInv'
  <2>1. Working /\ thread'.op = thread.op /\ thread.op \in Ops /\ counted' = counted
    BY <1>8, ThreadOp DEF RestoreFile, Working, TypeInv, ThreadOK, ThreadType
  <2>2. CountedOK'
    BY <1>0, <2>1, BackedStays DEF Backed
  <2>3. Event("file", thread.op, r, Zero) \in EventType
    BY <2>1, EventTyped, ZeroType
  <2>4. actual'[thread.op][r] > 0
    BY <1>8, <2>1, BoundsAssumption DEF RestoreFile, TypeInv, ReportTypes
  <2>5. EventBacked(Event("file", thread.op, r, Zero))'
    BY <2>1, <2>4 DEF EventBacked, Event
  <2>6. QueueOK'
    BY <1>8, <1>e, <1>g, <2>3, <2>4 DEF RestoreFile, EventBacked, Event
  <2> QED
    BY <1>8, <1>a, <1>c, <2>2, <2>6 DEF RestoreFile
<1>9. CASE FileSystemRefused
  <2>1. Working /\ thread'.op = thread.op /\ UNCHANGED <<counted, actual>>
    BY <1>9 DEF FileSystemRefused, Working, TypeInv, ThreadOK, ThreadType
  <2>2. CountedOK'
    BY <1>0, <2>1 DEF Backed
  <2> QED
    BY <1>9, <1>a, <1>c, <1>e, <2>2 DEF FileSystemRefused
<1>10. CASE EmitFinished
  <2>1. /\ Working /\ thread.op \in Ops /\ thread'.pc = "clear" /\ UNCHANGED <<actual, shown>>
        /\ queue' = Append(queue, Event("finished", thread.op, "ok", counted))
    BY <1>10, ThreadOp DEF EmitFinished, Working, history, TypeInv, ThreadOK, ThreadType
  <2>2. Event("finished", thread.op, "ok", counted) \in EventType
    BY <2>1, EventTyped DEF Outcomes, TypeInv, ReportTypes
  <2>3. QueueOK'
    <3> DEFINE e == Event("finished", thread.op, "ok", counted)
    <3>1. EventBacked(e)
      BY <1>0, <2>1 DEF EventBacked, Event
    <3> QED
      BY <1>g, <2>1, <2>2, <3>1 DEF EventBacked, Event, Backed
  <2> QED
    BY <1>a, <1>c, <2>1, <2>3 DEF Working
<1>11. CASE ClearRunning
  <2>1. ~Working' /\ UNCHANGED <<queue, shown>>
    BY <1>11 DEF ClearRunning, NoThread, Working
  <2> QED
    BY <1>a, <1>c, <1>e, <2>1
<1>12. ASSUME NEW o \in Ops, EndThread(o) PROVE BackedInv'
  <2>1. queue' = Append(queue, Event("threadEnd", o, "ok", Zero)) /\ UNCHANGED <<thread, counted, shown>>
    BY <1>12 DEF EndThread
  <2>2. Event("threadEnd", o, "ok", Zero) \in EventType
    BY EventTyped, ZeroType DEF Outcomes
  <2>3. QueueOK'
    BY <1>g, <2>1, <2>2 DEF EventBacked, Event
  <2> QED
    BY <1>a, <1>b, <1>c, <2>1, <2>3
<1>13. CASE UNCHANGED vars
  BY <1>13, <1>a, <1>b, <1>c, <1>e DEF vars
<1> QED
  BY <1>1, <1>2, <1>3, <1>4, <1>5, <1>6, <1>7, <1>8, <1>9, <1>10, <1>11, <1>12, <1>13 DEF Next, Deliver, WorkerStep

-----------------------------------------------------------------------------
(* Until restores overlap. *)

LEMMA StaysOverlapped == [Next]_vars /\ ~overlap' => ~overlap
  BY Zenon DEF Next, BeginRestore, AcceptDialog, Dismiss, Return, Deliver, DeliverFile, DeliverFinished, DeliverThreadEnd,
         WorkerStep, InstallCallbacks, RestoreFile, FileSystemRefused, EmitFinished, ClearRunning, EndThread,
         history, vars

\* A restore that begins without an overlap finds nothing of an earlier one.
LEMMA CleanBegin ==
  ASSUME TypeInv, ConnInv, NEW n \in 1 .. MaxFiles, BeginRestore(n), ~overlap'
  PROVE  /\ queue = <<>> /\ exiting = {} /\ conns' = <<begun + 1>> /\ counted' = Zero
         /\ thread' = [pc |-> "start", op |-> begun + 1, left |-> n] /\ begun + 1 \in Ops
<1>1. thread.pc = "idle" /\ exiting = {} /\ queue = <<>>
  BY DEF BeginRestore
<1>2. thread.op = None /\ conns \in Seq(Ops) /\ begun + 1 \in Ops
  BY <1>1, BoundsAssumption DEF TypeInv, ThreadOK, ReportTypes, BeginRestore, Ops
<1>3. conns = <<>>
  BY <1>1, <1>2 DEF ConnInv
<1>4. conns' = Append(conns, begun + 1)
  BY <1>1 DEF BeginRestore, StartRestorer
<1> QED
  BY <1>1, <1>2, <1>3, <1>4 DEF BeginRestore, StartRestorer

LEMMA HookStep == TypeInv /\ QueueInv /\ HookInv /\ [Next]_vars /\ ~dismissed' => HookInv'
<1> SUFFICES ASSUME TypeInv, QueueInv, HookInv, [Next]_vars, ~dismissed' PROVE HookInv'
  OBVIOUS
<1> USE DEF HookInv, Kind
<1>1. ASSUME NEW n \in 1 .. MaxFiles, BeginRestore(n) PROVE HookInv'
  BY <1>1 DEF BeginRestore, StartRestorer
<1>2. CASE AcceptDialog
  <2>1. ~Working /\ \A i \in DOMAIN queue : Kind(i) = "threadEnd"
    BY <1>2, IdleQueue DEF AcceptDialog
  <2> QED
    BY <1>2, <2>1 DEF AcceptDialog, Return, Working
<1>3. CASE Dismiss
  BY <1>3 DEF Dismiss
<1>4. CASE Deliver
  <2>1. \A i \in DOMAIN queue' : i + 1 \in DOMAIN queue /\ queue'[i] = queue[i + 1]
    BY <1>4, Delivered DEF Deliver, DeliverFile, DeliverFinished, DeliverThreadEnd
  <2>2. UNCHANGED <<thread, hooked>>
    BY <1>4 DEF Deliver, DeliverFile, DeliverFinished, DeliverThreadEnd
  <2> QED
    BY <2>1, <2>2
<1>5. CASE InstallCallbacks
  BY <1>5 DEF InstallCallbacks
<1>6. ASSUME NEW r \in Outcomes, RestoreFile(r) PROVE HookInv'
  BY <1>6 DEF RestoreFile
<1>7. CASE FileSystemRefused
  BY <1>7 DEF FileSystemRefused
<1>8. CASE EmitFinished
  <2>1. /\ thread.pc = "core" /\ hooked' = hooked
        /\ queue' = Append(queue, Event("finished", thread.op, "ok", counted))
    BY <1>8 DEF EmitFinished
  <2> QED
    BY <2>1
<1>9. CASE ClearRunning
  BY <1>9 DEF ClearRunning, NoThread
<1>10. ASSUME NEW o \in Ops, EndThread(o) PROVE HookInv'
  <2>1. queue' = Append(queue, Event("threadEnd", o, "ok", Zero)) /\ UNCHANGED <<thread, hooked>>
    BY <1>10 DEF EndThread
  <2> QED
    BY <2>1, AppendedAt DEF Event
<1>11. CASE UNCHANGED vars
  BY <1>11 DEF vars
<1> QED
  BY <1>1, <1>2, <1>3, <1>4, <1>5, <1>6, <1>7, <1>8, <1>9, <1>10, <1>11 DEF Next, WorkerStep

LEMMA ConnStep == TypeInv /\ ConnInv /\ [Next]_vars /\ ~overlap' => ConnInv'
<1> SUFFICES ASSUME TypeInv, ConnInv, [Next]_vars, ~overlap' PROVE ConnInv'
  OBVIOUS
<1> USE DEF ConnInv, Kind
<1>1. ASSUME NEW n \in 1 .. MaxFiles, BeginRestore(n) PROVE ConnInv'
  <2>1. /\ queue' = <<>> /\ exiting' = {} /\ conns' = <<begun + 1>>
        /\ thread'.op = begun + 1 /\ begun' = begun + 1 /\ begun + 1 # None
    BY <1>1, CleanBegin DEF BeginRestore, Ops, None
  <2> QED
    BY <2>1
<1>2. CASE AcceptDialog \/ Dismiss
  BY <1>2 DEF AcceptDialog, Dismiss, Return
<1>3. ASSUME NEW t, Take(t), t # "threadEnd", UNCHANGED <<begun, thread, exiting, conns>> PROVE ConnInv'
  <2>1. \A i \in DOMAIN queue' : i + 1 \in DOMAIN queue /\ queue'[i] = queue[i + 1]
    BY <1>3, Delivered
  <2>2. ASSUME NEW j \in DOMAIN queue, Kind(j) = "threadEnd" PROVE \E i \in DOMAIN queue' : queue'[i].type = "threadEnd"
    <3>1. Kind(1) = t /\ DOMAIN queue' = 1 .. Len(queue) - 1 /\ DOMAIN queue = 1 .. Len(queue) /\ Len(queue) \in Nat
      BY <1>3, Delivered DEF TypeInv, ReportTypes
    <3>2. j - 1 \in DOMAIN queue' /\ queue'[j - 1] = queue[(j - 1) + 1] /\ (j - 1) + 1 = j
      BY <1>3, <2>1, <2>2, <3>1
    <3> QED
      BY <2>2, <3>2
  <2> QED
    BY <1>3, <2>1, <2>2
<1>4. CASE DeliverFile
  BY <1>3, <1>4 DEF DeliverFile
<1>5. CASE DeliverFinished
  BY <1>3, <1>5 DEF DeliverFinished
<1>6. CASE DeliverThreadEnd
  <2>1. 1 \in DOMAIN queue /\ Kind(1) = "threadEnd"
    BY <1>6, Delivered DEF DeliverThreadEnd
  <2>2. thread.op = None
    BY <2>1
  <2> QED
    BY <1>6, <2>2 DEF DeliverThreadEnd
<1>7. CASE InstallCallbacks
  BY <1>7 DEF InstallCallbacks, TypeInv, ThreadOK, ThreadType
<1>8. ASSUME NEW r \in Outcomes, RestoreFile(r) PROVE ConnInv'
  <2>1. thread'.op = thread.op /\ thread.op # None /\ UNCHANGED <<exiting, conns>>
    BY <1>8 DEF RestoreFile, TypeInv, ThreadOK, ThreadType
  <2>2. CASE hooked
    BY <1>8, <2>1, <2>2, AppendedAt DEF RestoreFile, Event
  <2>3. CASE ~hooked
    BY <1>8, <2>1, <2>3 DEF RestoreFile
  <2> QED
    BY <2>2, <2>3
<1>9. CASE FileSystemRefused
  BY <1>9 DEF FileSystemRefused, TypeInv, ThreadOK, ThreadType
<1>10. CASE EmitFinished
  <2>1. /\ thread'.op = thread.op /\ thread.op # None /\ UNCHANGED <<begun, exiting, conns>>
        /\ queue' = Append(queue, Event("finished", thread.op, "ok", counted))
    BY <1>10 DEF EmitFinished, TypeInv, ThreadOK, ThreadType
  <2> QED
    BY <2>1, AppendedAt DEF Event
<1>11. CASE ClearRunning
  BY <1>11 DEF ClearRunning, NoThread
<1>12. ASSUME NEW o \in Ops, EndThread(o) PROVE ConnInv'
  <2>1. /\ queue' = Append(queue, Event("threadEnd", o, "ok", Zero)) /\ o \in exiting
        /\ UNCHANGED <<thread, conns>>
    BY <1>12 DEF EndThread
  <2>2. thread.op = None
    BY <2>1
  <2>3. Len(queue) + 1 \in DOMAIN queue' /\ queue'[Len(queue) + 1].type = "threadEnd"
    BY <2>1, AppendedAt DEF Event
  <2> QED
    BY <2>1, <2>2, <2>3
<1>13. CASE UNCHANGED vars
  BY <1>13 DEF vars
<1> QED
  BY <1>1, <1>2, <1>4, <1>5, <1>6, <1>7, <1>8, <1>9, <1>10, <1>11, <1>12, <1>13 DEF Next, Deliver, WorkerStep

LEMMA PendingType == ASSUME NEW q \in Seq(EventType), NEW o, NEW r PROVE Pending(q, o, r) \in Nat
  BY AtFinite DEF Pending

LEMMA PendingNone == \A o, r : Pending(<<>>, o, r) = 0
  BY AtNone DEF Pending

LEMMA PendingAppend ==
  ASSUME NEW q \in Seq(EventType), NEW e \in EventType, NEW o, NEW r
  PROVE  Pending(Append(q, e), o, r) = IF Matches(e, o, r) THEN Pending(q, o, r) + 1 ELSE Pending(q, o, r)
  BY AtAppend DEF Pending

LEMMA PendingTail ==
  ASSUME NEW q \in Seq(EventType), q # <<>>, NEW o, NEW r
  PROVE  Pending(q, o, r) = IF Matches(Head(q), o, r) THEN Pending(Tail(q), o, r) + 1 ELSE Pending(Tail(q), o, r)
  BY AtTail DEF Pending

Balance(q, o) == \A r \in Outcomes : counted[r] + Pending(q, o, r) = actual[o][r]

LEMMA CountIsBalance == CountInv <=> (thread.op # None => Balance(queue, thread.op))
  BY DEF CountInv, Balance, Posted, Pending, At, Matches

LEMMA CountStep ==
  TypeInv /\ QueueInv /\ ConnInv /\ HookInv /\ CountInv /\ [Next]_vars /\ ~dismissed' /\ ~overlap' => CountInv'
<1> SUFFICES ASSUME TypeInv, QueueInv, ConnInv, HookInv, CountInv, [Next]_vars, ~dismissed', ~overlap'
             PROVE  CountInv'
  OBVIOUS
<1>0. /\ queue \in Seq(EventType) /\ counted \in [Outcomes -> Nat]
      /\ thread.op # None => thread.op \in Ops
      /\ thread.pc # "idle" => thread.op # None
      /\ \A o \in Ops : actual[o] \in [Outcomes -> Nat]
  BY BoundsAssumption DEF TypeInv, ReportTypes, Counts, ThreadOK, ThreadType, Ops, None
<1>a. thread.op # None => \A r \in Outcomes : counted[r] + Pending(queue, thread.op, r) = actual[thread.op][r]
  BY CountIsBalance DEF Balance
<1>b. CountInv' <=> (thread'.op # None => \A r \in Outcomes : counted'[r] + Pending(queue', thread'.op, r) = actual'[thread'.op][r])
  BY DEF CountInv, Posted, Pending, At, Matches
\* A step that touches no counter.
<1>d. ASSUME thread'.op = thread.op, UNCHANGED <<counted, actual>>,
             \A r \in Outcomes : Pending(queue', thread.op, r) = Pending(queue, thread.op, r)
      PROVE  CountInv'
  BY <1>a, <1>b, <1>d
<1>e. ASSUME NEW e \in EventType, e.type # "file", queue' = Append(queue, e)
      PROVE  \A r \in Outcomes : Pending(queue', thread.op, r) = Pending(queue, thread.op, r)
  BY <1>0, <1>e, PendingAppend DEF Matches
<1>f. ASSUME queue # <<>>, Head(queue).type # "file", queue' = Tail(queue)
      PROVE  \A r \in Outcomes : Pending(queue', thread.op, r) = Pending(queue, thread.op, r)
  BY <1>0, <1>f, PendingTail DEF Matches
<1>1. ASSUME NEW n \in 1 .. MaxFiles, BeginRestore(n) PROVE CountInv'
  <2>1. queue' = <<>> /\ counted' = Zero /\ thread'.op = begun + 1 /\ begun + 1 \in Ops /\ actual' = actual
    BY <1>1, CleanBegin DEF BeginRestore
  <2>2. actual[begun + 1] = Zero
    BY <2>1, BoundsAssumption DEF TypeInv, ReportTypes
  <2> QED
    BY <1>b, <2>1, <2>2, PendingNone, ZeroType
<1>2. CASE AcceptDialog \/ Dismiss
  BY <1>2, <1>d DEF AcceptDialog, Dismiss, Return
<1>3. CASE DeliverFile
  <2> SUFFICES ASSUME thread.op # None, NEW r \in Outcomes
               PROVE  counted'[r] + Pending(queue', thread.op, r) = actual[thread.op][r]
    BY <1>3, <1>b DEF DeliverFile, history
  <2> DEFINE e == Head(queue)
  <2>1. queue # <<>> /\ e = queue[1] /\ 1 \in DOMAIN queue /\ e \in EventType /\ e.type = "file" /\ queue' = Tail(queue)
    BY <1>0, <1>3, Delivered, Queued DEF DeliverFile, Take, Kind
  <2>2. hooked /\ conns = <<thread.op>> /\ thread.op = begun
    BY <2>1 DEF HookInv, ConnInv, Kind
  <2>3. counted' = [counted EXCEPT ![e.outcome] = @ + 1]
    BY <1>3, <2>2 DEF DeliverFile
  <2>4. e.op = thread.op
    <3>1. e.op = frame /\ e.op # None
      BY <2>1, BoundsAssumption DEF QueueInv, Kind, EventType, Ops, None
    <3> QED
      BY <2>2, <3>1 DEF TypeInv, ReportTypes
  <2>5. Pending(queue, thread.op, r) = IF r = e.outcome THEN Pending(queue', thread.op, r) + 1 ELSE Pending(queue', thread.op, r)
    BY <1>0, <2>1, <2>4, PendingTail DEF Matches
  <2>6. Pending(queue', thread.op, r) \in Nat
    <3>1. queue' \in Seq(EventType)
      BY <1>0, <2>1
    <3> QED
      BY <3>1, PendingType
  <2>7. counted[r] + Pending(queue, thread.op, r) = actual[thread.op][r]
    BY <1>a
  <2>8. counted'[r] = IF r = e.outcome THEN counted[r] + 1 ELSE counted[r]
    BY <1>0, <2>3
  <2> HIDE DEF e
  <2> QED
    BY <1>0, <2>5, <2>6, <2>7, <2>8
<1>4. CASE DeliverFinished
  BY <1>4, <1>d, <1>f DEF DeliverFinished, Take, history
<1>5. CASE DeliverThreadEnd
  BY <1>5, <1>d, <1>f DEF DeliverThreadEnd, Take, history
<1>6. CASE InstallCallbacks
  BY <1>6, <1>d DEF InstallCallbacks, history, TypeInv, ThreadOK, ThreadType
<1>7. ASSUME NEW r \in Outcomes, RestoreFile(r) PROVE CountInv'
  <2> DEFINE e == Event("file", thread.op, r, Zero)
  <2>1. thread.pc = "core" /\ hooked /\ thread.op # None /\ thread.op \in Ops
    BY <1>0, <1>7 DEF RestoreFile, HookInv
  <2>2. queue' = Append(queue, e) /\ counted' = counted /\ thread'.op = thread.op
    BY <1>7, <2>1 DEF RestoreFile, TypeInv, ThreadOK, ThreadType
  <2>3. e \in EventType /\ e.type = "file" /\ e.op = thread.op /\ e.outcome = r
    BY <2>1, EventTyped, ZeroType DEF Event
  <2>4. \A s \in Outcomes : actual'[thread.op][s] = IF s = r THEN actual[thread.op][s] + 1 ELSE actual[thread.op][s]
    BY <1>0, <1>7, <2>1 DEF RestoreFile, TypeInv, ReportTypes
  <2> HIDE DEF e
  <2> SUFFICES ASSUME NEW s \in Outcomes PROVE counted[s] + Pending(queue', thread.op, s) = actual'[thread.op][s]
    BY <1>b, <2>2
  <2>5. Pending(queue', thread.op, s) = IF s = r THEN Pending(queue, thread.op, s) + 1 ELSE Pending(queue, thread.op, s)
    BY <1>0, <2>2, <2>3, PendingAppend DEF Matches
  <2>6. Pending(queue, thread.op, s) \in Nat /\ counted[s] \in Nat
    BY <1>0, PendingType
  <2>7. counted[s] + Pending(queue, thread.op, s) = actual[thread.op][s]
    BY <1>a, <2>1
  <2> QED
    BY <2>4, <2>5, <2>6, <2>7
<1>8. CASE FileSystemRefused
  BY <1>8, <1>d DEF FileSystemRefused, TypeInv, ThreadOK, ThreadType
<1>9. CASE EmitFinished
  <2>1. Event("finished", thread.op, "ok", counted) \in EventType
    BY <1>0, <1>9, EventTyped DEF EmitFinished, Outcomes, Counts
  <2>2. \A r \in Outcomes : Pending(queue', thread.op, r) = Pending(queue, thread.op, r)
    BY <1>9, <1>e, <2>1 DEF EmitFinished, Event
  <2> QED
    BY <1>9, <1>d, <2>2 DEF EmitFinished, history, TypeInv, ThreadOK, ThreadType
<1>10. CASE ClearRunning
  BY <1>10, <1>b DEF ClearRunning, NoThread
<1>11. ASSUME NEW o \in Ops, EndThread(o) PROVE CountInv'
  <2>1. Event("threadEnd", o, "ok", Zero) \in EventType
    BY EventTyped, ZeroType DEF Outcomes
  <2>2. \A r \in Outcomes : Pending(queue', thread.op, r) = Pending(queue, thread.op, r)
    BY <1>11, <1>e, <2>1 DEF EndThread, Event
  <2> QED
    BY <1>11, <1>d, <2>2 DEF EndThread, history
<1>12. CASE UNCHANGED vars
  BY <1>12, <1>d DEF vars, history
<1> QED
  BY <1>1, <1>2, <1>3, <1>4, <1>5, <1>6, <1>7, <1>8, <1>9, <1>10, <1>11, <1>12 DEF Next, Deliver, WorkerStep

-----------------------------------------------------------------------------
(* The theorems. *)

LEMMA TypeInvariant == Spec => []TypeInv
  BY TypeInit, TypeStep, PTL DEF Spec

LEMMA SignalInvariant == Spec => []SignalInv
<1>1. Init => SignalInv
  BY DEF Init, SignalInv, QueueInv, BackedInv, Working, Kind, NoThread
<1>2. TypeInv /\ SignalInv /\ [Next]_vars => SignalInv'
  BY QueueStep, BackedStep, StaysDismissed DEF SignalInv
<1> QED
  BY <1>1, <1>2, TypeInvariant, PTL DEF Spec

LEMMA OnceInvariant == Spec => []OnceInv
<1>1. Init => OnceInv
  BY DEF Init, OnceInv, ConnInv, HookInv, CountInv, Kind, NoThread
<1>2. TypeInv /\ SignalInv /\ OnceInv /\ [Next]_vars => OnceInv'
  BY ConnStep, HookStep, CountStep, StaysDismissed, StaysOverlapped DEF OnceInv, SignalInv
<1> QED
  BY <1>1, <1>2, TypeInvariant, SignalInvariant, PTL DEF Spec

\* The variables keep their types, and a restore does no more than the files that were
\* marked (restore_files, Restorer::start).
THEOREM ReportTypeCorrect == Spec => []TypeOK
<1>1. TypeInv => TypeOK
  <2> SUFFICES ASSUME TypeInv PROVE TypeOK
    OBVIOUS
  <2>1. \A i \in DOMAIN queue : queue[i].type \in {"file", "finished", "threadEnd"}
    BY Queued DEF EventType
  <2> QED
    BY <2>1 DEF TypeInv, ReportTypes, ThreadOK, ThreadType, TypeOK, Counts
<1> QED
  BY <1>1, TypeInvariant, PTL

\* A file that was restored is counted exactly once, while no dialog was dismissed and
\* restores do not overlap (the connection that Restorer::start makes).
THEOREM FilesCountedOnce == Spec => []EveryFileCountedOnce
<1>1. OnceInv => EveryFileCountedOnce
  BY DEF OnceInv, CountInv, EveryFileCountedOnce
<1> QED
  BY <1>1, OnceInvariant, PTL

\* No report has copies or failures that its restore had none of, overlapping restores
\* included, while no dialog was dismissed (m_okCount and m_failCount in emit finished).
THEOREM ReportsInventNothing == Spec => []NothingInvented
<1>1. SignalInv => NothingInvented
  BY DEF SignalInv, BackedInv, Backed, NothingInvented
<1> QED
  BY <1>1, SignalInvariant, PTL
=============================================================================
