---------------------- MODULE OperationLifecycle_proofs ----------------------
(***************************************************************************)
(* The invariants of OperationLifecycle, proved for every set of kinds and *)
(* every bound.                                                            *)
(***************************************************************************)
EXTENDS OperationLifecycle, TLAPS

ThreadType == [pc : ThreadPCs, op : 0 .. MaxOps, left : 0 .. Units, tree : 0 .. MaxOps,
               saving : 0 .. MaxOps]

\* A worker that has not emitted finished yet.
Busy(w) == InCore(w) \/ thread[w].pc = "emit"
IsType(i, t) == queue[i].type = t

\* The session context belongs to the operation on the stack, and the callback never
\* outlives it.
SessionInv ==
  /\ saveCtx # None => /\ frame # None /\ HasSession(ops[frame])
                       /\ HasSession(ops[saveCtx])
  /\ saveCb => saveCtx # None
  /\ \A p \in Ops : file[p] # "none" => p \in 1 .. Len(ops) /\ HasSession(ops[p])

\* A checkpoint on its way has a session's file to write; a stretch of work is not over
\* before its poll.
SavingInv ==
  \A w \in Workers :
    /\ thread[w].pc \in {"save", "poll"} => thread[w].left > 0
    /\ thread[w].pc \in {"save", "lastsave"} => thread[w].saving # None
    /\ thread[w].saving # None =>
         thread[w].saving \in 1 .. Len(ops) /\ HasSession(ops[thread[w].saving])

\* A busy worker is the one of the operation on the stack, and its dialog is open.
BusyInv ==
  \A w \in Workers : Busy(w) =>
    /\ thread[w].op = frame /\ frame # None /\ thread[w].tree = tree /\ dlg = "open"
    /\ w = WorkerOf(ops[frame])
    /\ \A i \in DOMAIN queue : ~IsType(i, "finished")

\* At most one finished event is on its way, and its dialog still waits for it.
FinishedInv ==
  \A i \in DOMAIN queue : IsType(i, "finished") =>
    /\ queue[i].op = frame /\ dlg = "open"
    /\ \A j \in DOMAIN queue : IsType(j, "finished") => j = i

\* Hooks belong to the operation on the stack.
HookInv ==
  /\ \A w \in hooked : frame # None /\ w = WorkerOf(ops[frame]) /\ w # SimpleWorker
  /\ \A w \in Workers :
       Busy(w) /\ thread[w].pc # "install" /\ w # SimpleWorker => w \in hooked

\* Progress events are ahead of the finished event.
ProgressInv ==
  \A i \in DOMAIN queue : IsType(i, "progress") =>
    /\ queue[i].worker \in hooked /\ queue[i].op = frame /\ dlg = "open"
    /\ \A j \in DOMAIN queue : IsType(j, "finished") => i < j

CancelInv ==
  \A w \in Workers : Busy(w) /\ thread[w].op \in cancelled => cancelFlag

IInv ==
  /\ TypeOK
  /\ SessionInv
  /\ SavingInv
  /\ NoDismissal => BusyInv /\ FinishedInv /\ HookInv /\ ProgressInv /\ CancelInv

-----------------------------------------------------------------------------
TSInv == TypeOK /\ SessionInv /\ SavingInv

LEMMA WorkerOfType == ASSUME NEW k \in AllKinds PROVE WorkerOf(k) \in Workers
  BY DEF AllKinds, WorkerOf, Workers, Scanner, Carver, Restorer, SimpleWorker

LEMMA TSInit == Init => TSInv
<1> SUFFICES ASSUME Init PROVE TSInv
  OBVIOUS
<1> USE ConstantsAssumption DEF Init, Ops, None
<1>1. ops \in Seq(Kinds) /\ Len(ops) = 0 /\ DOMAIN ops = {} /\ queue = <<>>
  OBVIOUS
<1>2. thread \in [Workers -> ThreadType]
  BY DEF NoThread, ThreadPCs, CorePCs, ThreadType
<1>3. TypeOK
  <2>1. /\ frame \in {None, Len(ops)} /\ dlg \in {"none", "open", "finished"}
        /\ (dlg = "none" <=> frame = None) /\ tree \in 0 .. Len(ops) /\ saveCtx \in 0 .. Len(ops)
    BY <1>1
  <2>2. /\ file \in [Ops -> {"none", "partial", "completed"}]
        /\ queue \in Seq([type : {"progress", "finished"}, worker : Workers, op : 0 .. MaxOps])
    BY <1>1
  <2>3. hooked \subseteq Workers /\ cancelFlag \in BOOLEAN /\ saveCb \in BOOLEAN
    OBVIOUS
  <2> QED BY <1>1, <1>2, <2>1, <2>2, <2>3 DEF TypeOK, ThreadType
<1>4. SessionInv
  BY DEF SessionInv
<1>5. SavingInv
  BY DEF SavingInv, NoThread
<1> QED BY <1>3, <1>4, <1>5 DEF TSInv

\* What a thread's record becomes.
Saving(q, pc, x) == [q EXCEPT !.pc = pc, !.saving = x]

LEMMA ThreadSaves ==
  ASSUME NEW q \in ThreadType, NEW pc \in ThreadPCs, NEW x \in 0 .. MaxOps
  PROVE  /\ Saving(q, pc, x) \in ThreadType /\ Saving(q, pc, x).pc = pc
         /\ Saving(q, pc, x).saving = x /\ Saving(q, pc, x).left = q.left
BY DEF ThreadType, Saving

LEMMA ThreadWorked ==
  ASSUME NEW q \in ThreadType, q.left > 0
  PROVE  LET s == [q EXCEPT !.pc = "core", !.left = @ - 1]
         IN  s \in ThreadType /\ s.pc = "core" /\ s.saving = q.saving
<1>1. q.left - 1 \in 0 .. Units /\ q.left \in 0 .. Units
  BY ConstantsAssumption DEF ThreadType
<1> QED BY <1>1 DEF ThreadType, ThreadPCs, CorePCs

\* Steps that leave the threads where they are, and those that move one of them.
LEMMA SavingKept ==
  ASSUME TSInv, UNCHANGED <<ops, thread>> PROVE SavingInv'
BY DEF TSInv, SavingInv

LEMMA SavingStep ==
  ASSUME TSInv, UNCHANGED ops, NEW w \in Workers, NEW r \in ThreadType,
         thread' = [thread EXCEPT ![w] = r],
         r.pc \in {"save", "poll"} => r.left > 0,
         r.pc \in {"save", "lastsave"} => r.saving # None,
         r.saving # None => r.saving \in 1 .. Len(ops) /\ HasSession(ops[r.saving])
  PROVE  SavingInv'
<1>1. thread \in [Workers -> ThreadType]
  BY DEF TSInv, TypeOK, ThreadType
<1>2. \A v \in Workers : thread'[v] = IF v = w THEN r ELSE thread[v]
  BY <1>1
<1> QED BY <1>2 DEF TSInv, SavingInv

LEMMA TSRun ==
  ASSUME TSInv, NEW k \in Kinds, NEW p \in Ops \cup {None},
         frame = None, Len(ops) < MaxOps, RunOperation(k, p),
         p # None => HasSession(k) /\ p \in 1 .. Len(ops) + 1,
         p \in 1 .. Len(ops) => HasSession(ops[p])
  PROVE  TSInv'
<1> DEFINE o == Len(ops) + 1
           t == IF NewTree(k) THEN o ELSE tree
           w == WorkerOf(k)
<1> USE ConstantsAssumption DEF Ops, None
<1>1. ops \in Seq(Kinds) /\ Len(ops) \in Nat /\ o \in 1 .. MaxOps /\ tree \in 0 .. Len(ops)
  BY DEF TSInv, TypeOK
<1>2. /\ ops' = Append(ops, k) /\ frame' = o /\ dlg' = "open" /\ tree' = t
      /\ BeginSession(p) /\ StartWorker(w, o, t)
      /\ UNCHANGED <<queue, hooked, file, dismissed, cancelled, stopped>>
  BY DEF RunOperation, history
<1>3. ops' \in Seq(Kinds) /\ Len(ops') = o /\ ops'[o] = k
      /\ \A i \in 1 .. Len(ops) : ops'[i] = ops[i]
  BY <1>1, <1>2
<1>4. w \in Workers /\ t \in 0 .. MaxOps /\ t \in 0 .. Len(ops')
  BY <1>1, <1>3, WorkerOfType
<1>5. thread' \in [Workers -> ThreadType] /\ cancelFlag' \in BOOLEAN
  <2>1. /\ thread \in [Workers -> ThreadType]
        /\ cancelFlag \in BOOLEAN
    BY DEF TSInv, TypeOK, ThreadType
  <2>2. [pc |-> "install", op |-> o, left |-> Units, tree |-> t, saving |-> None] \in ThreadType
    BY <1>1, <1>4 DEF ThreadPCs, CorePCs, ThreadType
  <2>3. CASE thread[w].pc # "idle"
    BY <1>2, <2>1, <2>3 DEF StartWorker
  <2>4. CASE thread[w].pc = "idle"
    BY ZenonT(60), <1>2, <1>4, <2>1, <2>2, <2>4 DEF StartWorker
  <2> QED BY <2>3, <2>4
<1>6. saveCtx = None /\ ~saveCb
  BY DEF TSInv, TypeOK, SessionInv
<1>7. saveCtx' = p /\ (saveCb' <=> p # None) /\ saveCb' \in BOOLEAN
  <2>1. CASE p # None
    BY <1>2, <2>1, Zenon DEF BeginSession
  <2>2. CASE p = None
    <3>1. saveCtx' = saveCtx /\ saveCb' = saveCb
      BY <1>2, <2>2, Zenon DEF BeginSession
    <3>2. ~saveCb'
      BY <1>6, <3>1, Zenon
    <3>3. saveCb' \in BOOLEAN
      BY <3>1, Zenon DEF TSInv, TypeOK
    <3> QED BY <1>6, <2>2, <3>1, <3>2, <3>3, Zenon
  <2> QED BY <2>1, <2>2
<1>8. TypeOK'
  <2>1. /\ frame' \in {None, Len(ops')} /\ dlg' \in {"none", "open", "finished"}
        /\ (dlg' = "none" <=> frame' = None)
    BY <1>1, <1>2, <1>3
  <2>2. saveCtx' \in 0 .. Len(ops')
    BY <1>1, <1>3, <1>7
  <2>3. /\ dismissed' \subseteq 1 .. Len(ops') /\ cancelled' \subseteq 1 .. Len(ops')
        /\ stopped' \subseteq 0 .. MaxOps
    BY <1>1, <1>2, <1>3 DEF TSInv, TypeOK
  <2>4. /\ file' \in [Ops -> {"none", "partial", "completed"}] /\ hooked' \subseteq Workers
        /\ queue' \in Seq([type : {"progress", "finished"}, worker : Workers, op : 0 .. MaxOps])
    BY <1>2 DEF TSInv, TypeOK
  <2> QED BY <1>1, <1>2, <1>3, <1>4, <1>5, <1>7, <2>1, <2>2, <2>3, <2>4 DEF TypeOK, ThreadType
<1>9. SessionInv'
  <2>1. p # None => HasSession(ops'[p]) /\ HasSession(ops'[o])
    BY <1>1, <1>3
  <2>2. \A q \in Ops : file'[q] # "none" => q \in 1 .. Len(ops') /\ HasSession(ops'[q])
    <3> SUFFICES ASSUME NEW q \in Ops, file'[q] # "none"
                 PROVE  q \in 1 .. Len(ops') /\ HasSession(ops'[q])
      OBVIOUS
    <3>1. q \in 1 .. Len(ops) /\ HasSession(ops[q])
      BY <1>2 DEF TSInv, SessionInv
    <3> QED BY <1>1, <1>3, <3>1
  <2>3. saveCtx' # None => frame' # None /\ HasSession(ops'[frame']) /\ HasSession(ops'[saveCtx'])
    BY <1>1, <1>2, <1>7, <2>1
  <2> QED BY <1>7, <2>2, <2>3, Zenon DEF SessionInv
<1>10. SavingInv'
  <2>1. thread \in [Workers -> ThreadType]
    BY DEF TSInv, TypeOK, ThreadType
  <2>2. \A v \in Workers :
          thread'[v] = thread[v] \/ (thread'[v].saving = None /\ thread'[v].pc = "install")
    <3>1. CASE thread[w].pc # "idle"
      BY <1>2, <3>1 DEF StartWorker
    <3>2. CASE thread[w].pc = "idle"
      <4>1. thread' = [thread EXCEPT ![w] = [pc |-> "install", op |-> o, left |-> Units,
                                             tree |-> t, saving |-> None]]
        BY <1>2, <3>2 DEF StartWorker
      <4> HIDE DEF w, o, t
      <4> QED BY <2>1, <4>1
    <3> QED BY <3>1, <3>2
  <2>3. \A v \in Workers : thread[v].saving # None =>
          thread[v].saving \in 1 .. Len(ops) /\ HasSession(ops[thread[v].saving])
    BY DEF TSInv, SavingInv
  <2>4. \A v \in Workers : thread[v].saving # None =>
          thread[v].saving \in 1 .. Len(ops') /\ HasSession(ops'[thread[v].saving])
    BY <1>1, <1>3, <2>3
  <2>5. \A v \in Workers :
          /\ thread[v].pc \in {"save", "poll"} => thread[v].left > 0
          /\ thread[v].pc \in {"save", "lastsave"} => thread[v].saving # None
    BY DEF TSInv, SavingInv
  <2> HIDE DEF w, o, t, None
  <2> QED BY <2>2, <2>4, <2>5 DEF SavingInv
<1> QED BY <1>8, <1>9, <1>10 DEF TSInv

LEMMA TSReturn ==
  ASSUME TSInv, dlg # "none", ReturnFromExec,
         dismissed' \in {dismissed, dismissed \cup {frame}}
  PROVE  TSInv'
<1> USE ConstantsAssumption DEF Ops, None
<1>1. /\ ops \in Seq(Kinds) /\ Len(ops) \in Nat /\ frame = Len(ops) /\ frame # 0
  BY DEF TSInv, TypeOK
<1>2. /\ frame' = 0 /\ dlg' = "none" /\ saveCtx' = 0
      /\ UNCHANGED <<ops, tree, thread, queue, cancelFlag, file, cancelled, stopped>>
  BY DEF ReturnFromExec
<1>3. ~saveCb' /\ saveCb' \in BOOLEAN
  <2>1. CASE Uninstalls(ops[frame])
    BY <2>1, Zenon DEF ReturnFromExec
  <2>2. CASE ~Uninstalls(ops[frame])
    <3>1. ~HasSession(ops[frame])
      BY <2>2, Zenon DEF Uninstalls, HasSession
    <3>2. ~saveCb /\ saveCb \in BOOLEAN
      BY <3>1, Zenon DEF TSInv, TypeOK, SessionInv
    <3>3. saveCb' = saveCb
      BY <2>2, Zenon DEF ReturnFromExec
    <3> QED BY <3>2, <3>3, Zenon
  <2> QED BY <2>1, <2>2
<1>4. hooked' \subseteq Workers
  BY DEF ReturnFromExec, TSInv, TypeOK
<1>5. dismissed' \subseteq 1 .. Len(ops)
  BY <1>1 DEF TSInv, TypeOK
<1>6. TypeOK'
  BY <1>1, <1>2, <1>3, <1>4, <1>5 DEF TSInv, TypeOK
<1>7. SessionInv'
  BY <1>2, <1>3 DEF TSInv, SessionInv
<1> QED BY <1>2, <1>6, <1>7, SavingKept DEF TSInv

\* A step that writes the file of a session, or nothing of what the session holds.
PartialWrite(p) ==
  p \in 1 .. Len(ops) /\ HasSession(ops[p]) /\ file' = [file EXCEPT ![p] = "partial"]

LEMMA TSWrite ==
  ASSUME TSInv, UNCHANGED <<ops, frame, saveCtx, saveCb>>,
         UNCHANGED file \/ \E p \in Ops : PartialWrite(p)
  PROVE  SessionInv' /\ file' \in [Ops -> {"none", "partial", "completed"}]
<1> USE ConstantsAssumption DEF Ops, None
<1>1. file \in [Ops -> {"none", "partial", "completed"}]
  BY DEF TSInv, TypeOK
<1>2. \A q \in Ops : file'[q] # "none" => q \in 1 .. Len(ops) /\ HasSession(ops[q])
  <2>1. CASE UNCHANGED file
    BY <2>1 DEF TSInv, SessionInv
  <2>2. ASSUME NEW p \in Ops, PartialWrite(p)
        PROVE  \A q \in Ops : file'[q] # "none" => q \in 1 .. Len(ops) /\ HasSession(ops[q])
    BY <1>1, <2>2 DEF TSInv, SessionInv, PartialWrite
  <2> QED BY <2>1, <2>2
<1>3. SessionInv'
  <2>1. /\ saveCtx' # None => frame' # None /\ HasSession(ops'[frame'])
                            /\ HasSession(ops'[saveCtx'])
        /\ saveCb' => saveCtx' # None
    BY Zenon DEF TSInv, SessionInv
  <2>2. \A q \in Ops : file'[q] # "none" => q \in 1 .. Len(ops') /\ HasSession(ops'[q])
    BY <1>2
  <2> QED BY <2>1, <2>2, Zenon DEF SessionInv
<1>4. file' \in [Ops -> {"none", "partial", "completed"}]
  BY <1>1 DEF PartialWrite
<1> QED BY <1>3, <1>4

LEMMA TSNext == ASSUME TSInv, [Next]_vars PROVE TSInv'
<1> USE ConstantsAssumption DEF Ops, None
<1>1. /\ ops \in Seq(Kinds) /\ Len(ops) \in Nat /\ Len(ops) <= MaxOps
      /\ frame \in {0, Len(ops)} /\ saveCtx \in 0 .. Len(ops)
      /\ file \in [Ops -> {"none", "partial", "completed"}]
      /\ queue \in Seq([type : {"progress", "finished"}, worker : Workers, op : 0 .. MaxOps])
      /\ thread \in [Workers -> ThreadType]
  BY DEF TSInv, TypeOK, ThreadType
<1>2. ASSUME NEW k \in Kinds, Begin(k) PROVE TSInv'
  <2>1. CASE RunOperation(k, None)
    BY <1>1, <1>2, <2>1, TSRun DEF Begin
  <2>2. CASE HasSession(k) /\ RunOperation(k, Len(ops) + 1)
    <3>1. frame = None /\ Len(ops) < MaxOps
      BY <1>2 DEF Begin
    <3>2. Len(ops) + 1 \in Ops \cup {None}
      BY <1>1, <3>1
    <3>3. /\ Len(ops) + 1 # None => HasSession(k) /\ Len(ops) + 1 \in 1 .. Len(ops) + 1
          /\ Len(ops) + 1 \in 1 .. Len(ops) => HasSession(ops[Len(ops) + 1])
      BY <1>1, <2>2
    <3> HIDE DEF Ops, None
    <3> QED BY <2>2, <3>1, <3>2, <3>3, TSRun
  <2> QED BY <1>2, <2>1, <2>2 DEF Begin
<1>3. ASSUME NEW p \in Ops, ShowCompleted(p) PROVE TSInv'
  <2>1. p \in 1 .. Len(ops)
    BY <1>3 DEF ShowCompleted, TSInv, SessionInv
  <2>2. TypeOK'
    BY <1>1, <1>3, <2>1 DEF ShowCompleted, TSInv, TypeOK, session, history
  <2>3. SessionInv' /\ SavingInv'
    BY <1>3, TSWrite, SavingKept DEF ShowCompleted, session, history
  <2> QED BY <2>2, <2>3 DEF TSInv
<1>4. ASSUME NEW p \in Ops, ContinueSession(p) PROVE TSInv'
  <2>1. p \in 1 .. Len(ops) /\ HasSession(ops[p]) /\ ops[p] \in Kinds
    BY <1>1, <1>4 DEF ContinueSession, TSInv, SessionInv
  <2> QED BY <1>1, <1>4, <2>1, TSRun DEF ContinueSession
<1>5. ASSUME PressCancel PROVE TSInv'
  <2>1. TypeOK'
    BY <1>1, <1>5 DEF PressCancel, TSInv, TypeOK, session
  <2>2. SessionInv' /\ SavingInv'
    BY <1>5, TSWrite, SavingKept DEF PressCancel, session
  <2> QED BY <2>1, <2>2 DEF TSInv
<1>6. ASSUME Dismiss PROVE TSInv'
  BY <1>6, TSReturn DEF Dismiss
<1>7. ASSUME AcceptDialog PROVE TSInv'
  BY <1>7, TSReturn DEF AcceptDialog
<1>8. ASSUME DeliverProgress PROVE TSInv'
  <2>1. TypeOK'
    BY SMTT(30), <1>1, <1>8 DEF DeliverProgress, TSInv, TypeOK, session, history
  <2>2. SessionInv' /\ SavingInv'
    BY <1>8, TSWrite, SavingKept DEF DeliverProgress, session, history
  <2> QED BY <2>1, <2>2 DEF TSInv
<1>9. ASSUME DeliverFinished PROVE TSInv'
  <2>1. /\ queue' \in Seq([type : {"progress", "finished"}, worker : Workers, op : 0 .. MaxOps])
        /\ UNCHANGED <<ops, frame, tree, thread, cancelFlag, hooked, dismissed, cancelled, stopped>>
    BY <1>1, <1>9 DEF DeliverFinished, history
  <2>2. SavingInv'
    BY <2>1, SavingKept
  <2>3. CASE frame # None /\ saveCtx # None /\ FinishedSlot
    <3>1. /\ dlg' = "ending" /\ file' = [file EXCEPT ![saveCtx] = "completed"]
          /\ UNCHANGED <<saveCtx, saveCb>>
      BY <2>3 DEF FinishedSlot
    <3>2. \A q \in Ops : file'[q] # "none" => q \in 1 .. Len(ops') /\ HasSession(ops'[q])
      <4>1. \A q \in Ops : file'[q] # "none" => file[q] # "none" \/ q = saveCtx
        BY <1>1, <3>1
      <4> QED BY <1>1, <2>1, <2>3, <4>1 DEF TSInv, SessionInv
    <3>3. SessionInv'
      BY <2>1, <3>1, <3>2 DEF TSInv, SessionInv
    <3>4. TypeOK'
      BY <1>1, <2>1, <2>3, <3>1 DEF TSInv, TypeOK
    <3> QED BY <2>2, <3>3, <3>4 DEF TSInv
  <2>4. CASE frame # None /\ saveCtx = None /\ FinishedSlot
    <3>1. dlg' = "finished" /\ UNCHANGED session
      BY <2>4 DEF FinishedSlot
    <3>2. TypeOK'
      BY <1>1, <2>1, <2>4, <3>1 DEF TSInv, TypeOK, session
    <3>3. SessionInv'
      BY <2>1, <3>1, TSWrite DEF session
    <3> QED BY <2>2, <3>2, <3>3 DEF TSInv
  <2>5. CASE UNCHANGED <<dlg, session>>
    <3>1. TypeOK'
      BY <1>1, <2>1, <2>5 DEF TSInv, TypeOK, session
    <3>2. SessionInv'
      BY <2>1, <2>5, TSWrite DEF session
    <3> QED BY <2>2, <3>1, <3>2 DEF TSInv
  <2> QED BY <1>9, <2>3, <2>4, <2>5 DEF DeliverFinished
<1>12. ASSUME ClearSession PROVE TSInv'
  <2>1. TypeOK'
    <3>1. /\ dlg' = "finished" /\ dlg = "ending" /\ saveCtx' = 0 /\ saveCb' = FALSE
          /\ UNCHANGED <<ops, frame, tree, thread, queue, cancelFlag, hooked, file, dismissed,
                         cancelled, stopped>>
      BY <1>12 DEF ClearSession, history
    <3>2. /\ dismissed \subseteq 1 .. Len(ops) /\ cancelled \subseteq 1 .. Len(ops)
          /\ stopped \subseteq 0 .. MaxOps /\ tree \in 0 .. Len(ops)
          /\ cancelFlag \in BOOLEAN /\ hooked \subseteq Workers
          /\ (dlg = "none" <=> frame = None)
      BY Zenon DEF TSInv, TypeOK
    <3>3. saveCb' \in BOOLEAN /\ cancelFlag' \in BOOLEAN
      BY <3>1, <3>2, Zenon
    <3>5. saveCtx' \in 0 .. Len(ops')
      BY <1>1, <3>1
    <3>4. dlg' \in {"none", "open", "ending", "finished"} /\ (dlg' = "none" <=> frame' = None)
      BY <3>1, <3>2
    <3>6. /\ frame' \in {None, Len(ops')} /\ tree' \in 0 .. Len(ops')
          /\ ops' \in Seq(Kinds) /\ Len(ops') <= MaxOps
          /\ dismissed' \subseteq 1 .. Len(ops') /\ cancelled' \subseteq 1 .. Len(ops')
          /\ stopped' \subseteq 0 .. MaxOps /\ hooked' \subseteq Workers
      BY <1>1, <3>1, <3>2
    <3>7. /\ file' \in [Ops -> {"none", "partial", "completed"}]
          /\ queue' \in Seq([type : {"progress", "finished"}, worker : Workers, op : 0 .. MaxOps])
          /\ thread' \in [Workers -> ThreadType]
      BY <1>1, <3>1
    <3> QED BY <3>3, <3>4, <3>5, <3>6, <3>7, Zenon DEF TypeOK, ThreadType
  <2>2. SessionInv'
    BY <1>12 DEF ClearSession, TSInv, SessionInv, history
  <2>3. SavingInv'
    BY <1>12, SavingKept DEF ClearSession
  <2> QED BY <2>1, <2>2, <2>3 DEF TSInv
<1>10. ASSUME NEW w \in Workers, WorkerStep(w) PROVE TSInv'
  <2>1. /\ UNCHANGED <<ops, frame, dlg, tree, cancelFlag, saveCtx, saveCb, dismissed, cancelled>>
        /\ UNCHANGED file \/ \E p \in Ops : PartialWrite(p)
    <3>1. ASSUME WriteIncomplete(w) PROVE PartialWrite(thread[w].saving)
      BY <3>1 DEF WriteIncomplete, PartialWrite, TSInv, SavingInv
    <3>2. CASE WriteIncomplete(w)
      BY <1>1, <3>1, <3>2 DEF WriteIncomplete, PartialWrite, history
    <3> QED BY <1>10, <3>2 DEF WorkerStep, Install, Work, Poll, WorkDone, LeaveCancelled,
                               EmitFinished, ClearRunning, session, history
  <2>2. hooked' \subseteq Workers
    BY <1>1, <1>10 DEF WorkerStep, Install, Work, WriteIncomplete, Poll, WorkDone, LeaveCancelled, EmitFinished,
                       ClearRunning, TSInv, TypeOK, history
  <2>3. queue' \in Seq([type : {"progress", "finished"}, worker : Workers, op : 0 .. MaxOps])
    <3> DEFINE E == [type : {"progress", "finished"}, worker : Workers, op : 0 .. MaxOps]
    <3>1. \/ queue' = queue
          \/ queue' = Append(queue, Event("progress", w, thread[w].op))
          \/ queue' = Append(queue, Event("finished", w, thread[w].op))
      BY <1>10, Zenon DEF WorkerStep, Install, Work, WriteIncomplete, Poll, WorkDone, LeaveCancelled, EmitFinished, ClearRunning
    <3>2. thread[w].op \in 0 .. MaxOps
      BY <1>1 DEF ThreadType
    <3>3. Event("progress", w, thread[w].op) \in E /\ Event("finished", w, thread[w].op) \in E
      BY <3>2 DEF Event
    <3>4. queue \in Seq(E)
      BY <1>1
    <3>5. \A e \in E : Append(queue, e) \in Seq(E)
      <4> HIDE DEF E
      <4> QED BY <3>4
    <3> HIDE DEF E
    <3>6. queue' \in Seq(E)
      BY <3>1, <3>3, <3>4, <3>5, Zenon
    <3> QED BY <3>6 DEF E
  <2>4. thread' \in [Workers -> ThreadType] /\ SavingInv'
    <3>1. thread[w] \in ThreadType /\ thread[w].saving \in 0 .. MaxOps
      BY <1>1 DEF ThreadType
    <3> DEFINE Saves(x) == x = None \/ (x \in 1 .. Len(ops) /\ HasSession(ops[x]))
    <3>2. /\ Saves(thread[w].saving)
          /\ thread[w].pc \in {"save", "lastsave"} => thread[w].saving # None
          /\ thread[w].pc \in {"save", "poll"} => thread[w].left > 0
      BY Zenon DEF TSInv, SavingInv
    <3>3. saveCtx # None => saveCtx \in 1 .. Len(ops) /\ HasSession(ops[saveCtx])
      BY <1>1 DEF TSInv, SessionInv
    <3>4. ASSUME NEW pc \in ThreadPCs PROVE [thread[w] EXCEPT !.pc = pc] \in ThreadType
      BY <3>1 DEF ThreadType
    <3>5. \E s \in ThreadType :
            /\ thread' = [thread EXCEPT ![w] = s]
            /\ s.pc \in {"save", "poll"} => s.left > 0
            /\ s.pc \in {"save", "lastsave"} => s.saving # None
            /\ Saves(s.saving)
      <4>1. CASE \E pc \in ThreadPCs \ {"save", "poll", "lastsave"} :
                   thread' = [thread EXCEPT ![w].pc = pc]
        <5>1. PICK pc \in ThreadPCs \ {"save", "poll", "lastsave"} :
                   thread' = [thread EXCEPT ![w].pc = pc]
          BY <4>1
        <5>2. thread' = [thread EXCEPT ![w] = [thread[w] EXCEPT !.pc = pc]]
          BY <5>1
        <5>3. [thread[w] EXCEPT !.pc = pc].pc = pc /\ [thread[w] EXCEPT !.pc = pc].saving = thread[w].saving
          BY <3>1 DEF ThreadType
        <5> HIDE DEF Saves
        <5> QED BY <3>2, <3>4, <5>2, <5>3
      <4>2. CASE \E pc \in {"save", "lastsave"} : saveCtx # None
                   /\ (pc = "save" => thread[w].left > 0)
                   /\ thread' = [thread EXCEPT ![w].pc = pc, ![w].saving = saveCtx]
        <5>1. PICK pc \in {"save", "lastsave"} : saveCtx # None
                   /\ (pc = "save" => thread[w].left > 0)
                   /\ thread' = [thread EXCEPT ![w].pc = pc, ![w].saving = saveCtx]
          BY <4>2
        <5> DEFINE s == Saving(thread[w], pc, saveCtx)
        <5>2. s \in ThreadType /\ s.pc = pc /\ s.saving = saveCtx /\ s.left = thread[w].left
          <6>1. saveCtx \in 0 .. MaxOps /\ pc \in ThreadPCs
            BY <1>1 DEF ThreadPCs, CorePCs
          <6> QED BY <3>1, <6>1, ThreadSaves
        <5>3. thread' = [thread EXCEPT ![w] = s]
          BY <5>1 DEF Saving
        <5>4. Saves(saveCtx)
          BY <3>3, <5>1
        <5> HIDE DEF s, Saves
        <5> QED BY <5>1, <5>2, <5>3, <5>4
      <4>3. CASE WriteIncomplete(w)
        <5> DEFINE pc == IF thread[w].pc = "save" THEN "poll" ELSE "emit"
                   s == Saving(thread[w], pc, None)
        <5>1. s \in ThreadType /\ s.pc \in {"poll", "emit"} /\ s.saving = None
               /\ (s.pc = "poll" => s.left > 0)
          <6>1. /\ pc \in ThreadPCs /\ pc \in {"poll", "emit"}
                /\ (pc = "poll" => thread[w].left > 0) /\ None \in 0 .. MaxOps
            BY <3>2, <4>3 DEF WriteIncomplete, ThreadPCs, CorePCs
          <6> HIDE DEF pc
          <6> QED BY <3>1, <6>1, ThreadSaves
        <5>2. thread' = [thread EXCEPT ![w] = s]
          BY <4>3 DEF WriteIncomplete, Saving
        <5>3. Saves(None)
          OBVIOUS
        <5> HIDE DEF s, Saves
        <5> QED BY <5>1, <5>2, <5>3
      <4>10. CASE thread[w].left > 0 /\ thread' = [thread EXCEPT ![w].pc = "poll"]
        <5> DEFINE s == [thread[w] EXCEPT !.pc = "poll"]
        <5>1. s \in ThreadType /\ s.pc = "poll" /\ s.saving = thread[w].saving /\ s.left > 0
          BY <3>1, <4>10 DEF ThreadType, ThreadPCs, CorePCs
        <5>2. thread' = [thread EXCEPT ![w] = s]
          BY <4>10
        <5> HIDE DEF s, Saves
        <5> QED BY <3>2, <5>1, <5>2
      <4>4. CASE Poll(w) /\ thread' = [thread EXCEPT ![w].pc = "core", ![w].left = @ - 1]
        <5> DEFINE s == [thread[w] EXCEPT !.pc = "core", !.left = @ - 1]
        <5>1. thread[w].left > 0
          BY <3>2, <4>4 DEF Poll
        <5>2. s \in ThreadType /\ s.pc = "core" /\ s.saving = thread[w].saving
          BY <3>1, <5>1, ThreadWorked
        <5>3. thread' = [thread EXCEPT ![w] = s]
          BY <4>4
        <5> HIDE DEF s, Saves
        <5> QED BY <3>2, <5>2, <5>3
      <4>5. CASE ClearRunning(w)
        <5>1. NoThread \in ThreadType /\ NoThread.pc = "idle" /\ NoThread.saving = None
          BY DEF NoThread, ThreadType, ThreadPCs
        <5>2. Saves(None)
          OBVIOUS
        <5> HIDE DEF Saves
        <5> QED BY <4>5, <5>1, <5>2 DEF ClearRunning
      <4>6. CASE Install(w) \/ WorkDone(w) \/ EmitFinished(w)
        BY <4>1, <4>6 DEF Install, WorkDone, EmitFinished, Goto, ThreadPCs, CorePCs
      <4>7. CASE Work(w)
        BY <4>2, <4>7, <4>10, Zenon DEF Work, Goto, ThreadPCs, CorePCs
      <4>8. CASE LeaveCancelled(w)
        BY <4>1, <4>2, <4>8 DEF LeaveCancelled, Goto, ThreadPCs, CorePCs
      <4>9. CASE Poll(w)
        BY <4>1, <4>4, <4>9 DEF Poll, ThreadPCs, CorePCs
      <4> QED BY <1>10, <4>3, <4>5, <4>6, <4>7, <4>8, <4>9 DEF WorkerStep
    <3>6. PICK s \in ThreadType :
            /\ thread' = [thread EXCEPT ![w] = s]
            /\ s.pc \in {"save", "poll"} => s.left > 0
            /\ s.pc \in {"save", "lastsave"} => s.saving # None
            /\ Saves(s.saving)
      BY <3>5
    <3>7. thread' \in [Workers -> ThreadType]
      BY <1>1, <3>6
    <3> QED BY <2>1, <3>6, <3>7, SavingStep
  <2>5. stopped' \subseteq 0 .. MaxOps
    <3>1. CASE UNCHANGED stopped
      BY <3>1 DEF TSInv, TypeOK
    <3>2. CASE Poll(w)
      BY <1>1, <3>2 DEF Poll, TSInv, TypeOK, ThreadType
    <3> QED BY <1>10, <3>1, <3>2 DEF WorkerStep, Install, Work, WriteIncomplete,
                                     WorkDone, LeaveCancelled, EmitFinished, ClearRunning, history
  <2>6. SessionInv' /\ file' \in [Ops -> {"none", "partial", "completed"}]
    BY <2>1, TSWrite
  <2>7. TypeOK'
    BY <2>1, <2>2, <2>3, <2>4, <2>5, <2>6 DEF TSInv, TypeOK, ThreadType
  <2> QED BY <2>4, <2>6, <2>7 DEF TSInv
<1>11. CASE UNCHANGED vars
  <2>1. TypeOK'
    BY <1>11 DEF vars, TSInv, TypeOK
  <2>2. SessionInv' /\ SavingInv'
    BY <1>11, TSWrite, SavingKept DEF vars
  <2> QED BY <2>1, <2>2 DEF TSInv
<1> QED BY <1>2, <1>3, <1>4, <1>5, <1>6, <1>7, <1>8, <1>9, <1>10, <1>11, <1>12 DEF Next, Deliver

\* Every reachable state has its types: every thread, event, session pointer and file the
\* handlers and workers leave behind is one the program can name.
THEOREM TypeCorrect == Spec => []TypeOK
<1>1. Init => TSInv
  BY TSInit
<1>2. TSInv /\ [Next]_vars => TSInv'
  BY TSNext
<1>3. TSInv => TypeOK
  BY DEF TSInv
<1> QED BY <1>1, <1>2, <1>3, PTL DEF Spec
-----------------------------------------------------------------------------
(* As long as no open dialog was closed from outside. *)

QuietInv == BusyInv /\ FinishedInv /\ HookInv /\ ProgressInv /\ CancelInv

LEMMA EventType ==
  ASSUME TSInv, NEW i \in DOMAIN queue
  PROVE  IsType(i, "progress") \/ IsType(i, "finished")
<1> DEFINE E == [type : {"progress", "finished"}, worker : Workers, op : 0 .. MaxOps]
<1>1. queue \in Seq(E)
  BY DEF TSInv, TypeOK
<1>2. queue[i] \in E
  <2> HIDE DEF E
  <2> QED BY <1>1
<1> QED BY <1>2 DEF IsType

\* Nothing runs and nothing is posted while the UI thread is idle.
LEMMA QuietWhenClosed ==
  ASSUME TSInv, QuietInv, dlg # "open"
  PROVE  (\A w \in Workers : ~Busy(w)) /\ DOMAIN queue = {}
<1>1. \A w \in Workers : ~Busy(w)
  BY DEF QuietInv, BusyInv
<1>2. \A i \in DOMAIN queue : ~IsType(i, "finished") /\ ~IsType(i, "progress")
  BY DEF QuietInv, FinishedInv, ProgressInv
<1> QED BY <1>1, <1>2, EventType

LEMMA QuietRun ==
  ASSUME TSInv, QuietInv, NEW k \in Kinds, NEW p, frame = None, RunOperation(k, p)
  PROVE  QuietInv'
<1> DEFINE o == Len(ops) + 1
           t == IF NewTree(k) THEN o ELSE tree
           v == WorkerOf(k)
<1>1. /\ ops \in Seq(Kinds) /\ Len(ops) \in Nat /\ dlg = "none" /\ cancelled \subseteq 1 .. Len(ops)
      /\ thread \in [Workers -> ThreadType]
  BY DEF TSInv, TypeOK, ThreadType
<1>2. (\A w \in Workers : ~Busy(w)) /\ DOMAIN queue = {}
  BY <1>1, QuietWhenClosed
<1>3. hooked = {}
  BY DEF QuietInv, HookInv
<1>4. /\ ops' = Append(ops, k) /\ frame' = o /\ dlg' = "open" /\ tree' = t
      /\ StartWorker(v, o, t)
      /\ UNCHANGED <<queue, hooked, file, dismissed, cancelled, stopped>>
  BY DEF RunOperation, history
<1>5. v \in Workers /\ ops'[frame'] = k /\ frame' # None
  BY <1>1, <1>4, WorkerOfType, ConstantsAssumption DEF None
<1>6. ASSUME NEW w \in Workers, Busy(w)'
      PROVE  w = v /\ thread'[w].op = o /\ thread'[w].tree = t /\ thread'[w].pc = "install"
  <2>1. CASE thread[v].pc # "idle"
    BY <1>2, <1>4, <1>6, <2>1 DEF StartWorker, Busy, InCore
  <2>2. CASE thread[v].pc = "idle"
    <3>1. thread' = [thread EXCEPT ![v] = [pc |-> "install", op |-> o, left |-> Units, tree |-> t,
          saving |-> None]]
      BY <1>4, <2>2 DEF StartWorker
    <3>2. w = v
      BY <1>1, <1>2, <1>5, <1>6, <3>1 DEF Busy, InCore
    <3>3. thread[v] \in ThreadType
      BY <1>1, <1>5
    <3> HIDE DEF v, o, t
    <3> QED BY <1>1, <1>5, <3>1, <3>2
  <2> QED BY <2>1, <2>2
<1>7. DOMAIN queue' = {} /\ hooked' = {}
  BY <1>2, <1>3, <1>4
<1>8. BusyInv'
  BY <1>4, <1>5, <1>6, <1>7 DEF BusyInv
<1>9. FinishedInv' /\ ProgressInv'
  BY <1>7 DEF FinishedInv, ProgressInv
<1>10. HookInv'
  BY <1>6, <1>7 DEF HookInv
<1>11. CancelInv'
  <2> SUFFICES ASSUME NEW w \in Workers, Busy(w)', thread'[w].op \in cancelled'
               PROVE  cancelFlag'
    BY DEF CancelInv
  <2> QED BY <1>1, <1>4, <1>6
<1> QED BY <1>8, <1>9, <1>10, <1>11 DEF QuietInv

LEMMA QuietAccept == ASSUME TSInv, QuietInv, AcceptDialog PROVE QuietInv'
<1>1. (\A w \in Workers : ~Busy(w)) /\ DOMAIN queue = {} /\ dlg = "finished"
  BY QuietWhenClosed DEF AcceptDialog
<1>2. UNCHANGED <<thread, queue>>
  BY DEF AcceptDialog, ReturnFromExec
<1>3. (\A w \in Workers : ~Busy(w)') /\ DOMAIN queue' = {}
  BY <1>1, <1>2 DEF Busy, InCore
<1>4. hooked' = {}
  <2>1. CASE Uninstalls(ops[frame])
    BY <2>1 DEF AcceptDialog, ReturnFromExec
  <2>2. CASE ~Uninstalls(ops[frame])
    <3>1. WorkerOf(ops[frame]) = SimpleWorker
      BY <2>2 DEF Uninstalls, WorkerOf
    <3>2. hooked = {}
      BY <3>1 DEF QuietInv, HookInv
    <3> QED BY <2>2, <3>2 DEF AcceptDialog, ReturnFromExec
  <2> QED BY <2>1, <2>2
<1> QED BY <1>3, <1>4 DEF QuietInv, BusyInv, FinishedInv, HookInv, ProgressInv, CancelInv

LEMMA QuietDeliver == ASSUME TSInv, QuietInv, Deliver PROVE QuietInv'
<1>0. CASE ClearSession
  <2>1. (\A w \in Workers : ~Busy(w)) /\ DOMAIN queue = {}
    BY <1>0, QuietWhenClosed DEF ClearSession
  <2>2. UNCHANGED <<ops, frame, thread, queue, hooked>>
    BY <1>0 DEF ClearSession
  <2>3. (\A w \in Workers : ~Busy(w)') /\ DOMAIN queue' = {}
    BY <2>1, <2>2 DEF Busy, InCore
  <2>4. HookInv'
    BY <2>2, <2>3 DEF QuietInv, HookInv
  <2> QED BY <2>3, <2>4 DEF QuietInv, BusyInv, FinishedInv, ProgressInv, CancelInv
<1> SUFFICES ASSUME DeliverProgress \/ DeliverFinished PROVE QuietInv'
  BY <1>0 DEF Deliver
<1>1. /\ queue \in Seq([type : {"progress", "finished"}, worker : Workers, op : 0 .. MaxOps])
      /\ queue # <<>>
  BY DEF DeliverProgress, DeliverFinished, TSInv, TypeOK
<1>2. queue' = Tail(queue) /\ UNCHANGED <<ops, frame, tree, thread, cancelFlag, hooked, cancelled>>
  BY DEF DeliverProgress, DeliverFinished, session, history
<1>3. /\ Len(queue) \in Nat \ {0} /\ DOMAIN queue = 1 .. Len(queue)
      /\ DOMAIN queue' = 1 .. Len(queue) - 1
      /\ \A i \in DOMAIN queue' : i + 1 \in DOMAIN queue /\ queue'[i] = queue[i + 1]
  BY <1>1, <1>2
<1>4. CASE DeliverProgress
  <2>1. UNCHANGED dlg
    BY <1>4 DEF DeliverProgress
  <2>2. \A i \in DOMAIN queue' : \A t \in {"progress", "finished"} : IsType(i, t)' <=> IsType(i + 1, t)
    BY <1>3 DEF IsType
  <2>3. BusyInv'
    BY <1>2, <1>3, <2>1, <2>2 DEF QuietInv, BusyInv, Busy, InCore
  <2>4. FinishedInv'
    <3> SUFFICES ASSUME NEW i \in DOMAIN queue', IsType(i, "finished")'
                 PROVE  /\ queue'[i].op = frame' /\ dlg' = "open"
                        /\ \A j \in DOMAIN queue' : IsType(j, "finished")' => j = i
      BY DEF FinishedInv
    <3>1. i + 1 \in DOMAIN queue /\ IsType(i + 1, "finished") /\ queue'[i] = queue[i + 1]
      BY <1>3, <2>2
    <3>2. queue[i + 1].op = frame /\ dlg = "open"
      BY <3>1 DEF QuietInv, FinishedInv
    <3>3. ASSUME NEW j \in DOMAIN queue', IsType(j, "finished")' PROVE j = i
      <4>1. j + 1 \in DOMAIN queue /\ IsType(j + 1, "finished")
        BY <1>3, <2>2, <3>3
      <4>2. j + 1 = i + 1
        BY <3>1, <4>1 DEF QuietInv, FinishedInv
      <4> QED BY <1>3, <4>2
    <3> QED BY <1>2, <2>1, <3>1, <3>2, <3>3
  <2>5. HookInv' /\ CancelInv'
    BY <1>2 DEF QuietInv, HookInv, CancelInv, Busy, InCore
  <2>6. ProgressInv'
    <3> SUFFICES ASSUME NEW i \in DOMAIN queue', IsType(i, "progress")'
                 PROVE  /\ queue'[i].worker \in hooked' /\ queue'[i].op = frame' /\ dlg' = "open"
                        /\ \A j \in DOMAIN queue' : IsType(j, "finished")' => i < j
      BY DEF ProgressInv
    <3>1. i + 1 \in DOMAIN queue /\ IsType(i + 1, "progress") /\ queue'[i] = queue[i + 1]
      BY <1>3, <2>2
    <3>2. /\ queue[i + 1].worker \in hooked /\ queue[i + 1].op = frame /\ dlg = "open"
          /\ \A j \in DOMAIN queue : IsType(j, "finished") => i + 1 < j
      BY <3>1 DEF QuietInv, ProgressInv
    <3>3. ASSUME NEW j \in DOMAIN queue', IsType(j, "finished")' PROVE i < j
      <4>1. j + 1 \in DOMAIN queue /\ IsType(j + 1, "finished")
        BY <1>3, <2>2, <3>3
      <4> QED BY <1>3, <3>2, <4>1
    <3> QED BY <1>2, <2>1, <3>1, <3>2, <3>3
  <2> QED BY <2>3, <2>4, <2>5, <2>6 DEF QuietInv
<1>5. CASE DeliverFinished
  <2>1. 1 \in DOMAIN queue /\ Head(queue) = queue[1] /\ IsType(1, "finished")
    BY <1>1, <1>3, <1>5 DEF DeliverFinished, IsType
  <2>2. \A w \in Workers : ~Busy(w)
    BY <2>1 DEF QuietInv, BusyInv
  <2>3. DOMAIN queue' = {}
    <3> SUFFICES ASSUME NEW i \in DOMAIN queue' PROVE FALSE
      OBVIOUS
    <3>1. i + 1 \in DOMAIN queue /\ i + 1 # 1 /\ ~(i + 1 < 1)
      BY <1>3
    <3>2. ~IsType(i + 1, "finished") /\ ~IsType(i + 1, "progress")
      BY <2>1, <3>1 DEF QuietInv, FinishedInv, ProgressInv
    <3> QED BY <3>1, <3>2, EventType
  <2>4. \A w \in Workers : ~Busy(w)'
    BY <1>2, <2>2 DEF Busy, InCore
  <2>5. HookInv'
    BY <1>2, <2>4 DEF QuietInv, HookInv
  <2> QED BY <2>3, <2>4, <2>5 DEF QuietInv, BusyInv, FinishedInv, ProgressInv, CancelInv
<1> QED BY <1>4, <1>5

LEMMA QuietWorker ==
  ASSUME TSInv, QuietInv, NEW w \in Workers, WorkerStep(w) PROVE QuietInv'
<1>1. /\ thread \in [Workers -> ThreadType]
      /\ queue \in Seq([type : {"progress", "finished"}, worker : Workers, op : 0 .. MaxOps])
  BY DEF TSInv, TypeOK, ThreadType
<1>2. UNCHANGED <<ops, frame, dlg, tree, cancelFlag, cancelled>>
  BY DEF WorkerStep, Install, Work, WriteIncomplete, Poll, WorkDone, LeaveCancelled, EmitFinished, ClearRunning,
         session, history
<1>3. \A v \in Workers : v # w => thread'[v] = thread[v]
  BY <1>1 DEF WorkerStep, Install, Work, WriteIncomplete, Poll, WorkDone, LeaveCancelled, EmitFinished, ClearRunning, Goto
<1>4. ASSUME Busy(w) PROVE
        /\ thread[w].op = frame /\ frame # None /\ thread[w].tree = tree /\ dlg = "open"
        /\ w = WorkerOf(ops[frame])
        /\ \A i \in DOMAIN queue : ~IsType(i, "finished")
        /\ \A v \in Workers : Busy(v) => v = w
  BY <1>4 DEF QuietInv, BusyInv
<1>5. CASE Install(w) \/ WriteIncomplete(w) \/ Poll(w) \/ WorkDone(w) \/ LeaveCancelled(w)
  <2>0. thread[w] \in ThreadType
    BY <1>1
  <2>1. /\ Busy(w) /\ Busy(w)'
        /\ thread'[w].op = thread[w].op /\ thread'[w].tree = thread[w].tree
        /\ UNCHANGED queue
    <3>1. CASE Install(w)
      BY <1>1, <2>0, <3>1 DEF Install, Goto, Busy, InCore, CorePCs, ThreadType
    <3>2. CASE WriteIncomplete(w)
      BY <1>1, <2>0, <3>2 DEF WriteIncomplete, Busy, InCore, CorePCs, ThreadType
    <3>3. CASE Poll(w)
      BY <1>1, <2>0, <3>3 DEF Poll, Busy, InCore, CorePCs, ThreadType
    <3>4. CASE WorkDone(w)
      BY <1>1, <2>0, <3>4 DEF WorkDone, Goto, Busy, InCore, CorePCs, ThreadType
    <3>5. CASE LeaveCancelled(w)
      BY <1>1, <2>0, <3>5 DEF LeaveCancelled, Goto, Busy, InCore, CorePCs, ThreadType
    <3> QED BY <1>5, <3>1, <3>2, <3>3, <3>4, <3>5
  <2>2. \A v \in Workers : Busy(v)' => v = w
    BY <1>3, <1>4, <2>1 DEF Busy, InCore, CorePCs
  <2>3. hooked \subseteq hooked' /\ (\A v \in hooked' : v \in hooked \/ (v = w /\ w # SimpleWorker))
    BY <1>5 DEF Install, WriteIncomplete, Poll, WorkDone, LeaveCancelled
  <2>4. w # SimpleWorker => w \in hooked'
    <3>1. CASE Install(w)
      BY <3>1 DEF Install
    <3>2. CASE WriteIncomplete(w) \/ Poll(w) \/ WorkDone(w) \/ LeaveCancelled(w)
      <4>1. thread[w].pc # "install" /\ UNCHANGED hooked
        BY <3>2 DEF WriteIncomplete, Poll, WorkDone, LeaveCancelled
      <4> QED BY <2>1, <4>1 DEF QuietInv, HookInv
    <3> QED BY <1>5, <3>1, <3>2
  <2>5. BusyInv'
    BY <1>2, <1>4, <2>1, <2>2 DEF BusyInv, IsType
  <2>6. FinishedInv' /\ ProgressInv'
    BY <1>2, <2>1, <2>3 DEF QuietInv, FinishedInv, ProgressInv, IsType
  <2>7. HookInv'
    BY <1>2, <1>4, <2>1, <2>2, <2>3, <2>4 DEF QuietInv, HookInv
  <2>8. CancelInv'
    BY <1>2, <2>1, <2>2 DEF QuietInv, CancelInv
  <2> QED BY <2>5, <2>6, <2>7, <2>8 DEF QuietInv
<1>6. CASE Work(w)
  <2>1. Busy(w) /\ thread[w].pc = "core" /\ UNCHANGED hooked
    BY <1>6 DEF Work, Busy, InCore, CorePCs
  <2>2. thread'[w].op = thread[w].op /\ thread'[w].tree = thread[w].tree
    <3>1. thread[w] \in ThreadType
      BY <1>1
    <3> QED BY <1>1, <1>6, <3>1 DEF Work, Goto, ThreadType
  <2>3. \A v \in Workers : Busy(v)' => v = w
    BY <1>3, <1>4, <2>1 DEF Busy, InCore, CorePCs
  <2>4. \/ UNCHANGED queue
        \/ w \in hooked /\ queue' = Append(queue, Event("progress", w, thread[w].op))
    BY <1>6 DEF Work
  <2>5. \A i \in DOMAIN queue' : ~IsType(i, "finished")'
    <3>1. CASE UNCHANGED queue
      BY <1>4, <2>1, <3>1 DEF IsType
    <3>2. CASE queue' = Append(queue, Event("progress", w, thread[w].op))
      <4> SUFFICES ASSUME NEW i \in DOMAIN queue' PROVE ~IsType(i, "finished")'
        OBVIOUS
      <4>1. \/ i \in DOMAIN queue /\ queue'[i] = queue[i]
            \/ queue'[i] = Event("progress", w, thread[w].op)
        BY SMTT(30), <1>1, <3>2
      <4>2. CASE i \in DOMAIN queue /\ queue'[i] = queue[i]
        BY <1>4, <2>1, <4>2 DEF IsType
      <4>3. CASE queue'[i] = Event("progress", w, thread[w].op)
        BY <4>3 DEF IsType, Event
      <4> QED BY <4>1, <4>2, <4>3
    <3> QED BY <2>4, <3>1, <3>2
  <2>6. \A i \in DOMAIN queue' : IsType(i, "progress")' =>
          queue'[i].worker \in hooked /\ queue'[i].op = frame
    <3>1. CASE UNCHANGED queue
      BY <3>1 DEF QuietInv, ProgressInv, IsType
    <3>2. CASE w \in hooked /\ queue' = Append(queue, Event("progress", w, thread[w].op))
      <4> SUFFICES ASSUME NEW i \in DOMAIN queue', IsType(i, "progress")'
                   PROVE  queue'[i].worker \in hooked /\ queue'[i].op = frame
        OBVIOUS
      <4>1. \/ i \in DOMAIN queue /\ queue'[i] = queue[i]
            \/ queue'[i] = Event("progress", w, thread[w].op)
        BY SMTT(30), <1>1, <3>2
      <4>2. CASE i \in DOMAIN queue /\ queue'[i] = queue[i]
        BY <4>2 DEF QuietInv, ProgressInv, IsType
      <4>3. CASE queue'[i] = Event("progress", w, thread[w].op)
        BY <1>4, <2>1, <3>2, <4>3 DEF Event
      <4> QED BY <4>1, <4>2, <4>3
    <3> QED BY <2>4, <3>1, <3>2
  <2>7. BusyInv'
    BY <1>2, <1>4, <2>1, <2>2, <2>3, <2>5 DEF BusyInv
  <2>8. FinishedInv' /\ ProgressInv'
    BY <1>2, <1>4, <2>1, <2>5, <2>6 DEF FinishedInv, ProgressInv
  <2>9. HookInv'
    <3>1. w # SimpleWorker => w \in hooked
      BY <2>1 DEF QuietInv, HookInv
    <3> QED BY <1>2, <2>1, <2>3, <3>1 DEF QuietInv, HookInv
  <2>10. CancelInv'
    BY <1>2, <2>1, <2>2, <2>3 DEF QuietInv, CancelInv
  <2> QED BY <2>7, <2>8, <2>9, <2>10 DEF QuietInv
<1>7. CASE EmitFinished(w)
  <2>1. Busy(w) /\ UNCHANGED hooked /\ thread'[w].pc = "clear"
    BY <1>1, <1>7 DEF EmitFinished, Goto, Busy, InCore, CorePCs
  <2>2. \A v \in Workers : ~Busy(v)'
    BY <1>3, <1>4, <2>1 DEF Busy, InCore, CorePCs
  <2>3. /\ Len(queue) \in Nat /\ DOMAIN queue = 1 .. Len(queue)
        /\ DOMAIN queue' = 1 .. Len(queue) + 1
        /\ queue'[Len(queue) + 1] = Event("finished", w, thread[w].op)
        /\ \A i \in DOMAIN queue : queue'[i] = queue[i]
    BY SMTT(30), <1>1, <1>7 DEF EmitFinished
  <2>4. \A i \in DOMAIN queue' : i \in DOMAIN queue \/ i = Len(queue) + 1
    BY <2>3
  <2>5. \A i \in DOMAIN queue' : IsType(i, "finished")' => i = Len(queue) + 1
    BY <1>4, <2>1, <2>3, <2>4 DEF IsType
  <2>6. FinishedInv'
    BY <1>2, <1>4, <2>1, <2>3, <2>5 DEF FinishedInv, Event
  <2>7. ProgressInv'
    <3> SUFFICES ASSUME NEW i \in DOMAIN queue', IsType(i, "progress")'
                 PROVE  /\ queue'[i].worker \in hooked /\ queue'[i].op = frame /\ dlg = "open"
                        /\ \A j \in DOMAIN queue' : IsType(j, "finished")' => i < j
      BY <1>2, <2>1 DEF ProgressInv
    <3>1. i \in DOMAIN queue /\ queue'[i] = queue[i]
      BY <2>3, <2>4 DEF IsType, Event
    <3>2. queue[i].worker \in hooked /\ queue[i].op = frame /\ dlg = "open"
      BY <3>1 DEF QuietInv, ProgressInv, IsType
    <3> QED BY <2>3, <2>5, <3>1, <3>2
  <2>8. HookInv'
    BY <1>2, <2>1, <2>2 DEF QuietInv, HookInv
  <2> QED BY <2>2, <2>6, <2>7, <2>8 DEF QuietInv, BusyInv, CancelInv
<1>8. CASE ClearRunning(w)
  <2>1. UNCHANGED <<queue, hooked>> /\ ~Busy(w)'
    BY <1>1, <1>8 DEF ClearRunning, NoThread, Busy, InCore, CorePCs
  <2>2. \A v \in Workers : Busy(v)' =>
          Busy(v) /\ thread'[v] = thread[v]
    BY <1>3, <2>1 DEF Busy, InCore, CorePCs
  <2>3. BusyInv' /\ FinishedInv' /\ ProgressInv'
    BY <1>2, <2>1, <2>2 DEF QuietInv, BusyInv, FinishedInv, ProgressInv, IsType
  <2>4. HookInv' /\ CancelInv'
    BY <1>2, <2>1, <2>2 DEF QuietInv, HookInv, CancelInv
  <2> QED BY <2>3, <2>4 DEF QuietInv
<1> QED BY <1>5, <1>6, <1>7, <1>8 DEF WorkerStep
LEMMA IInvInit == Init => IInv
<1>1. Init => TSInv
  BY TSInit
<1>2. Init => QuietInv
  BY DEF Init, QuietInv, BusyInv, FinishedInv, HookInv, ProgressInv, CancelInv, Busy, InCore,
         CorePCs, NoThread
<1> QED BY <1>1, <1>2 DEF IInv, TSInv, QuietInv

LEMMA IInvNext == ASSUME IInv, [Next]_vars PROVE IInv'
<1>1. TSInv /\ TSInv'
  BY TSNext DEF IInv, TSInv
<1>2. SUFFICES ASSUME NoDismissal' PROVE QuietInv'
  BY <1>1 DEF IInv, TSInv, QuietInv
<1>3. CASE Dismiss
  <2>1. frame \in dismissed'
    BY <1>3 DEF Dismiss
  <2> QED BY <1>2, <2>1 DEF NoDismissal
<1>4. CASE ~Dismiss
  <2>1. NoDismissal
    <3>1. UNCHANGED dismissed
      BY <1>4 DEF Next, Begin, ShowCompleted, ContinueSession, RunOperation, PressCancel,
           AcceptDialog, Deliver, DeliverProgress, DeliverFinished, ClearSession, WorkerStep,
           Install, Work, WriteIncomplete, Poll, WorkDone, LeaveCancelled, EmitFinished, ClearRunning, history, vars
    <3> QED BY <1>2, <3>1 DEF NoDismissal
  <2>2. QuietInv
    BY <2>1 DEF IInv, QuietInv
  <2>3. ASSUME NEW k \in Kinds, Begin(k) PROVE QuietInv'
    BY <1>1, <2>2, <2>3, QuietRun DEF Begin
  <2>4. ASSUME NEW p \in Ops, ShowCompleted(p) PROVE QuietInv'
    <3>1. dlg # "open"
      BY <1>1, <2>4 DEF ShowCompleted, TSInv, TypeOK
    <3>2. UNCHANGED <<ops, frame, dlg, thread, queue, cancelFlag, hooked, cancelled>>
      BY <2>4 DEF ShowCompleted, session, history
    <3>3. (\A w \in Workers : ~Busy(w)') /\ DOMAIN queue' = {}
      BY <1>1, <2>2, <3>1, <3>2, QuietWhenClosed DEF Busy, InCore
    <3> QED BY <2>2, <3>2, <3>3 DEF QuietInv, BusyInv, FinishedInv, HookInv, ProgressInv, CancelInv
  <2>5. ASSUME NEW p \in Ops, ContinueSession(p) PROVE QuietInv'
    <3>1. ops \in Seq(Kinds) /\ p \in 1 .. Len(ops) /\ frame = None
      BY <1>1, <2>5 DEF ContinueSession, TSInv, TypeOK, SessionInv
    <3>2. ops[p] \in Kinds
      BY <3>1
    <3> QED BY <1>1, <2>2, <2>5, <3>1, <3>2, QuietRun DEF ContinueSession
  <2>6. CASE PressCancel
    <3>1. cancelFlag' /\ UNCHANGED <<ops, frame, dlg, tree, thread, queue, hooked>>
      BY <2>6 DEF PressCancel
    <3> QED BY <2>2, <3>1 DEF QuietInv, BusyInv, FinishedInv, HookInv, ProgressInv, CancelInv,
                              Busy, InCore, IsType
  <2>7. ASSUME UNCHANGED vars PROVE QuietInv'
    BY <2>2, <2>7 DEF vars, QuietInv, BusyInv, FinishedInv, HookInv, ProgressInv, CancelInv,
                      Busy, InCore, IsType
  <2> QED BY <1>1, <1>4, <2>2, <2>3, <2>4, <2>5, <2>6, <2>7, QuietAccept, QuietDeliver,
             QuietWorker DEF Next
<1> QED BY <1>3, <1>4

LEMMA Invariance == Spec => []IInv
BY IInvInit, IInvNext, PTL DEF Spec

-----------------------------------------------------------------------------
(* The properties the runs check, for every set of kinds and every bound. *)

\* A worker in the C core has its handler on the stack, its tree in m_scanTree and its
\* dialog open: the tree_free and free calls of the next handler cannot pull them away.
THEOREM FrameOutlivesCore == Spec => []CoreOwnsItsFrame
<1>1. IInv => CoreOwnsItsFrame
  BY DEF IInv, BusyInv, CoreOwnsItsFrame, Busy
<1> QED BY <1>1, Invariance, PTL

\* The cancel flag that beginOperation() resets and the hooks that
\* uninstallAllCallbacks() removes are never touched between a Cancel and the core's poll.
THEOREM CancelIsNotLost == Spec => []CancelReachesCore
<1>1. IInv => CancelReachesCore
  BY DEF IInv, HookInv, CancelInv, CancelReachesCore, Busy, InCore, CorePCs
<1> QED BY <1>1, Invariance, PTL

\* emitToInstance never meets a NULL or foreign instance pointer.
THEOREM ProgressIsReceived == Spec => []ProgressHasReceiver
<1>1. IInv => ProgressHasReceiver
  BY DEF IInv, ProgressInv, ProgressHasReceiver, IsType
<1> QED BY <1>1, Invariance, PTL

\* cancelSession() and uninstallAllCallbacks() leave nothing to the next operation.
THEOREM IdleLeavesNothing == Spec => []IdleIsClean
<1>1. IInv => IdleIsClean
  BY DEF IInv, SessionInv, HookInv, IdleIsClean, TSInv
<1> QED BY <1>1, Invariance, PTL

\* endSession() writes the tree when the worker that filled it has left the core.
THEOREM FinalSaveSeesQuietTree == Spec => FinalSaveIsQuiet
<1> DEFINE Completes == \E p \in Ops : file[p] # "completed" /\ file'[p] = "completed"
<1>1. ASSUME IInv, [Next]_vars
      PROVE  [NoDismissal /\ Completes => \A w \in Workers : ~InCore(w)]_vars
  <2> SUFFICES ASSUME NoDismissal, Completes PROVE \A w \in Workers : ~InCore(w)
    OBVIOUS
  <2>1. TSInv /\ QuietInv
    BY <1>1 DEF IInv, TSInv, QuietInv
  <2>2. file' # file
    OBVIOUS
  <2>3. file \in [Ops -> {"none", "partial", "completed"}] /\ Ops = 1 .. MaxOps
    BY <2>1 DEF TSInv, TypeOK, Ops
  <2>4. ASSUME NEW w \in Workers PROVE ~WriteIncomplete(w)
    <3>1. \A q : file' # [file EXCEPT ![q] = "partial"]
      BY <2>3
    <3> QED BY <3>1 DEF WriteIncomplete
  <2>5. DeliverFinished
    BY <1>1, <2>2, <2>4 DEF Next, Begin, ShowCompleted, ContinueSession, RunOperation,
       PressCancel, Dismiss, AcceptDialog, ReturnFromExec, Deliver, DeliverProgress, ClearSession,
       WorkerStep, Install, Work, Poll, WorkDone, LeaveCancelled, EmitFinished, ClearRunning,
       session, vars
  <2>6. queue \in Seq([type : {"progress", "finished"}, worker : Workers, op : 0 .. MaxOps])
    BY <2>1 DEF TSInv, TypeOK
  <2>7. 1 \in DOMAIN queue /\ IsType(1, "finished")
    BY <2>5, <2>6 DEF DeliverFinished, IsType
  <2> QED BY <2>1, <2>7 DEF QuietInv, BusyInv, Busy
<1>2. IInv /\ [Next]_vars => [NoDismissal /\ Completes => \A w \in Workers : ~InCore(w)]_vars
  BY <1>1
<1>3. Spec => [][NoDismissal /\ Completes => \A w \in Workers : ~InCore(w)]_vars
  <2> HIDE DEF Completes
  <2> QED BY <1>2, Invariance, PTL DEF Spec
<1> QED BY <1>3 DEF FinalSaveIsQuiet

\* As long as no open dialog was closed from outside: the file of the session in hand is
\* completed only inside endSession(), and a checkpoint on its way is one of that session.
CtxInv ==
  /\ IInv
  /\ NoDismissal =>
       /\ saveCtx # None /\ file[saveCtx] = "completed" => dlg = "ending"
       /\ \A w \in Workers : thread[w].pc \in {"save", "lastsave"} => thread[w].saving = saveCtx

Keeps == \A p \in Ops : file[p] = "completed" => file'[p] = "completed"

LEMMA CtxNext ==
  ASSUME CtxInv, [Next]_vars PROVE CtxInv' /\ (NoDismissal' => Keeps)
<1> DEFINE CtxQuiet == /\ saveCtx # None /\ file[saveCtx] = "completed" => dlg = "ending"
                       /\ \A w \in Workers : thread[w].pc \in {"save", "lastsave"}
                                              => thread[w].saving = saveCtx
<1>1. IInv' /\ TSInv
  BY IInvNext DEF CtxInv, IInv, TSInv
<1>2. SUFFICES ASSUME NoDismissal' PROVE CtxQuiet' /\ Keeps
  BY <1>1 DEF CtxInv
<1>3. NoDismissal /\ ~Dismiss
  <2>1. ~Dismiss
    BY <1>2 DEF Dismiss, NoDismissal
  <2>2. UNCHANGED dismissed
    BY <2>1 DEF Next, Begin, ShowCompleted, ContinueSession, RunOperation, PressCancel,
           AcceptDialog, Deliver, DeliverProgress, DeliverFinished, ClearSession, WorkerStep,
           Install, Work, WriteIncomplete, Poll, WorkDone, LeaveCancelled, EmitFinished,
           ClearRunning, history, vars
  <2> QED BY <1>2, <2>1, <2>2 DEF NoDismissal
<1>4. CtxQuiet /\ QuietInv
  BY <1>3 DEF CtxInv, IInv, QuietInv
<1>5. /\ ops \in Seq(Kinds) /\ Len(ops) \in Nat /\ Len(ops) <= MaxOps /\ Ops = 1 .. MaxOps
      /\ file \in [Ops -> {"none", "partial", "completed"}] /\ saveCtx \in 0 .. Len(ops)
      /\ thread \in [Workers -> ThreadType] /\ (dlg = "none" <=> frame = None)
      /\ None = 0 /\ MaxOps \in Nat
  BY <1>1, ConstantsAssumption DEF TSInv, TypeOK, ThreadType, Ops, None
<1>6. ASSUME dlg # "open" PROVE \A w \in Workers : ~Busy(w)
  BY <1>1, <1>4, <1>6, QuietWhenClosed
<1>7. ASSUME \A w \in Workers : ~Busy(w)', UNCHANGED file,
             saveCtx' # None => file[saveCtx'] # "completed"
      PROVE  CtxQuiet' /\ Keeps
  <2>1. \A w \in Workers : ~(thread'[w].pc \in {"save", "lastsave"})
    BY <1>7 DEF Busy, InCore, CorePCs
  <2> QED BY <1>7, <2>1 DEF Keeps
<1>8. ASSUME NEW k, NEW p \in Ops \cup {0}, RunOperation(k, p), frame = None,
             p # 0 => file[p] # "completed"
      PROVE  CtxQuiet' /\ Keeps
  <2>1. (\A w \in Workers : ~Busy(w)) /\ saveCtx = None
    BY <1>1, <1>5, <1>6, <1>8 DEF TSInv, SessionInv
  <2>2. \A w \in Workers : thread'[w].pc \in {"save", "lastsave"} => FALSE
    <3>1. \A w \in Workers : ~(thread[w].pc \in {"save", "lastsave"})
      BY <2>1 DEF Busy, InCore, CorePCs
    <3>2. \A w \in Workers : thread'[w] = thread[w] \/ thread'[w].pc = "install"
      BY <1>5, <1>8 DEF RunOperation, StartWorker
    <3> QED BY <3>1, <3>2
  <2>3. UNCHANGED file /\ saveCtx' \in {p, 0}
    BY <1>8, <2>1, <1>5 DEF RunOperation, BeginSession
  <2> QED BY <1>5, <1>8, <2>2, <2>3 DEF Keeps
<1>9. ASSUME NEW k \in Kinds, Begin(k) PROVE CtxQuiet' /\ Keeps
  <2>1. frame = None /\ Len(ops) + 1 \in Ops
    BY <1>5, <1>9 DEF Begin
  <2>2. file[Len(ops) + 1] # "completed"
    BY <1>1, <1>5, <2>1 DEF TSInv, SessionInv
  <2> QED BY <1>5, <1>8, <1>9, <2>1, <2>2 DEF Begin
<1>10. ASSUME NEW p \in Ops, ContinueSession(p) PROVE CtxQuiet' /\ Keeps
  BY <1>8, <1>10 DEF ContinueSession
<1>11. ASSUME DeliverFinished PROVE CtxQuiet' /\ Keeps
  <2>1. /\ queue \in Seq([type : {"progress", "finished"}, worker : Workers, op : 0 .. MaxOps])
        /\ queue # <<>> /\ Head(queue).type = "finished"
    BY <1>1, <1>11 DEF DeliverFinished, TSInv, TypeOK
  <2>2. 1 \in DOMAIN queue /\ IsType(1, "finished")
    BY <2>1 DEF IsType
  <2>3. \A w \in Workers : ~Busy(w)
    BY <1>4, <2>2 DEF QuietInv, BusyInv
  <2>4. \A w \in Workers : ~(thread'[w].pc \in {"save", "lastsave"})
    BY <1>11, <2>3 DEF DeliverFinished, Busy, InCore, CorePCs
  <2>5. CASE saveCtx # None /\ FinishedSlot
    BY <1>5, <2>4, <2>5 DEF FinishedSlot, Keeps
  <2>6. CASE UNCHANGED session /\ saveCtx = None
    BY <2>4, <2>6 DEF session, Keeps
  <2>7. CASE UNCHANGED <<dlg, session>>
    BY <1>4, <2>4, <2>7 DEF session, Keeps
  <2> QED BY <1>11, <2>5, <2>6, <2>7 DEF DeliverFinished, FinishedSlot
<1>12. ASSUME ClearSession \/ AcceptDialog PROVE CtxQuiet' /\ Keeps
  <2>1. dlg # "open" /\ UNCHANGED <<thread, file>> /\ saveCtx' = None
    BY <1>12 DEF ClearSession, AcceptDialog, ReturnFromExec
  <2>2. \A w \in Workers : ~Busy(w)'
    BY <1>6, <2>1 DEF Busy, InCore
  <2> QED BY <1>7, <2>1, <2>2
<1>13. ASSUME NEW w \in Workers, WorkerStep(w) PROVE CtxQuiet' /\ Keeps
  <2>1. UNCHANGED <<saveCtx, dlg>>
    BY <1>13 DEF WorkerStep, Install, Work, WriteIncomplete, Poll, WorkDone, LeaveCancelled,
                 EmitFinished, ClearRunning, session
  <2>2. \A v \in Workers : v # w => thread'[v] = thread[v]
    BY <1>5, <1>13 DEF WorkerStep, Install, Work, WriteIncomplete, Poll, WorkDone,
                       LeaveCancelled, EmitFinished, ClearRunning, Goto
  <2>3. thread'[w].pc \in {"save", "lastsave"} => thread'[w].saving = saveCtx
    <3>1. thread[w] \in ThreadType
      BY <1>5
    <3> QED BY <1>5, <1>13, <3>1 DEF WorkerStep, Install, Work, WriteIncomplete, Poll, WorkDone,
               LeaveCancelled, EmitFinished, ClearRunning, Goto, NoThread, ThreadType
  <2>4. CASE WriteIncomplete(w)
    <3>1. Busy(w) /\ thread[w].saving = saveCtx /\ saveCtx # None
      BY <1>1, <1>4, <2>4 DEF WriteIncomplete, Busy, InCore, CorePCs, TSInv, SavingInv
    <3>2. dlg = "open"
      BY <1>4, <3>1 DEF QuietInv, BusyInv
    <3>3. file[saveCtx] # "completed" /\ file' = [file EXCEPT ![saveCtx] = "partial"]
      BY <1>4, <2>4, <3>1, <3>2 DEF WriteIncomplete
    <3>4. Keeps /\ file'[saveCtx] # "completed"
      BY <1>5, <3>1, <3>3 DEF Keeps
    <3> QED BY <1>4, <2>1, <2>2, <2>3, <3>4
  <2>5. CASE ~WriteIncomplete(w)
    <3>1. UNCHANGED file
      BY <1>13, <2>5 DEF WorkerStep, Install, Work, Poll, WorkDone, LeaveCancelled,
                 EmitFinished, ClearRunning, session
    <3> QED BY <1>4, <2>1, <2>2, <2>3, <3>1 DEF Keeps
  <2> QED BY <2>4, <2>5
<1>14. ASSUME \/ (\E p \in Ops : ShowCompleted(p)) \/ PressCancel
              \/ DeliverProgress \/ UNCHANGED vars
       PROVE  CtxQuiet' /\ Keeps
  <2>1. UNCHANGED <<file, saveCtx, thread, dlg>>
    BY <1>14 DEF ShowCompleted, PressCancel, DeliverProgress, session, vars
  <2> QED BY <1>4, <2>1 DEF Keeps
<1> QED BY <1>3, <1>9, <1>10, <1>11, <1>12, <1>13, <1>14 DEF Next, Deliver

\* As long as every dialog is left open until its worker is done, no checkpoint of the
\* core writes INCOMPLETE over a file that endSession() completed: the worker's check of
\* the context and its write, and endSession()'s save and its clearing of the context,
\* may fall between each other as they like.
THEOREM CompletedStays == Spec => CompletedIsFinal
<1>1. Init => CtxInv
  <2>1. Init => IInv
    BY IInvInit
  <2> QED BY <2>1 DEF Init, CtxInv, NoThread
<1>2. CtxInv /\ [Next]_vars => CtxInv' /\ [NoDismissal => Keeps]_vars
  <2> SUFFICES ASSUME CtxInv, [Next]_vars PROVE CtxInv' /\ [NoDismissal => Keeps]_vars
    OBVIOUS
  <2>1. CtxInv' /\ (NoDismissal' => Keeps)
    BY CtxNext
  <2>2. CASE Dismiss
    BY <2>1, <2>2 DEF Dismiss, ReturnFromExec, Keeps
  <2>3. CASE ~Dismiss
    <3>1. UNCHANGED dismissed
      BY <2>3 DEF Next, Begin, ShowCompleted, ContinueSession, RunOperation, PressCancel,
             AcceptDialog, Deliver, DeliverProgress, DeliverFinished, ClearSession, WorkerStep,
             Install, Work, WriteIncomplete, Poll, WorkDone, LeaveCancelled, EmitFinished,
             ClearRunning, history, vars
    <3> QED BY <2>1, <3>1 DEF NoDismissal
  <2> QED BY <2>2, <2>3
<1>3. Spec => [][NoDismissal => Keeps]_vars
  <2> HIDE DEF Keeps, NoDismissal
  <2> QED BY <1>1, <1>2, PTL DEF Spec
<1> QED BY <1>3 DEF CompletedIsFinal, Keeps
=============================================================================
