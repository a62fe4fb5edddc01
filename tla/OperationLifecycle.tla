------------------------- MODULE OperationLifecycle -------------------------
(***************************************************************************)
(* How one operation (scan, deep scan, carve, restore, backup, compare)    *)
(* runs: the UI thread's handler in ui/mainwindow.cpp, the worker thread   *)
(* of wrappers/workerbase.cpp and its subclasses, the hooks and the cancel *)
(* flag of wrappers/progresscallback.cpp, the modal ProgressDialog, and    *)
(* the session context of wrappers/sessionmanager.cpp.                     *)
(*                                                                         *)
(* The UI thread runs one handler at a time.  A handler builds a stack     *)
(* frame (the dialog and the flags its lambdas capture by reference),      *)
(* starts a worker and blocks in dlg.exec(), a nested event loop that      *)
(* delivers posted events in order.  The worker runs the C core.           *)
(***************************************************************************)
EXTENDS Naturals, Sequences, FiniteSets

CONSTANTS
  Kinds,    \* the operations the user asks for, a subset of AllKinds
  MaxOps,   \* bound: operations begun in one run of the program
  Units     \* stretches of work the core does between two polls

AllKinds == {"scan", "deep", "carve", "restore", "backup", "compare"}

ASSUME ConstantsAssumption ==
  /\ Kinds \subseteq AllKinds
  /\ MaxOps \in Nat \ {0}
  /\ Units \in Nat \ {0}

Ops == 1 .. MaxOps
None == 0                      \* no operation: also NULL pointers and an empty stack

VARIABLES
  ops,         \* the kind of every operation begun, in order
  frame,       \* the operation whose handler is on the UI stack, None when idle
  dlg,         \* its ProgressDialog: "none", "open", "ending" (its finished slot is inside
               \* endSession()) or "finished" (accept() is posted)
  tree,        \* the operation that allocated m_scanTree
  thread,      \* per worker: where its thread is, for which operation, on which tree, and
               \* the session file whose context it has found set and not yet used
  queue,       \* events posted to the UI thread
  cancelFlag,  \* m_cancelled of ProgressCallback::instance()
  hooked,      \* workers whose g_*_progress / g_*_cancel pointers are set
  saveCtx,     \* g_active_save_ctx: the session file it names, None when NULL
  saveCb,      \* g_session_save_cb is set
  file,        \* what each session file holds
  (* history, read by properties only *)
  dismissed,   \* operations whose dialog the user closed while it was open
  cancelled,   \* operations whose Cancel button the user pressed
  stopped      \* operations whose core left its loop because of the cancel flag

vars == <<ops, frame, dlg, tree, thread, queue, cancelFlag, hooked, saveCtx, saveCb,
          file, dismissed, cancelled, stopped>>
session == <<saveCtx, saveCb, file>>
history == <<dismissed, cancelled, stopped>>

-----------------------------------------------------------------------------
(* The four worker objects of MainWindow and what each kind does with them. *)

Scanner == "scanner"
Carver == "carver"
Restorer == "restorer"
SimpleWorker == "simple"
Workers == {Scanner, Carver, Restorer, SimpleWorker}

WorkerOf(k) == CASE k \in {"scan", "deep"} -> Scanner
                 [] k = "carve" -> Carver
                 [] k = "restore" -> Restorer
                 [] k \in {"backup", "compare"} -> SimpleWorker

HasSession(k) == k \in {"deep", "carve"}          \* the user may ask for a session file
NewTree(k)    == k \notin {"restore", "backup"}   \* frees m_scanTree and allocates one
CanCancel(k)  == k \notin {"backup", "compare"}   \* the dialog shows its Cancel button
Uninstalls(k) == k # "backup"                     \* uninstallAllCallbacks() after exec()

\* carver_scan polls after every chunk; scanner_run after the walk and inside some
\* phases, never after the last one; restore_files and backup_* never poll.
Polls(w, left) == \/ w = Carver
                  \/ w = Scanner /\ left > 1

CorePCs == {"install", "core", "save", "poll", "cancelled", "lastsave"}
ThreadPCs == CorePCs \cup {"idle", "emit", "clear"}
InCore(w) == thread[w].pc \in CorePCs
NoThread == [pc |-> "idle", op |-> None, left |-> 0, tree |-> None, saving |-> None]

Event(t, w, o) == [type |-> t, worker |-> w, op |-> o]

Init ==
  /\ ops = <<>>
  /\ frame = None /\ dlg = "none"
  /\ tree = None
  /\ thread = [w \in Workers |-> NoThread]
  /\ queue = <<>>
  /\ cancelFlag = FALSE
  /\ hooked = {}
  /\ saveCtx = None /\ saveCb = FALSE
  /\ file = [p \in Ops |-> "none"]
  /\ dismissed = {} /\ cancelled = {} /\ stopped = {}

-----------------------------------------------------------------------------
(* The UI thread's handlers, up to dlg.exec(). *)

\* beginOperation() and startThread(): refused, silently, while m_running is set.
\* m_running is set exactly while the thread is not "idle".
StartWorker(w, o, t) ==
  IF thread[w].pc # "idle"
  THEN UNCHANGED <<thread, cancelFlag>>
  ELSE /\ thread' = [thread EXCEPT ![w] =
                       [pc |-> "install", op |-> o, left |-> Units, tree |-> t,
                        saving |-> None]]
       /\ cancelFlag' = FALSE

\* SessionManager::beginSession on file p; None: the user declined.
BeginSession(p) ==
  /\ saveCtx' = IF p # None THEN p ELSE saveCtx
  /\ saveCb' = IF p # None THEN TRUE ELSE saveCb

RunOperation(k, p) ==
  LET o == Len(ops) + 1
      t == IF NewTree(k) THEN o ELSE tree
  IN /\ ops' = Append(ops, k)
     /\ frame' = o
     /\ dlg' = "open"
     /\ tree' = t
     /\ BeginSession(p)
     /\ StartWorker(WorkerOf(k), o, t)
     /\ UNCHANGED <<queue, hooked, file, history>>

\* runScannerOperation, onCarveRequested, onBackupRequested, onRestoreRequested and
\* onRestoreFromBrowser (which needs a tree to restore from).
Begin(k) ==
  /\ frame = None /\ Len(ops) < MaxOps
  /\ k = "restore" => tree # None
  /\ \/ RunOperation(k, None)
     \/ HasSession(k) /\ RunOperation(k, Len(ops) + 1)

\* onContinueSession on a file that holds a finished operation: it only shows the tree.
ShowCompleted(p) ==
  /\ frame = None
  /\ file[p] = "completed"
  /\ tree' = p
  /\ UNCHANGED <<ops, frame, dlg, thread, queue, cancelFlag, hooked, session, history>>

\* Mutant: any session file is started again.
ContinueAnySession(p) ==
  /\ frame = None /\ Len(ops) < MaxOps
  /\ file[p] # "none"
  /\ RunOperation(ops[p], p)

\* onContinueSession on an incomplete file: the operation starts again on that file.
ContinueSession(p) ==
  /\ frame = None /\ Len(ops) < MaxOps
  /\ file[p] = "partial"
  /\ RunOperation(ops[p], p)

-----------------------------------------------------------------------------
(* The user and the dialog. *)

\* Mutants: Cancel that also closes the dialog; Cancel that also ends the session.
CancelCloses ==
  /\ dlg = "open" /\ CanCancel(ops[frame])
  /\ cancelFlag' = TRUE /\ cancelled' = cancelled \cup {frame}
  /\ frame' = None /\ dlg' = "none"
  /\ UNCHANGED <<ops, tree, thread, queue, hooked, session, dismissed, stopped>>

CancelEndsSession ==
  /\ dlg = "open" /\ CanCancel(ops[frame])
  /\ cancelFlag' = TRUE /\ cancelled' = cancelled \cup {frame}
  /\ file' = IF saveCtx # None THEN [file EXCEPT ![saveCtx] = "completed"] ELSE file
  /\ UNCHANGED <<ops, frame, dlg, tree, thread, queue, hooked, saveCtx, saveCb, dismissed, stopped>>

\* The Cancel button: ProgressDialog::cancelled -> ProgressCallback::instance()->cancel().
PressCancel ==
  /\ dlg = "open" /\ CanCancel(ops[frame])
  /\ cancelFlag' = TRUE
  /\ cancelled' = cancelled \cup {frame}
  /\ UNCHANGED <<ops, frame, dlg, tree, thread, queue, hooked, session, dismissed, stopped>>

\* Mutant: a handler that does not uninstall its hooks.
ReturnLeavesHooks ==
  /\ frame' = None /\ dlg' = "none" /\ saveCb' = FALSE /\ saveCtx' = None
  /\ UNCHANGED <<ops, tree, thread, queue, cancelFlag, hooked, file, cancelled, stopped>>

\* The handler after dlg.exec(): uninstallAllCallbacks(), cancelSession(), frame gone.
ReturnFromExec ==
  /\ frame' = None /\ dlg' = "none"
  /\ hooked' = IF Uninstalls(ops[frame]) THEN {} ELSE hooked
  /\ saveCb' = IF Uninstalls(ops[frame]) THEN FALSE ELSE saveCb
  /\ saveCtx' = None
  /\ UNCHANGED <<ops, tree, thread, queue, cancelFlag, file, cancelled, stopped>>

\* Escape or the window's close button: QDialog::reject(), which ProgressDialog inherits.
Dismiss ==
  /\ dlg = "open"
  /\ ReturnFromExec
  /\ dismissed' = dismissed \cup {frame}

\* The accept() that setFinished() posted.
AcceptDialog ==
  /\ dlg = "finished"
  /\ ReturnFromExec
  /\ UNCHANGED dismissed

-----------------------------------------------------------------------------
(* Events delivered by the UI thread's event loop, at idle or inside exec(). *)

\* emitToInstance: the posted lambda emits on the static instance pointer.  With the
\* pointer NULL that is undefined; the build that survives it shows nothing.
DeliverProgress ==
  /\ dlg # "ending"
  /\ queue # <<>> /\ Head(queue).type = "progress"
  /\ queue' = Tail(queue)
  /\ UNCHANGED <<ops, frame, dlg, tree, thread, cancelFlag, hooked, session, history>>

\* Mutants: a slot that closes the dialog under its handler; one that forgets the dialog
\* of an operation without a session.
SlotClosesDialog ==
  /\ file' = IF saveCtx # None THEN [file EXCEPT ![saveCtx] = "completed"] ELSE file
  /\ saveCtx' = None /\ saveCb' = FALSE /\ dlg' = "none"

SlotForgetsDialog ==
  /\ file' = IF saveCtx # None THEN [file EXCEPT ![saveCtx] = "completed"] ELSE file
  /\ saveCtx' = None /\ saveCb' = FALSE
  /\ dlg' = IF saveCtx # None THEN "finished" ELSE dlg

\* endSession() (m_progressCb is never the object that Cancel sets, so the test of
\* isCancelled() before it always lets it run) up to its COMPLETED save, or, without a
\* session, dlg.setFinished().
FinishedSlot ==
  \/ /\ saveCtx # None
     /\ file' = [file EXCEPT ![saveCtx] = "completed"]
     /\ dlg' = "ending"
     /\ UNCHANGED <<saveCtx, saveCb>>
  \/ /\ saveCtx = None
     /\ dlg' = "finished"
     /\ UNCHANGED session

\* The rest of endSession(), which clears the two pointers, and dlg.setFinished().
ClearSession ==
  /\ dlg = "ending"
  /\ saveCtx' = None /\ saveCb' = FALSE
  /\ dlg' = "finished"
  /\ UNCHANGED <<ops, frame, tree, thread, queue, cancelFlag, hooked, file, history>>

\* finished(result): the slots of this worker's earlier operations are still connected
\* and run too, on frames that are gone.  The slot of an operation that is no longer on
\* the stack is undefined: it changes nothing, or what now lies in its frame's place.
DeliverFinished ==
  /\ dlg # "ending"
  /\ queue # <<>> /\ Head(queue).type = "finished"
  /\ queue' = Tail(queue)
  /\ \/ frame # None /\ FinishedSlot
     \/ Head(queue).op # frame /\ UNCHANGED <<dlg, session>>
  /\ UNCHANGED <<ops, frame, tree, thread, cancelFlag, hooked, history>>

-----------------------------------------------------------------------------
(* The worker thread. *)

Goto(w, pc) == thread' = [thread EXCEPT ![w].pc = pc]

\* Mutant: the flag is reset on the worker's thread instead of before it starts.
InstallResets(w) ==
  /\ thread[w].pc = "install"
  /\ Goto(w, "core")
  /\ hooked' = IF w = SimpleWorker THEN hooked ELSE hooked \cup {w}
  /\ cancelFlag' = FALSE
  /\ UNCHANGED <<ops, frame, dlg, tree, queue, session, history>>

\* installScannerCallbacks() and its like: on the worker's thread, not before start().
Install(w) ==
  /\ thread[w].pc = "install"
  /\ Goto(w, "core")
  /\ hooked' = IF w = SimpleWorker THEN hooked ELSE hooked \cup {w}
  /\ UNCHANGED <<ops, frame, dlg, tree, queue, cancelFlag, session, history>>

\* One stretch of work: report progress, then poll, or first save a checkpoint when
\* SESSION_SAVE_INTERVAL has gone by (time is not modelled: it may or may not).
\* session_save_checkpoint() finds the context set here and writes the file later.
Work(w) ==
  /\ thread[w].pc = "core" /\ thread[w].left > 0
  /\ queue' = IF w \in hooked
              THEN Append(queue, Event("progress", w, thread[w].op)) ELSE queue
  /\ \/ Goto(w, "poll")
     \/ /\ saveCb /\ saveCtx # None
        /\ thread' = [thread EXCEPT ![w].pc = "save", ![w].saving = saveCtx]
  /\ UNCHANGED <<ops, frame, dlg, tree, cancelFlag, hooked, session, history>>

\* session_save() of the incomplete session, whatever has become of the context since.
WriteIncomplete(w) ==
  /\ thread[w].pc \in {"save", "lastsave"}
  /\ file' = [file EXCEPT ![thread[w].saving] = "partial"]
  /\ thread' = [thread EXCEPT ![w].pc = IF @ = "save" THEN "poll" ELSE "emit",
                             ![w].saving = None]
  /\ UNCHANGED <<ops, frame, dlg, tree, queue, cancelFlag, hooked, saveCtx, saveCb, history>>

\* The poll that ends a stretch of work.
Poll(w) ==
  LET stop == cancelFlag /\ w \in hooked /\ Polls(w, thread[w].left)
  IN /\ thread[w].pc = "poll"
     /\ thread' = IF stop THEN [thread EXCEPT ![w].pc = "cancelled"]
                          ELSE [thread EXCEPT ![w].pc = "core", ![w].left = @ - 1]
     /\ stopped' = IF stop THEN stopped \cup {thread[w].op} ELSE stopped
     /\ UNCHANGED <<ops, frame, dlg, tree, queue, cancelFlag, hooked, session,
                    dismissed, cancelled>>

WorkDone(w) ==
  /\ thread[w].pc = "core" /\ thread[w].left = 0
  /\ Goto(w, "emit")
  /\ UNCHANGED <<ops, frame, dlg, tree, queue, cancelFlag, hooked, session, history>>

\* The carver saves an incomplete session before it returns, if the context is set when it
\* looks; the scanner only returns.
LeaveCancelled(w) ==
  /\ thread[w].pc = "cancelled"
  /\ IF w = Carver /\ saveCtx # None
     THEN thread' = [thread EXCEPT ![w].pc = "lastsave", ![w].saving = saveCtx]
     ELSE Goto(w, "emit")
  /\ UNCHANGED <<ops, frame, dlg, tree, queue, cancelFlag, hooked, session, history>>

\* Mutant: finished overtakes the progress events.
EmitUrgently(w) ==
  /\ thread[w].pc = "emit"
  /\ queue' = <<Event("finished", w, thread[w].op)>> \o queue
  /\ Goto(w, "clear")
  /\ UNCHANGED <<ops, frame, dlg, tree, cancelFlag, hooked, session, history>>

\* emit finished(result): a queued connection, the receiver lives on the UI thread.
EmitFinished(w) ==
  /\ thread[w].pc = "emit"
  /\ queue' = Append(queue, Event("finished", w, thread[w].op))
  /\ Goto(w, "clear")
  /\ UNCHANGED <<ops, frame, dlg, tree, cancelFlag, hooked, session, history>>

\* m_running.store(false), after the emission.
ClearRunning(w) ==
  /\ thread[w].pc = "clear"
  /\ thread' = [thread EXCEPT ![w] = NoThread]
  /\ UNCHANGED <<ops, frame, dlg, tree, queue, cancelFlag, hooked, session, history>>

-----------------------------------------------------------------------------
WorkerStep(w) == \/ Install(w) \/ Work(w) \/ WriteIncomplete(w) \/ Poll(w) \/ WorkDone(w)
                 \/ LeaveCancelled(w) \/ EmitFinished(w) \/ ClearRunning(w)
Deliver == DeliverProgress \/ DeliverFinished \/ ClearSession

Next == \/ \E k \in Kinds : Begin(k)
        \/ \E p \in Ops : ShowCompleted(p) \/ ContinueSession(p)
        \/ PressCancel
        \/ Dismiss
        \/ AcceptDialog
        \/ Deliver
        \/ \E w \in Workers : WorkerStep(w)

Spec == Init /\ [][Next]_vars

\* The operating system runs every thread; the UI thread's event loop delivers.  The
\* user owes nothing: Begin, PressCancel and Dismiss are never forced.
Fairness == /\ \A w \in Workers : WF_vars(WorkerStep(w))
            /\ WF_vars(Deliver)
            /\ WF_vars(AcceptDialog)

FairSpec == Spec /\ Fairness

-----------------------------------------------------------------------------
(* Properties. *)

TypeOK ==
  /\ ops \in Seq(Kinds) /\ Len(ops) <= MaxOps
  /\ frame \in {None, Len(ops)}
  /\ dlg \in {"none", "open", "ending", "finished"} /\ (dlg = "none" <=> frame = None)
  /\ tree \in 0 .. Len(ops)
  /\ thread \in [Workers -> [pc : ThreadPCs, op : 0 .. MaxOps, left : 0 .. Units,
                             tree : 0 .. MaxOps, saving : 0 .. MaxOps]]
  /\ queue \in Seq([type : {"progress", "finished"}, worker : Workers, op : 0 .. MaxOps])
  /\ cancelFlag \in BOOLEAN
  /\ hooked \subseteq Workers
  /\ saveCtx \in 0 .. Len(ops)
  /\ saveCb \in BOOLEAN
  /\ file \in [Ops -> {"none", "partial", "completed"}]
  /\ dismissed \subseteq 1 .. Len(ops) /\ cancelled \subseteq 1 .. Len(ops)
  /\ stopped \subseteq 0 .. MaxOps

NoDismissal == dismissed = {}

\* As long as no open dialog was closed from outside, a worker inside the C core works
\* for the operation whose handler is on the stack, on the tree MainWindow still holds,
\* with the dialog open: nobody frees or shows the tree or the partition it uses
\* (mainwindow.cpp tree_free, free(wholeDiskPart), showBrowser).
CoreOwnsItsFrame ==
  NoDismissal => \A w \in Workers : InCore(w) =>
    thread[w].op = frame /\ thread[w].tree = tree /\ dlg = "open"

\* A Cancel the user pressed stays visible to the core's polls until it stops: no reset()
\* of the shared flag and no uninstalled hook comes between (workerbase.cpp
\* beginOperation, progresscallback.cpp).
CancelReachesCore ==
  NoDismissal => \A w \in Workers :
    /\ thread[w].pc = "core" /\ w # SimpleWorker => w \in hooked
    /\ InCore(w) /\ thread[w].op \in cancelled => cancelFlag

\* A posted progress lambda finds the instance pointer it emits on: FIFO delivery puts it
\* before the finished event, so before uninstallAllCallbacks() (progresscallback.hpp
\* emitToInstance).
ProgressHasReceiver ==
  NoDismissal => \A i \in DOMAIN queue :
    queue[i].type = "progress" => queue[i].worker \in hooked /\ frame = queue[i].op

\* Between operations nothing of the last one is left for the next: no hook, no save
\* callback, no session context that a later worker would write to.
IdleIsClean ==
  /\ frame = None => saveCtx = None /\ ~saveCb
  /\ frame = None /\ NoDismissal => hooked = {}

\* The final save walks the tree (sessionmanager.cpp endSession) only when no core is
\* adding to it.
FinalSaveIsQuiet ==
  [][NoDismissal /\ (\E p \in Ops : file[p] # "completed" /\ file'[p] = "completed")
       => \A w \in Workers : ~InCore(w)]_vars

\* A session file that says COMPLETED never goes back to incomplete: no checkpoint is still
\* on its way when endSession() writes, and no later operation takes the file again.  It
\* needs the dialogs left open: session.c:46 looks at the context and writes at 58, so a
\* worker whose dialog was dismissed can write over a file that endSession() completed in
\* between (session_save_checkpoint, carver_scan's last save, SessionManager::endSession).
CompletedIsFinal ==
  [][NoDismissal =>
       \A p \in Ops : file[p] = "completed" => file'[p] = "completed"]_vars

\* An operation whose worker did start gives the window back: its handler returns.
OperationReturns ==
  \A o \in Ops : (frame = o /\ \E w \in Workers : thread[w].op = o) ~> (frame # o)

(* What the repository says of the program, and the code does not do. *)

\* mainwindow.cpp:98 "dlg.exec() blocks the UI until finished or cancelled".
ExecBlocksUntilDone ==
  [][frame # None /\ frame' = None => \A w \in Workers : thread[w].op = frame => ~InCore(w)]_vars

\* carver.c:761 "saving incomplete session for resume": a carve stopped by Cancel leaves a
\* file to resume from.
CancelledCarveIsResumable ==
  NoDismissal =>
    \A o \in stopped : ops[o] = "carve" /\ frame # o => file[o] # "completed"
=============================================================================
