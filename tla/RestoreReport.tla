---------------------------- MODULE RestoreReport ----------------------------
(***************************************************************************)
(* What the user is told about a restore: restore_files of core/restore.c  *)
(* on the worker thread, the counters of wrappers/restorer.cpp that its    *)
(* per-file events increment on the UI thread, the connections of          *)
(* wrappers/workerbase.cpp that carry those events, and the report that    *)
(* onRestoreFromBrowser of ui/mainwindow.cpp shows.                        *)
(***************************************************************************)
EXTENDS Naturals, Sequences, FiniteSets

CONSTANTS
  MaxOps,    \* bound: restores the user asks for
  MaxFiles   \* bound: marked files in one restore

ASSUME BoundsAssumption == MaxOps \in Nat \ {0} /\ MaxFiles \in Nat \ {0}

Ops == 1 .. MaxOps
None == 0
Outcomes == {"ok", "failed"}

VARIABLES
  begun,     \* restores asked for so far
  frame,     \* the restore whose handler is on the UI stack, None when idle
  dlg,       \* its dialog: "none", "open", "finished"
  thread,    \* the thread that holds m_running: its pc, its restore, its files to go
  exiting,   \* restores whose thread has cleared m_running and not yet ended
  conns,     \* m_connections that count fileRestored, by the restore that made them
  hooked,    \* g_restorer_file is set
  queue,     \* events posted to the UI thread
  counted,   \* m_okCount and m_failCount
  shown,     \* the reports the user saw: the counts in the finished signal
  (* history, read by properties only *)
  actual,    \* files of each restore that were copied, and that failed
  dismissed, \* a dialog was closed while it was open
  overlap    \* a restore began before the thread of an earlier one was done with

vars == <<begun, frame, dlg, thread, exiting, conns, hooked, queue, counted, shown, actual,
          dismissed, overlap>>
history == <<actual, dismissed, overlap>>

Zero == [r \in Outcomes |-> 0]
NoThread == [pc |-> "idle", op |-> None, left |-> 0]

Event(t, o, r, counts) == [type |-> t, op |-> o, outcome |-> r, counts |-> counts]

Init ==
  /\ begun = 0 /\ frame = None /\ dlg = "none"
  /\ thread = NoThread /\ exiting = {} /\ conns = <<>>
  /\ hooked = FALSE /\ queue = <<>> /\ counted = Zero
  /\ shown = {}
  /\ actual = [o \in Ops |-> Zero]
  /\ dismissed = FALSE /\ overlap = FALSE

-----------------------------------------------------------------------------
(* The UI thread. *)

\* Mutant: start() does not reset the counters.
StartKeepsCounts(o, n) ==
  IF thread.pc # "idle" THEN UNCHANGED <<counted, conns, thread>>
  ELSE /\ conns' = Append(conns, o)
       /\ thread' = [pc |-> "start", op |-> o, left |-> n]
       /\ UNCHANGED counted

\* Restorer::start: while m_running is set it returns, and says nothing.
StartRestorer(o, n) ==
  IF thread.pc # "idle" THEN UNCHANGED <<counted, conns, thread>>
  ELSE /\ counted' = Zero
       /\ conns' = Append(conns, o)
       /\ thread' = [pc |-> "start", op |-> o, left |-> n]

\* onRestoreFromBrowser, n marked files.
BeginRestore(n) ==
  /\ frame = None /\ begun < MaxOps
  /\ begun' = begun + 1 /\ frame' = begun + 1 /\ dlg' = "open"
  /\ StartRestorer(begun + 1, n)
  /\ overlap' = (overlap \/ thread.pc # "idle" \/ exiting # {} \/ queue # <<>>)
  /\ UNCHANGED <<exiting, hooked, queue, shown, actual, dismissed>>

\* After exec(): uninstallAllCallbacks().
Return ==
  /\ frame' = None /\ dlg' = "none" /\ hooked' = FALSE
  /\ UNCHANGED <<begun, thread, exiting, conns, queue, counted, shown, actual,
                 overlap>>

AcceptDialog == dlg = "finished" /\ Return /\ UNCHANGED dismissed
Dismiss == dlg = "open" /\ Return /\ dismissed' = TRUE

Take(type) == queue # <<>> /\ Head(queue).type = type /\ queue' = Tail(queue)

\* emitToInstance's lambda: with the instance pointer NULL, undefined; the build that
\* survives it counts nothing.  Every counting connection still alive counts it.
DeliverFile ==
  /\ Take("file")
  /\ counted' = IF hooked THEN [counted EXCEPT ![Head(queue).outcome] = @ + Len(conns)]
                          ELSE counted
  /\ UNCHANGED <<begun, frame, dlg, thread, exiting, conns, hooked, shown, history>>

\* The finished slot of the restore on the stack: setFinished with the counts.  The slot
\* of one that is not is undefined; here it does nothing.
DeliverFinished ==
  /\ Take("finished")
  /\ IF Head(queue).op = frame
     THEN dlg' = "finished" /\ shown' = shown \cup {[op |-> frame, counts |-> Head(queue).counts]}
     ELSE UNCHANGED <<dlg, shown>>
  /\ UNCHANGED <<begun, frame, thread, exiting, conns, hooked, counted, history>>

\* Mutant: the connections of a restore outlive its thread.
ThreadEndKeepsConnections ==
  /\ Take("threadEnd")
  /\ UNCHANGED <<begun, frame, dlg, thread, exiting, conns, hooked, counted, shown, history>>

\* QThread::finished of any thread: disconnectAllConnections().
DeliverThreadEnd ==
  /\ Take("threadEnd")
  /\ conns' = <<>>
  /\ UNCHANGED <<begun, frame, dlg, thread, exiting, hooked, counted, shown, history>>

-----------------------------------------------------------------------------
(* The worker thread. *)

InstallCallbacks ==
  /\ thread.pc = "start"
  /\ thread' = [thread EXCEPT !.pc = "core"]
  /\ hooked' = TRUE
  /\ UNCHANGED <<begun, frame, dlg, exiting, conns, queue, counted, shown, history>>

\* Mutant: one file more than were marked.
RestoreFilePastEnd(r) ==
  /\ thread.pc = "core"
  /\ thread' = [thread EXCEPT !.left = @ - 1]
  /\ actual' = [actual EXCEPT ![thread.op][r] = @ + 1]
  /\ queue' = IF hooked THEN Append(queue, Event("file", thread.op, r, Zero)) ELSE queue
  /\ UNCHANGED <<begun, frame, dlg, exiting, conns, hooked, counted, shown, dismissed,
                 overlap>>

\* restore_node_recursive, one marked file.
RestoreFile(r) ==
  /\ thread.pc = "core" /\ thread.left > 0
  /\ thread' = [thread EXCEPT !.left = @ - 1]
  /\ actual' = [actual EXCEPT ![thread.op][r] = @ + 1]
  /\ queue' = IF hooked THEN Append(queue, Event("file", thread.op, r, Zero)) ELSE queue
  /\ UNCHANGED <<begun, frame, dlg, exiting, conns, hooked, counted, shown, dismissed,
                 overlap>>

\* emit finished(m_okCount.load(), m_failCount.load()): the counts as they are now.
\* After init_fs_for_restore failed it is emitted just the same: FileSystemRefused.
EmitFinished ==
  /\ thread.pc = "core" /\ thread.left = 0
  /\ queue' = Append(queue, Event("finished", thread.op, "ok", counted))
  /\ thread' = [thread EXCEPT !.pc = "clear"]
  /\ UNCHANGED <<begun, frame, dlg, exiting, conns, hooked, counted, shown, history>>

\* Mutant: the thread ends without its finished signal.
RefusedUnreported ==
  /\ thread.pc = "core" /\ thread.left > 0 /\ actual[thread.op] = Zero
  /\ thread' = [thread EXCEPT !.pc = "clear"]
  /\ UNCHANGED <<begun, frame, dlg, exiting, conns, hooked, queue, counted, shown, actual,
                 dismissed, overlap>>

\* restore_files returned -1 before its first file; nobody listens to errorOccurred.
FileSystemRefused ==
  /\ thread.pc = "core" /\ thread.left > 0 /\ actual[thread.op] = Zero
  /\ thread' = [thread EXCEPT !.left = 0]
  /\ UNCHANGED <<begun, frame, dlg, exiting, conns, hooked, queue, counted, shown, actual,
                 dismissed, overlap>>

ClearRunning ==
  /\ thread.pc = "clear"
  /\ exiting' = exiting \cup {thread.op}
  /\ thread' = NoThread
  /\ UNCHANGED <<begun, frame, dlg, conns, hooked, queue, counted, shown, history>>

EndThread(o) ==
  /\ o \in exiting
  /\ exiting' = exiting \ {o}
  /\ queue' = Append(queue, Event("threadEnd", o, "ok", Zero))
  /\ UNCHANGED <<begun, frame, dlg, thread, conns, hooked, counted, shown, history>>

WorkerStep == \/ InstallCallbacks \/ \E r \in Outcomes : RestoreFile(r)
              \/ FileSystemRefused \/ EmitFinished \/ ClearRunning
              \/ \E o \in Ops : EndThread(o)
Deliver == DeliverFile \/ DeliverFinished \/ DeliverThreadEnd

Next == \/ \E n \in 1 .. MaxFiles : BeginRestore(n)
        \/ AcceptDialog \/ Dismiss \/ Deliver \/ WorkerStep

Spec == Init /\ [][Next]_vars

\* The operating system runs the threads, the event loop delivers what was posted.
FairSpec == Spec /\ WF_vars(WorkerStep) /\ WF_vars(Deliver) /\ WF_vars(AcceptDialog)

-----------------------------------------------------------------------------
(* Properties. *)

TypeOK ==
  /\ begun \in 0 .. MaxOps /\ frame \in {None, begun}
  /\ dlg \in {"none", "open", "finished"} /\ (dlg = "none" <=> frame = None)
  /\ thread.pc \in {"idle", "start", "core", "clear"} /\ thread.op \in 0 .. begun
  /\ thread.left \in 0 .. MaxFiles
  /\ exiting \subseteq Ops /\ conns \in Seq(Ops)
  /\ \A i \in DOMAIN queue : queue[i].type \in {"file", "finished", "threadEnd"}
  /\ counted \in [Outcomes -> Nat] /\ actual \in [Ops -> [Outcomes -> 0 .. MaxFiles]]
  /\ \A s \in shown : s.op \in 1 .. begun /\ s.counts \in [Outcomes -> Nat]
  /\ {hooked, dismissed, overlap} \subseteq BOOLEAN

Posted(o, r) ==
  Cardinality({i \in DOMAIN queue : /\ queue[i].type = "file" /\ queue[i].op = o
                                    /\ queue[i].outcome = r})

\* Every file restored is counted once or still on its way to be counted: none twice, none
\* lost, as long as restores follow each other with nothing left of the one before
\* (restorer.cpp start() and its connection, workerbase.cpp disconnectAllConnections()).
EveryFileCountedOnce ==
  ~dismissed /\ ~overlap /\ thread.op # None =>
    \A r \in Outcomes : counted[r] + Posted(thread.op, r) = actual[thread.op][r]

\* A report names no copies and no failures unless its own restore had some, whatever is
\* left of earlier threads: no late event and no old counter gets into it.
NothingInvented ==
  ~dismissed => \A s \in shown, r \in Outcomes : s.counts[r] > 0 => actual[s.op][r] > 0

\* A restore that started is reported to the user, unless its dialog was closed.
EveryRestoreReported ==
  \A o \in Ops : thread.op = o ~> (dismissed \/ \E s \in shown : s.op = o)
=============================================================================
