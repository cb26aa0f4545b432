--------------------------- MODULE ProcessControl ---------------------------
(***************************************************************************)
(* capture_bounded_process of process_control.py on POSIX: the main thread *)
(* that watches a child, the two threads that drain its pipes, the process *)
(* tree the child may grow, and the teardown that kills the group, joins   *)
(* the readers, closes the pipes and decides the verdict.                  *)
(*                                                                         *)
(* A byte is a unit.  A deadline is a boolean that some step turns true,   *)
(* and a bounded wait may give up at any moment before what it waits for.  *)
(***************************************************************************)
EXTENDS Naturals, Sequences, FiniteSets

CONSTANTS
    Leader,         \* the process Popen starts, leader of its own group
    Descendant,     \* the processes its tree may fork
    MaxStdout,      \* max_stdout_bytes
    MaxStderr,      \* max_stderr_bytes
    MaxCombined,    \* max_combined_output_bytes
    PipeCapacity,   \* what the kernel buffers of one stream
    MaxWritten      \* bound: the bytes the tree writes to one stream

ASSUME ControlAssumption ==
    /\ Leader \notin Descendant
    /\ {MaxStdout, MaxStderr, MaxCombined, MaxWritten} \subseteq Nat
    /\ PipeCapacity \in Nat \ {0}

Stream == {"stdout", "stderr"}
Streams == <<"stdout", "stderr">>
Proc == {Leader} \cup Descendant
Bound == [s \in Stream |-> IF s = "stdout" THEN MaxStdout ELSE MaxStderr]

VARIABLES
    proc,       \* each process: absent, alive, dying (killed), zombie or gone
    group,      \* the members of the group the guard addresses
    holds,      \* the write ends each process has open
    pipe,       \* the bytes in each pipe
    written,    \* the bytes ever written to each stream
    reader,     \* each drain thread: unstarted, read, retain or done
    chunk,      \* what it took from the pipe and has not stored yet
    stored,     \* its storage
    exceeded,   \* the streams that overflowed
    failed,     \* whether the failures list is non-empty
    closed,     \* the pipes the main thread closed
    main,       \* where the main thread is
    todo,       \* the streams its current loop still has to visit
    late,       \* whether the deadline has passed
    contained,  \* whether prepare_process_tree returned a guard
    confirmed,  \* termination_confirmed
    reason,     \* the ProcessErrorReason of the watch loop, or "none"
    verdict     \* how the call ended

tree == <<proc, group, holds, pipe, written>>
threads == <<reader, chunk, stored, exceeded>>
teardown == <<closed, contained, confirmed>>
vars == <<tree, threads, failed, main, todo, late, reason, verdict, teardown>>

ControlInit ==
    /\ proc = [p \in Proc |-> IF p = Leader THEN "alive" ELSE "absent"]
    /\ group = {Leader}
    /\ holds = [p \in Proc |-> IF p = Leader THEN Stream ELSE {}]
    /\ pipe = [s \in Stream |-> 0]
    /\ written = [s \in Stream |-> 0]
    /\ reader = [s \in Stream |-> "unstarted"]
    /\ chunk = [s \in Stream |-> 0]
    /\ stored = [s \in Stream |-> 0]
    /\ exceeded = {}
    /\ failed = FALSE
    /\ closed = {}
    /\ main = "prepare"
    /\ todo = Streams
    /\ late = FALSE
    /\ contained = FALSE
    /\ confirmed = FALSE
    /\ reason = "none"
    /\ verdict = "none"

-----------------------------------------------------------------------------
(***************************************************************************)
(* The process tree: what the command may do while it is alive.            *)
(***************************************************************************)
Fork(p, q) ==
    /\ proc[p] = "alive" /\ proc[q] = "absent"
    /\ proc' = [proc EXCEPT ![q] = "alive"]
    /\ holds' = [holds EXCEPT ![q] = holds[p]]
    /\ group' = IF p \in group THEN group \cup {q} ELSE group
    /\ UNCHANGED <<pipe, written>>

Write(p, s) ==
    /\ proc[p] = "alive" /\ s \in holds[p] /\ s \notin closed
    /\ pipe[s] < PipeCapacity       \* otherwise the writer blocks
    /\ written[s] < MaxWritten
    /\ pipe' = [pipe EXCEPT ![s] = @ + 1]
    /\ written' = [written EXCEPT ![s] = @ + 1]
    /\ UNCHANGED <<proc, group, holds>>

CloseEnd(p, s) ==
    /\ proc[p] = "alive" /\ s \in holds[p]
    /\ holds' = [holds EXCEPT ![p] = @ \ {s}]
    /\ UNCHANGED <<proc, group, pipe, written>>

\* A descendant makes itself the leader of a new session.
Escape(q) ==
    /\ q \in Descendant \cap group /\ proc[q] = "alive"
    /\ group' = group \ {q}
    /\ UNCHANGED <<proc, holds, pipe, written>>

\* A process ends, by itself or because it was killed: its pipes close.
End(p) ==
    /\ proc' = [proc EXCEPT ![p] = "zombie"]
    /\ holds' = [holds EXCEPT ![p] = {}]
    /\ UNCHANGED <<group, pipe, written>>

Exit(p) == proc[p] = "alive" /\ End(p)
Die(p) == proc[p] = "dying" /\ End(p)

\* The parent of a descendant, or init, collects it; the leader is collected
\* by the main thread only.
Reap(p) ==
    /\ proc[p] = "zombie"
    /\ proc' = [proc EXCEPT ![p] = "gone"]
    /\ UNCHANGED <<group, holds, pipe, written>>

Running == {p \in Proc : proc[p] \in {"alive", "dying"}}

\* os.killpg(pgid, 0): zombies still count.
GroupExists == \E p \in group : proc[p] \notin {"absent", "gone"}

\* Mutant: only the leader is killed.
KilledLeader == [proc EXCEPT ![Leader] = IF @ = "alive" THEN "dying" ELSE @]

\* What SIGKILL to the group does.
Killed == [p \in Proc |-> IF p \in group /\ proc[p] = "alive"
                            THEN "dying" ELSE proc[p]]

\* A step of the tree leaves the caller's threads alone.
TreeStep(A) ==
    A /\ UNCHANGED <<threads, teardown, failed, main, todo, late, reason, verdict>>

Tree ==
    \/ \E p \in Proc, q \in Descendant : TreeStep(Fork(p, q))
    \/ \E p \in Proc, s \in Stream : TreeStep(Write(p, s))
    \/ \E p \in Proc, s \in Stream : TreeStep(CloseEnd(p, s))
    \/ \E q \in Descendant : TreeStep(Escape(q))
    \/ \E p \in Proc : TreeStep(Exit(p))
    \/ \E p \in Proc : TreeStep(Die(p))
    \/ \E q \in Descendant : TreeStep(Reap(q))

-----------------------------------------------------------------------------
(***************************************************************************)
(* _drain_pipe: one thread for each stream.                                *)
(***************************************************************************)
Least(S) == CHOOSE n \in S : \A k \in S : n <= k

\* read1 returns what the pipe holds.
ReadChunk(s) ==
    /\ reader[s] = "read" /\ s \notin closed /\ pipe[s] > 0
    /\ chunk' = [chunk EXCEPT ![s] = pipe[s]]
    /\ pipe' = [pipe EXCEPT ![s] = 0]
    /\ reader' = [reader EXCEPT ![s] = "retain"]
    /\ UNCHANGED <<proc, group, holds, written, stored, exceeded, failed>>

\* read1 returns nothing once no process holds the write end.
ReadEnd(s) ==
    /\ reader[s] = "read" /\ s \notin closed /\ pipe[s] = 0
    /\ \A p \in Proc : s \notin holds[p]
    /\ reader' = [reader EXCEPT ![s] = "done"]
    /\ UNCHANGED <<tree, chunk, stored, exceeded, failed>>

\* read1 raises, and the thread records the failure and ends.
ReadRaises(s) ==
    /\ failed' = TRUE
    /\ reader' = [reader EXCEPT ![s] = "done"]
    /\ UNCHANGED <<tree, chunk, stored, exceeded>>

\* The main thread closed the pipe while the thread stored a chunk ...
ReadClosed(s) == reader[s] = "read" /\ s \in closed /\ ReadRaises(s)

\* ... or the system refused the read.
ReadRefused(s) == reader[s] = "read" /\ s \notin closed /\ ReadRaises(s)

\* Mutant: only the budget of the stream counts.
RetainedOfStream(s) == Least({chunk[s], Bound[s] - stored[s]})

\* The bytes of the chunk the two budgets still admit.
Retained(s) ==
    Least({chunk[s], Bound[s] - stored[s],
           MaxCombined - (stored["stdout"] + stored["stderr"])})

\* The critical section under state_lock.
Retain(s) ==
    /\ reader[s] = "retain"
    /\ stored' = [stored EXCEPT ![s] = @ + Retained(s)]
    /\ exceeded' = IF Retained(s) # chunk[s] THEN exceeded \cup {s} ELSE exceeded
    /\ reader' = [reader EXCEPT ![s] =
                    IF Retained(s) # chunk[s] THEN "done" ELSE "read"]
    /\ chunk' = [chunk EXCEPT ![s] = 0]
    /\ UNCHANGED <<tree, failed>>

mainVars == <<teardown, main, todo, late, reason, verdict>>

\* What a drain thread does as soon as it can.
Drain(s) ==
    /\ ReadChunk(s) \/ ReadEnd(s) \/ ReadClosed(s) \/ Retain(s)
    /\ UNCHANGED mainVars

Refuse(s) == ReadRefused(s) /\ UNCHANGED mainVars

-----------------------------------------------------------------------------
(***************************************************************************)
(* The main thread.                                                        *)
(***************************************************************************)
\* The watch loop ends, with a reason or with an exited leader.
Leave(why) ==
    /\ reason' = why
    /\ main' = "kill"

\* prepare_process_tree finds the child in its own group.
Prepare ==
    /\ main = "prepare"
    /\ contained' = TRUE
    /\ main' = "start"
    /\ UNCHANGED <<tree, threads, closed, confirmed, failed, todo, late, reason, verdict>>

\* ... or kills the child it cannot contain and raises.
PrepareFails ==
    /\ main = "prepare"
    /\ proc' = [proc EXCEPT ![Leader] = IF @ = "alive" THEN "dying" ELSE @]
    /\ Leave("CONTAINMENT_FAILED")
    /\ todo' = <<>>
    /\ UNCHANGED <<group, holds, pipe, written, threads, teardown, failed, late, verdict>>

StartReader ==
    /\ main = "start" /\ todo # <<>>
    /\ reader' = [reader EXCEPT ![Head(todo)] = "read"]
    /\ todo' = Tail(todo)
    /\ UNCHANGED <<tree, chunk, stored, exceeded, teardown, failed, main, late, reason,
                   verdict>>

\* A thread that cannot start is recorded as a failed read; only those before
\* it are joined.
StartFails ==
    /\ main = "start" /\ todo # <<>>
    /\ failed' = TRUE
    /\ Leave("PIPE_READ_FAILED")
    /\ todo' = IF todo = Streams THEN <<>> ELSE <<"stdout">>
    /\ UNCHANGED <<tree, threads, teardown, late, verdict>>

Started ==
    /\ main = "start" /\ todo = <<>>
    /\ main' = "watch"
    /\ todo' = Streams
    /\ UNCHANGED <<tree, threads, teardown, failed, late, reason, verdict>>

\* One look at the readers under state_lock.
Watch ==
    /\ main = "watch"
    /\ \/ exceeded # {} /\ Leave("OUTPUT_LIMIT")
       \/ exceeded = {} /\ failed /\ Leave("PIPE_READ_FAILED")
       \/ exceeded = {} /\ ~failed /\ main' = "poll" /\ UNCHANGED reason
    /\ UNCHANGED <<tree, threads, teardown, failed, todo, late, verdict>>

\* process.poll(): an exited leader is collected and ends the loop.
Poll ==
    /\ main = "poll"
    /\ IF proc[Leader] = "zombie"
         THEN /\ proc' = [proc EXCEPT ![Leader] = "gone"]
              /\ Leave("none")
         ELSE main' = "tick" /\ UNCHANGED <<proc, reason>>
    /\ UNCHANGED <<group, holds, pipe, written, threads, teardown, failed, todo, late,
                   verdict>>

\* The memory sample, the deadline, and the wait of at most ten milliseconds.
Tick ==
    /\ main = "tick"
    /\ \/ failed' = TRUE /\ Leave("OBSERVATION_FAILED")
       \/ late /\ Leave("TIMEOUT") /\ UNCHANGED failed
       \/ ~late /\ main' = "watch" /\ UNCHANGED <<failed, reason>>
    /\ UNCHANGED <<tree, threads, teardown, todo, late, verdict>>

DeadlinePasses ==
    /\ ~late
    /\ main \in {"watch", "poll", "tick"}
    /\ late' = TRUE
    /\ UNCHANGED <<tree, threads, teardown, failed, main, todo, reason, verdict>>

\* terminate_process_tree: SIGKILL to the group if it exists, with a guard or,
\* when the child could not be contained, without one.
KillGroup ==
    /\ main = "kill"
    /\ proc' = Killed
    /\ main' = "wait"
    /\ UNCHANGED <<group, holds, pipe, written, threads, teardown, failed, todo, late,
                   reason, verdict>>

\* process.wait collects the leader, or gives up after its five seconds.
WaitLeader ==
    /\ main = "wait"
    /\ \/ /\ proc[Leader] \in {"zombie", "gone"}
          /\ proc' = [proc EXCEPT ![Leader] = "gone"]
          /\ main' = IF contained THEN "confirm" ELSE "join"
          /\ confirmed' = ~contained
       \/ /\ proc[Leader] \notin {"zombie", "gone"}
          /\ main' = "join"
          /\ UNCHANGED <<proc, confirmed>>
    /\ UNCHANGED <<group, holds, pipe, written, threads, closed, contained, failed, todo,
                   late, reason, verdict>>

\* Mutant: the collected leader stands for its group.
ConfirmLeader ==
    /\ main = "confirm"
    /\ confirmed' = TRUE
    /\ main' = "join"
    /\ UNCHANGED <<tree, threads, closed, contained, failed, todo, late, reason, verdict>>

\* The guard polls the group until nothing of it is left or time is up.
Confirm ==
    /\ main = "confirm"
    /\ confirmed' = ~GroupExists
    /\ main' = "join"
    /\ UNCHANGED <<tree, threads, closed, contained, failed, todo, late, reason, verdict>>

\* thread.join(timeout=1), one started thread after the other.
JoinReader ==
    /\ main = "join" /\ todo # <<>>
    /\ todo' = Tail(todo)
    /\ UNCHANGED <<tree, threads, teardown, failed, main, late, reason, verdict>>

\* A started thread that is still alive is a failure.
CheckReaders ==
    /\ main = "join" /\ todo = <<>>
    /\ failed' = (failed \/ \E s \in Stream : reader[s] \in {"read", "retain"})
    /\ main' = "close"
    /\ todo' = Streams
    /\ UNCHANGED <<tree, threads, teardown, late, reason, verdict>>

\* pipe.close() needs the lock a thread inside read1 holds.
ClosePipe ==
    /\ main = "close" /\ todo # <<>>
    /\ reader[Head(todo)] # "read"
    /\ closed' = closed \cup {Head(todo)}
    /\ todo' = Tail(todo)
    /\ UNCHANGED <<tree, threads, contained, confirmed, failed, main, late, reason, verdict>>

\* Mutant: an overflow found after the watch loop is not looked for.
VerdictOfLoop ==
    IF ~contained THEN "CONTAINMENT_FAILED"
    ELSE IF ~confirmed THEN "TERMINATION_FAILED"
    ELSE IF reason # "none" THEN reason
    ELSE IF failed THEN "PIPE_READ_FAILED"
    ELSE "RESULT"

\* The order in which the code looks for what to raise.
Verdict ==
    IF ~contained THEN "CONTAINMENT_FAILED"
    ELSE IF ~confirmed THEN "TERMINATION_FAILED"
    ELSE IF reason # "none" THEN reason
    ELSE IF failed THEN "PIPE_READ_FAILED"
    ELSE IF exceeded # {} THEN "OUTPUT_LIMIT"
    ELSE IF proc[Leader] # "gone" THEN "TERMINATION_FAILED"
    ELSE "RESULT"

Conclude ==
    /\ main = "close" /\ todo = <<>>
    /\ verdict' = Verdict
    /\ main' = "returned"
    /\ UNCHANGED <<tree, threads, teardown, failed, todo, late, reason>>

Main ==
    \/ Prepare \/ PrepareFails \/ StartReader \/ StartFails \/ Started
    \/ Watch \/ Poll \/ Tick
    \/ KillGroup \/ WaitLeader \/ Confirm
    \/ JoinReader \/ CheckReaders \/ ClosePipe \/ Conclude

ControlNext ==
    \/ Tree
    \/ \E s \in Stream : Drain(s) \/ Refuse(s)
    \/ DeadlinePasses
    \/ Main

\* What the system schedules: the threads run, time passes and a killed
\* process dies.  Nothing is assumed of what the command does by itself.
Fairness ==
    /\ WF_vars(Main)
    /\ WF_vars(DeadlinePasses)
    /\ \A s \in Stream : WF_vars(Drain(s))
    /\ \A p \in Proc : WF_vars(TreeStep(Die(p)))

ControlSpec == ControlInit /\ [][ControlNext]_vars /\ Fairness

-----------------------------------------------------------------------------
(***************************************************************************)
(* Properties.                                                             *)
(***************************************************************************)
Reasons ==
    {"OUTPUT_LIMIT", "PIPE_READ_FAILED", "OBSERVATION_FAILED", "TIMEOUT",
     "CONTAINMENT_FAILED"}

\* Every variable keeps its type; what is stored never exceeds the budget of
\* its stream, nor both streams together the combined budget.
ControlTypeOK ==
    /\ proc \in [Proc -> {"absent", "alive", "dying", "zombie", "gone"}]
    /\ group \in SUBSET Proc /\ Leader \in group
    /\ holds \in [Proc -> SUBSET Stream]
    /\ pipe \in [Stream -> 0..PipeCapacity]
    /\ written \in [Stream -> 0..MaxWritten]
    /\ reader \in [Stream -> {"unstarted", "read", "retain", "done"}]
    /\ chunk \in [Stream -> 0..PipeCapacity]
    /\ stored \in [Stream -> Nat] /\ \A s \in Stream : stored[s] <= Bound[s]
    /\ stored["stdout"] + stored["stderr"] <= MaxCombined
    /\ exceeded \subseteq Stream /\ closed \subseteq Stream
    /\ {failed, late, contained, confirmed} \subseteq BOOLEAN
    /\ main \in {"prepare", "start", "watch", "poll", "tick", "kill", "wait",
                 "confirm", "join", "close", "returned"}
    /\ todo \in {<<>>, <<"stdout">>, <<"stderr">>, Streams}
    /\ reason \in Reasons \cup {"none"}
    /\ verdict \in Reasons \cup {"none", "RESULT", "TERMINATION_FAILED"}

\* A result is whole and final: it holds every byte any process of the tree,
\* escaped or not, ever wrote, and no process can write another one.  The
\* leader may exit while descendants still write, bytes may sit in a pipe or
\* in a thread's chunk when the group is killed, and a stream may overflow
\* after the watch loop's last look.
ResultIsWhole ==
    verdict = "RESULT" =>
        /\ stored = written
        /\ \A p \in Proc : holds[p] = {}

\* Every outcome but the two that say so leaves no process of the group, not
\* even a zombie, however the tree forked while it was torn down.
NoSurvivor ==
    verdict \notin {"none", "TERMINATION_FAILED", "CONTAINMENT_FAILED"} =>
        ~GroupExists

\* Once the group was killed, whatever of it still holds a pipe is dying, so
\* that a reader pipe.close() waits for is at most waiting for a process that
\* left the group: nothing a member forked meanwhile was missed.
OnlyEscapedHold ==
    main \in {"wait", "confirm", "join", "close", "returned"} =>
        \A p \in group : holds[p] # {} => proc[p] = "dying"

\* The call returns, whatever the command does and however full its pipes
\* are, unless a descendant outside the group keeps a pipe open for ever.
ReturnsUnlessEscaped ==
    \/ <>(main = "returned")
    \/ <>[](\E p \in Proc \ group : holds[p] # {})

\* "Run one contained process with hard input, output and time bounds."
\* (process_control.py:431)
TimeIsBounded == <>(main = "returned")

=============================================================================
