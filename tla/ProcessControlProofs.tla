------------------------- MODULE ProcessControlProofs -------------------------
(***************************************************************************)
(* Proofs about ProcessControl, for every process tree, budget and pipe:   *)
(* the types and budgets, that every outcome but the two that say so       *)
(* leaves no process of the group, and that a result is whole.             *)
(***************************************************************************)
EXTENDS ProcessControl, TLAPS

\* The steps of the next-state relation that are not of the tree.
Step == (\E s \in Stream : Drain(s) \/ Refuse(s)) \/ DeadlinePasses \/ Main

\* Least of two or three naturals.
LEMMA LeastOfThree ==
  ASSUME NEW a \in Nat, NEW b \in Nat, NEW c \in Nat
  PROVE  /\ Least({a, b, c}) \in {a, b, c}
         /\ Least({a, b, c}) <= a /\ Least({a, b, c}) <= b /\ Least({a, b, c}) <= c
<1>1. \E n \in {a, b, c} : \A k \in {a, b, c} : n <= k
  OBVIOUS
<1>2. \A k \in {a, b, c} : Least({a, b, c}) \in {a, b, c} /\ Least({a, b, c}) <= k
  BY <1>1 DEF Least
<1> QED
  BY <1>2

\* What Retain stores fits the chunk and both budgets.
LEMMA RetainedFits ==
  ASSUME ControlTypeOK, NEW s \in Stream
  PROVE  /\ Retained(s) \in 0..chunk[s] /\ Retained(s) \in Nat
         /\ Bound["stdout"] \in Nat /\ Bound["stderr"] \in Nat
         /\ Retained(s) <= Bound[s] - stored[s]
         /\ Retained(s) <= MaxCombined - (stored["stdout"] + stored["stderr"])
<1>1. /\ chunk[s] \in Nat /\ stored["stdout"] \in Nat /\ stored["stderr"] \in Nat
      /\ stored[s] \in Nat /\ stored[s] <= Bound[s] /\ Bound[s] \in Nat
      /\ MaxCombined \in Nat
      /\ stored["stdout"] + stored["stderr"] <= MaxCombined
  BY ControlAssumption DEF ControlTypeOK, Stream, Bound
<1>2. /\ Bound[s] - stored[s] \in Nat
      /\ MaxCombined - (stored["stdout"] + stored["stderr"]) \in Nat
  BY <1>1
<1>3. Bound["stdout"] \in Nat /\ Bound["stderr"] \in Nat
  BY ControlAssumption DEF Bound, Stream
<1>4. /\ Retained(s) \in {chunk[s], Bound[s] - stored[s],
                          MaxCombined - (stored["stdout"] + stored["stderr"])}
      /\ Retained(s) <= chunk[s] /\ Retained(s) <= Bound[s] - stored[s]
      /\ Retained(s) <= MaxCombined - (stored["stdout"] + stored["stderr"])
  BY <1>1, <1>2, LeastOfThree DEF Retained
<1>5. Retained(s) \in Nat /\ Retained(s) \in 0..chunk[s]
  BY <1>1, <1>2, <1>4
<1> QED
  BY <1>3, <1>4, <1>5

\* The budgets hold after a chunk is stored.
LEMMA StoredFits ==
  ASSUME ControlTypeOK, NEW s \in Stream,
         stored' = [stored EXCEPT ![s] = @ + Retained(s)]
  PROVE  /\ stored' \in [Stream -> Nat] /\ \A k \in Stream : stored'[k] <= Bound[k]
         /\ stored'["stdout"] + stored'["stderr"] <= MaxCombined
<1> DEFINE n == Retained(s)
           out == stored["stdout"]
           err == stored["stderr"]
<1>1. /\ stored \in [Stream -> Nat] /\ \A k \in Stream : stored[k] <= Bound[k]
      /\ MaxCombined \in Nat
  BY ControlAssumption DEF ControlTypeOK
<1>2. /\ n \in Nat /\ n <= Bound[s] - stored[s] /\ n <= MaxCombined - (out + err)
      /\ Bound["stdout"] \in Nat /\ Bound["stderr"] \in Nat
  BY RetainedFits
<1>3. stored' = [stored EXCEPT ![s] = @ + n]
  OBVIOUS
<1> HIDE DEF n
<1>4. Stream = {"stdout", "stderr"}
  BY DEF Stream
<1>5. stored[s] \in Nat /\ Bound[s] \in Nat /\ out \in Nat /\ err \in Nat
  BY <1>1, <1>2, <1>4
<1>6. \A k \in Stream : stored'[k] = IF k = s THEN stored[s] + n ELSE stored[k]
  BY <1>1, <1>3
<1>7. stored' \in [Stream -> Nat]
  BY <1>1, <1>2, <1>3, <1>5
<1>8. stored[s] + n <= Bound[s]
  BY <1>2, <1>5
<1>9. \A k \in Stream : stored'[k] <= Bound[k]
  BY <1>1, <1>6, <1>8
<1>10. stored'["stdout"] + stored'["stderr"] = out + err + n
  <2>1. CASE s = "stdout"
    <3>1. stored'["stdout"] = out + n /\ stored'["stderr"] = err
      BY <1>4, <1>6, <2>1
    <3> HIDE DEF out, err
    <3> QED
      BY <1>2, <1>5, <3>1
  <2>2. CASE s = "stderr"
    <3>1. stored'["stdout"] = out /\ stored'["stderr"] = err + n
      BY <1>4, <1>6, <2>2
    <3> HIDE DEF out, err
    <3> QED
      BY <1>2, <1>5, <3>1
  <2> QED
    BY <1>4, <2>1, <2>2
<1>11. out + err + n <= MaxCombined
  <2> HIDE DEF out, err
  <2> QED
    BY <1>1, <1>2, <1>5
<1> HIDE DEF out, err
<1> QED
  BY <1>7, <1>9, <1>10, <1>11

\* How a loop visits the streams.
LEMMA Visits ==
  /\ Head(Streams) = "stdout" /\ Tail(Streams) = <<"stderr">>
  /\ Head(<<"stdout">>) = "stdout" /\ Tail(<<"stdout">>) = <<>>
  /\ Head(<<"stderr">>) = "stderr" /\ Tail(<<"stderr">>) = <<>>
<1>1. Head(Streams) = "stdout"
  BY DEF Streams
<1>2. Tail(Streams) = <<"stderr">>
  BY DEF Streams
<1>3. Head(<<"stdout">>) = "stdout" /\ Head(<<"stderr">>) = "stderr"
  OBVIOUS
<1>4. Tail(<<"stdout">>) = <<>>
  OBVIOUS
<1>5. Tail(<<"stderr">>) = <<>>
  OBVIOUS
<1> QED
  BY <1>1, <1>2, <1>3, <1>4, <1>5

-----------------------------------------------------------------------------
(* The types.                                                              *)

\* The types hold at the start ...
LEMMA TypeInit == ControlInit => ControlTypeOK
<1> SUFFICES ASSUME ControlInit PROVE ControlTypeOK
  OBVIOUS
<1>1. MaxStdout \in Nat /\ MaxStderr \in Nat /\ MaxCombined \in Nat
      /\ MaxWritten \in Nat /\ PipeCapacity \in Nat
  BY ControlAssumption
<1>2. /\ proc \in [Proc -> {"absent", "alive", "dying", "zombie", "gone"}]
      /\ group \in SUBSET Proc /\ Leader \in group
      /\ holds \in [Proc -> SUBSET Stream]
  BY DEF ControlInit, Proc
<1>3. /\ pipe \in [Stream -> 0..PipeCapacity] /\ chunk \in [Stream -> 0..PipeCapacity]
      /\ written \in [Stream -> 0..MaxWritten]
      /\ stored \in [Stream -> Nat]
      /\ reader \in [Stream -> {"unstarted", "read", "retain", "done"}]
  BY <1>1 DEF ControlInit
<1>4. \A s \in Stream : stored[s] <= Bound[s]
  BY <1>1 DEF ControlInit, Stream, Bound
<1>5. stored["stdout"] + stored["stderr"] <= MaxCombined
  BY <1>1 DEF ControlInit, Stream
<1> QED
  BY <1>2, <1>3, <1>4, <1>5 DEF ControlInit, ControlTypeOK

\* ... every step of the process tree keeps them ...
LEMMA TypeTree == ControlTypeOK /\ Tree => ControlTypeOK'
<1> SUFFICES ASSUME ControlTypeOK, Tree PROVE ControlTypeOK'
  OBVIOUS
<1>0. Leader \in Proc /\ Descendant \subseteq Proc /\ Leader \notin Descendant
  BY ControlAssumption DEF Proc
<1>1. /\ UNCHANGED <<threads, teardown, failed, main, todo, late, reason, verdict>>
      /\ proc' \in [Proc -> {"absent", "alive", "dying", "zombie", "gone"}]
      /\ group' \in SUBSET Proc /\ Leader \in group'
      /\ holds' \in [Proc -> SUBSET Stream]
      /\ pipe' \in [Stream -> 0..PipeCapacity]
      /\ written' \in [Stream -> 0..MaxWritten]
  <2>0. /\ proc \in [Proc -> {"absent", "alive", "dying", "zombie", "gone"}]
        /\ group \in SUBSET Proc /\ Leader \in group
        /\ holds \in [Proc -> SUBSET Stream]
        /\ pipe \in [Stream -> 0..PipeCapacity]
        /\ written \in [Stream -> 0..MaxWritten]
        /\ PipeCapacity \in Nat /\ MaxWritten \in Nat
    BY ControlAssumption DEF ControlTypeOK
  <2> USE <1>0, <2>0 DEF TreeStep
  <2>1. CASE \E p \in Proc, q \in Descendant : TreeStep(Fork(p, q))
    BY <2>1 DEF Fork
  <2>2. CASE \E p \in Proc, s \in Stream : TreeStep(Write(p, s))
    <3>1. PICK p \in Proc, s \in Stream : TreeStep(Write(p, s))
      BY <2>2
    <3>2. /\ pipe[s] \in 0..PipeCapacity /\ pipe[s] < PipeCapacity
          /\ written[s] \in 0..MaxWritten /\ written[s] < MaxWritten
          /\ pipe' = [pipe EXCEPT ![s] = @ + 1]
          /\ written' = [written EXCEPT ![s] = @ + 1]
          /\ UNCHANGED <<proc, group, holds>>
      BY <3>1 DEF Write
    <3>3. pipe[s] + 1 \in 0..PipeCapacity /\ written[s] + 1 \in 0..MaxWritten
      BY <3>2
    <3>4. /\ pipe' \in [Stream -> 0..PipeCapacity]
          /\ written' \in [Stream -> 0..MaxWritten]
      BY <3>2, <3>3
    <3> QED
      BY <3>1, <3>2, <3>4
  <2>3. CASE \E p \in Proc, s \in Stream : TreeStep(CloseEnd(p, s))
    BY <2>3 DEF CloseEnd
  <2>4. CASE \E q \in Descendant : TreeStep(Escape(q))
    BY <2>4 DEF Escape
  <2>5. CASE \E p \in Proc : TreeStep(Exit(p)) \/ TreeStep(Die(p))
    BY <2>5 DEF Exit, Die, End
  <2>6. CASE \E q \in Descendant : TreeStep(Reap(q))
    BY <2>6 DEF Reap
  <2> QED
    BY <2>1, <2>2, <2>3, <2>4, <2>5, <2>6 DEF Tree
<1> QED
  BY <1>1 DEF ControlTypeOK, threads, teardown

\* ... a stored chunk does ...
LEMMA TypeRetain ==
  ASSUME ControlTypeOK, NEW s \in Stream, Retain(s), UNCHANGED mainVars
  PROVE  ControlTypeOK'
<1>1. /\ stored' = [stored EXCEPT ![s] = @ + Retained(s)]
      /\ reader' = [reader EXCEPT ![s] =
                      IF Retained(s) # chunk[s] THEN "done" ELSE "read"]
      /\ chunk' = [chunk EXCEPT ![s] = 0]
      /\ exceeded' = IF Retained(s) # chunk[s] THEN exceeded \cup {s} ELSE exceeded
      /\ UNCHANGED <<proc, group, holds, pipe, written, failed>>
      /\ UNCHANGED <<closed, contained, confirmed, main, todo, late, reason, verdict>>
  BY DEF Retain, tree, mainVars, teardown
<1>2. /\ stored' \in [Stream -> Nat] /\ \A k \in Stream : stored'[k] <= Bound[k]
      /\ stored'["stdout"] + stored'["stderr"] <= MaxCombined
  BY <1>1, StoredFits
<1>3. /\ reader' \in [Stream -> {"unstarted", "read", "retain", "done"}]
      /\ exceeded' \subseteq Stream
  BY <1>1 DEF ControlTypeOK
<1>4. chunk' \in [Stream -> 0..PipeCapacity]
  <2>1. chunk \in [Stream -> 0..PipeCapacity] /\ 0 \in 0..PipeCapacity
    BY ControlAssumption DEF ControlTypeOK
  <2> QED
    BY <1>1, <2>1
<1> QED
  BY <1>1, <1>2, <1>3, <1>4 DEF ControlTypeOK

\* ... and so does every step of the threads.
LEMMA TypeStep == ControlTypeOK /\ Step => ControlTypeOK'
<1> SUFFICES ASSUME ControlTypeOK, Step PROVE ControlTypeOK'
  OBVIOUS
<1> USE ControlAssumption
    DEF ControlTypeOK, tree, threads, teardown, mainVars, Leave, Stream, Reasons
<1>1. ASSUME NEW s \in Stream, Drain(s) PROVE ControlTypeOK'
  <2>1. CASE ReadChunk(s)
    BY <1>1, <2>1 DEF Drain, ReadChunk
  <2>2. CASE ReadEnd(s)
    BY <1>1, <2>2 DEF Drain, ReadEnd
  <2>3. CASE ReadClosed(s)
    BY <1>1, <2>3 DEF Drain, ReadClosed, ReadRaises
  <2>4. CASE Retain(s)
    BY <1>1, <2>4, TypeRetain DEF Drain
  <2> QED
    BY <1>1, <2>1, <2>2, <2>3, <2>4 DEF Drain
<1>2. ASSUME NEW s \in Stream, Refuse(s) PROVE ControlTypeOK'
  BY <1>2 DEF Refuse, ReadRefused, ReadRaises
<1>3. CASE DeadlinePasses
  BY <1>3 DEF DeadlinePasses
<1>4. CASE Prepare
  BY <1>4 DEF Prepare
<1>5. CASE PrepareFails
  BY <1>5 DEF PrepareFails, Proc
<1>6. CASE StartReader
  <2>1. todo \in {<<"stdout">>, <<"stderr">>, Streams}
    BY <1>6 DEF StartReader
  <2>2. Head(todo) \in Stream /\ Tail(todo) \in {<<>>, <<"stderr">>}
    BY <2>1, Visits
  <2> QED
    BY <1>6, <2>2 DEF StartReader
<1>7. CASE StartFails
  BY <1>7 DEF StartFails
<1>8. CASE Started
  BY <1>8 DEF Started
<1>9. CASE Watch
  BY <1>9 DEF Watch
<1>10. CASE Poll
  BY <1>10 DEF Poll, Proc
<1>11. CASE Tick
  BY <1>11 DEF Tick
<1>12. CASE KillGroup
  BY <1>12 DEF KillGroup, Killed
<1>13. CASE WaitLeader
  BY <1>13 DEF WaitLeader, Proc
<1>14. CASE Confirm
  BY <1>14 DEF Confirm, GroupExists
<1>15. CASE JoinReader
  <2>1. todo \in {<<"stdout">>, <<"stderr">>, Streams}
    BY <1>15 DEF JoinReader
  <2>2. Tail(todo) \in {<<>>, <<"stderr">>}
    BY <2>1, Visits
  <2> QED
    BY <1>15, <2>2 DEF JoinReader
<1>16. CASE CheckReaders
  BY <1>16 DEF CheckReaders
<1>17. CASE ClosePipe
  <2>1. todo \in {<<"stdout">>, <<"stderr">>, Streams}
    BY <1>17 DEF ClosePipe
  <2>2. Head(todo) \in Stream /\ Tail(todo) \in {<<>>, <<"stderr">>}
    BY <2>1, Visits
  <2> QED
    BY <1>17, <2>2 DEF ClosePipe
<1>18. CASE Conclude
  BY <1>18 DEF Conclude, Verdict
<1> QED
  BY <1>1, <1>2, <1>3, <1>4, <1>5, <1>6, <1>7, <1>8, <1>9, <1>10, <1>11, <1>12,
     <1>13, <1>14, <1>15, <1>16, <1>17, <1>18 DEF Step, Main

\* Budgets hold and every variable keeps its type, whatever the tree does.
THEOREM ControlTypeCorrect == ControlSpec => []ControlTypeOK
<1>1. ControlTypeOK /\ [ControlNext]_vars => ControlTypeOK'
  <2> SUFFICES ASSUME ControlTypeOK, [ControlNext]_vars PROVE ControlTypeOK'
    OBVIOUS
  <2>1. CASE UNCHANGED vars
    BY <2>1 DEF vars, tree, threads, teardown, ControlTypeOK
  <2>2. CASE ControlNext
    BY <2>2, TypeTree, TypeStep DEF ControlNext, Step
  <2> QED
    BY <2>1, <2>2
<1> QED
  BY <1>1, TypeInit, PTL DEF ControlSpec

-----------------------------------------------------------------------------
(* The group.                                                              *)

\* Only processes that were forked are in the group; once the group was seen
\* empty it stays empty; an outcome that does not say otherwise saw it empty.
GroupForked == \A p \in group : proc[p] # "absent"
ConfirmedIsGone ==
  /\ main = "prepare" => ~ contained /\ ~ confirmed
  /\ contained /\ confirmed => ~ GroupExists
VerdictConfirmed ==
  /\ verdict # "none" => main = "returned"
  /\ verdict \notin {"none", "TERMINATION_FAILED", "CONTAINMENT_FAILED"} =>
       contained /\ confirmed
Torn == GroupForked /\ ConfirmedIsGone /\ VerdictConfirmed

\* The tree keeps it ...
LEMMA TornTree == ControlTypeOK /\ Torn /\ Tree => Torn'
<1> SUFFICES ASSUME ControlTypeOK, Torn, Tree PROVE Torn'
  OBVIOUS
<1>0. UNCHANGED <<contained, confirmed, main, verdict>>
  BY DEF Tree, TreeStep, teardown
<1>1. GroupForked' /\ (~ GroupExists => ~ GroupExists')
  <2> USE DEF ControlTypeOK, Torn, GroupForked, GroupExists, TreeStep
  <2>1. CASE \E p \in Proc, q \in Descendant : TreeStep(Fork(p, q))
    BY <2>1 DEF Fork, Proc
  <2>2. CASE \E p \in Proc, s \in Stream : TreeStep(Write(p, s)) \/ TreeStep(CloseEnd(p, s))
    BY <2>2 DEF Write, CloseEnd
  <2>3. CASE \E q \in Descendant : TreeStep(Escape(q))
    BY <2>3 DEF Escape
  <2>4. CASE \E p \in Proc : TreeStep(Exit(p)) \/ TreeStep(Die(p))
    BY <2>4 DEF Exit, Die, End
  <2>5. CASE \E q \in Descendant : TreeStep(Reap(q))
    BY <2>5 DEF Reap
  <2> QED
    BY <2>1, <2>2, <2>3, <2>4, <2>5 DEF Tree
<1> QED
  BY <1>0, <1>1 DEF Torn, ConfirmedIsGone, VerdictConfirmed

\* ... and so does the teardown.
LEMMA TornStep == ControlTypeOK /\ Torn /\ Step => Torn'
<1> SUFFICES ASSUME ControlTypeOK, Torn, Step PROVE Torn'
  OBVIOUS
<1> USE DEF Torn, GroupForked, ConfirmedIsGone, VerdictConfirmed, GroupExists,
            tree, threads, teardown, mainVars, Leave
<1>0. proc \in [Proc -> {"absent", "alive", "dying", "zombie", "gone"}]
      /\ group \subseteq Proc /\ Leader \in group
  BY DEF ControlTypeOK
<1>1. ASSUME NEW s \in Stream, Drain(s) PROVE Torn'
  BY <1>1 DEF Drain, ReadChunk, ReadEnd, ReadClosed, ReadRaises, Retain
<1>2. ASSUME NEW s \in Stream, Refuse(s) PROVE Torn'
  BY <1>2 DEF Refuse, ReadRefused, ReadRaises
<1>3. CASE DeadlinePasses
  BY <1>3 DEF DeadlinePasses
<1>4. CASE Prepare
  BY <1>4 DEF Prepare
<1>5. CASE PrepareFails
  BY <1>0, <1>5 DEF PrepareFails
<1>6. CASE StartReader \/ StartFails \/ Started
  BY <1>6 DEF StartReader, StartFails, Started
<1>7. CASE Watch
  BY <1>7 DEF Watch
<1>8. CASE Poll
  BY <1>0, <1>8 DEF Poll
<1>9. CASE Tick
  BY <1>9 DEF Tick
<1>10. CASE KillGroup
  BY <1>0, <1>10 DEF KillGroup, Killed
<1>11. CASE WaitLeader
  <2>1. main = "wait" /\ UNCHANGED <<group, contained, verdict>>
    BY <1>11 DEF WaitLeader
  <2>2. main' \in {"confirm", "join"} /\ verdict = "none"
    BY <2>1, <1>11 DEF WaitLeader
  <2>3. \A p \in Proc : proc'[p] = proc[p] \/ proc'[p] = "gone"
    BY <1>0, <1>11 DEF WaitLeader
  <2>4. contained /\ confirmed' => confirmed
    BY <1>11 DEF WaitLeader
  <2> QED
    BY <1>0, <2>1, <2>2, <2>3, <2>4
<1>12. CASE Confirm
  BY <1>12 DEF Confirm
<1>13. CASE JoinReader \/ CheckReaders \/ ClosePipe
  BY <1>13 DEF JoinReader, CheckReaders, ClosePipe
<1>14. CASE Conclude
  BY <1>14 DEF Conclude, Verdict
<1> QED
  BY <1>1, <1>2, <1>3, <1>4, <1>5, <1>6, <1>7, <1>8, <1>9, <1>10, <1>11, <1>12,
     <1>13, <1>14 DEF Step, Main

\* Every step keeps what the teardown knows of the group.
LEMMA TornInvariant == ControlSpec => []Torn
<1>1. ControlInit => Torn
  BY ControlAssumption
  DEF ControlInit, Proc, Torn, GroupForked, ConfirmedIsGone, VerdictConfirmed
<1>2. ControlTypeOK /\ Torn /\ [ControlNext]_vars => Torn'
  <2> SUFFICES ASSUME ControlTypeOK, Torn, [ControlNext]_vars PROVE Torn'
    OBVIOUS
  <2>1. CASE UNCHANGED vars
    BY <2>1 DEF vars, tree, threads, teardown, Torn, GroupForked, ConfirmedIsGone,
                VerdictConfirmed, GroupExists
  <2>2. CASE ControlNext
    BY <2>2, TornTree, TornStep DEF ControlNext, Step
  <2> QED
    BY <2>1, <2>2
<1> QED
  BY <1>1, <1>2, ControlTypeCorrect, PTL DEF ControlSpec

\* Whatever the tree forks while it is torn down, an outcome other than the
\* two that say so leaves no process of the group.
THEOREM NothingSurvives == ControlSpec => []NoSurvivor
<1>1. Torn => NoSurvivor
  BY DEF Torn, ConfirmedIsGone, VerdictConfirmed, NoSurvivor
<1> QED
  BY <1>1, TornInvariant, PTL

-----------------------------------------------------------------------------
(* The bytes.                                                              *)

\* Every byte written to a stream that did not overflow is in the pipe, in
\* the thread's hands or stored; a thread that ended without a failure or an
\* overflow left an empty pipe that nobody can write.
Accounted ==
  \A s \in Stream :
    /\ reader[s] # "retain" => chunk[s] = 0
    /\ s \notin exceeded => written[s] = pipe[s] + chunk[s] + stored[s]
    /\ reader[s] = "done" /\ ~ failed /\ s \notin exceeded =>
         pipe[s] = 0 /\ \A p \in Proc : s \notin holds[p]

\* Without a failure both threads were started, and both ended by the time
\* the pipes are closed.
ReadersStarted ==
  /\ main = "prepare" => ~ contained /\ todo = Streams
  /\ main \in {"prepare", "start"} =>
       \/ todo = Streams /\ \A s \in Stream : reader[s] = "unstarted"
       \/ todo = <<"stderr">> /\ reader["stdout"] # "unstarted"
                              /\ reader["stderr"] = "unstarted"
       \/ todo = <<>> /\ \A s \in Stream : reader[s] # "unstarted"
  /\ contained /\ ~ failed /\ main \notin {"prepare", "start"} =>
       \A s \in Stream : reader[s] # "unstarted"
ReadersEnded ==
  main \in {"close", "returned"} /\ ~ failed =>
    \A s \in Stream : reader[s] \notin {"read", "retain"}

\* A result is the verdict on threads that neither failed nor overflowed.
ResultMeans ==
  /\ verdict # "none" => main = "returned"
  /\ verdict = "RESULT" => contained /\ ~ failed /\ exceeded = {}

Whole == Accounted /\ ReadersStarted /\ ReadersEnded /\ ResultMeans

\* The tree keeps it: an end nobody holds stays unheld ...
LEMMA WholeTree == ControlTypeOK /\ Whole /\ Tree => Whole'
<1> SUFFICES ASSUME ControlTypeOK, Whole, Tree PROVE Whole'
  OBVIOUS
<1>0. UNCHANGED <<reader, chunk, stored, exceeded, contained, failed, main, todo, verdict>>
  BY DEF Tree, TreeStep, threads, teardown
<1>1. \A s \in Stream :
        /\ written'[s] - pipe'[s] = written[s] - pipe[s]
        /\ written'[s] \in Nat /\ pipe'[s] \in Nat
        /\ (\A p \in Proc : s \notin holds[p]) =>
             pipe'[s] = pipe[s] /\ \A p \in Proc : s \notin holds'[p]
  <2> USE ControlAssumption DEF ControlTypeOK, TreeStep
  <2>1. CASE \E p \in Proc, q \in Descendant : TreeStep(Fork(p, q))
    BY <2>1 DEF Fork
  <2>2. CASE \E p \in Proc, s \in Stream : TreeStep(Write(p, s))
    <3> PICK p \in Proc, k \in Stream : TreeStep(Write(p, k))
      BY <2>2
    <3>1. /\ k \in holds[p] /\ UNCHANGED holds
          /\ pipe' = [pipe EXCEPT ![k] = @ + 1]
          /\ written' = [written EXCEPT ![k] = @ + 1]
      BY DEF Write
    <3>2. /\ pipe \in [Stream -> Nat] /\ written \in [Stream -> Nat]
      OBVIOUS
    <3>3. ASSUME NEW s \in Stream
          PROVE  /\ written'[s] - pipe'[s] = written[s] - pipe[s]
                 /\ written'[s] \in Nat /\ pipe'[s] \in Nat
      <4>1. CASE s = k
        <5>1. written'[s] = written[s] + 1 /\ pipe'[s] = pipe[s] + 1
          BY <3>1, <3>2, <4>1
        <5>2. \A m, n \in Nat : /\ (m + 1) - (n + 1) = m - n
                                /\ m + 1 \in Nat /\ n + 1 \in Nat
          OBVIOUS
        <5>3. written[s] \in Nat /\ pipe[s] \in Nat
          BY <3>2
        <5> QED
          BY <5>1, <5>2, <5>3
      <4>2. CASE s # k
        BY <3>1, <3>2, <4>2
      <4> QED
        BY <4>1, <4>2
    <3>4. \A s \in Stream : (\A r \in Proc : s \notin holds[r]) =>
            pipe'[s] = pipe[s] /\ \A r \in Proc : s \notin holds'[r]
      BY <3>1, <3>2
    <3> QED
      BY <3>3, <3>4
  <2>3. CASE \E p \in Proc, s \in Stream : TreeStep(CloseEnd(p, s))
    BY <2>3 DEF CloseEnd
  <2>4. CASE \E q \in Descendant : TreeStep(Escape(q))
    BY <2>4 DEF Escape
  <2>5. CASE \E p \in Proc : TreeStep(Exit(p)) \/ TreeStep(Die(p))
    <3> PICK p \in Proc : TreeStep(Exit(p)) \/ TreeStep(Die(p))
      BY <2>5
    <3>1. UNCHANGED <<pipe, written>> /\ holds' = [holds EXCEPT ![p] = {}]
      BY DEF Exit, Die, End
    <3>2. /\ pipe \in [Stream -> Nat] /\ written \in [Stream -> Nat]
      OBVIOUS
    <3>3. \A s \in Stream : (\A k \in Proc : s \notin holds[k]) =>
            \A k \in Proc : s \notin holds'[k]
      BY <3>1
    <3>4. \A s \in Stream : /\ written'[s] - pipe'[s] = written[s] - pipe[s]
                            /\ written'[s] \in Nat /\ pipe'[s] \in Nat
      BY <3>1, <3>2
    <3> QED
      BY <3>1, <3>3, <3>4
  <2>6. CASE \E q \in Descendant : TreeStep(Reap(q))
    BY <2>6 DEF Reap
  <2> QED
    BY <2>1, <2>2, <2>3, <2>4, <2>5, <2>6 DEF Tree
<1>2. \A s \in Stream : /\ written[s] \in Nat /\ pipe[s] \in Nat
                        /\ chunk[s] \in Nat /\ stored[s] \in Nat
  BY ControlAssumption DEF ControlTypeOK
<1>3. Accounted'
  <2> SUFFICES ASSUME NEW s \in Stream
               PROVE  /\ reader'[s] # "retain" => chunk'[s] = 0
                      /\ s \notin exceeded' =>
                           written'[s] = pipe'[s] + chunk'[s] + stored'[s]
                      /\ reader'[s] = "done" /\ ~ failed' /\ s \notin exceeded' =>
                           pipe'[s] = 0 /\ \A p \in Proc : s \notin holds'[p]
    BY DEF Accounted
  <2>1. reader'[s] # "retain" => chunk'[s] = 0
    BY <1>0 DEF Whole, Accounted
  <2>2. s \notin exceeded' => written'[s] = pipe'[s] + chunk'[s] + stored'[s]
    <3>1. s \notin exceeded => written[s] = pipe[s] + chunk[s] + stored[s]
      BY DEF Whole, Accounted
    <3>2. written'[s] = pipe'[s] + (written[s] - pipe[s])
      BY <1>1, <1>2
    <3> QED
      BY <1>0, <1>1, <1>2, <3>1, <3>2
  <2>3. reader'[s] = "done" /\ ~ failed' /\ s \notin exceeded' =>
          pipe'[s] = 0 /\ \A p \in Proc : s \notin holds'[p]
    BY <1>0, <1>1 DEF Whole, Accounted
  <2> QED
    BY <2>1, <2>2, <2>3
<1>4. ReadersStarted'
  BY <1>0 DEF Whole, ReadersStarted
<1>5. ReadersEnded'
  BY <1>0 DEF Whole, ReadersEnded
<1>6. ResultMeans'
  BY <1>0 DEF Whole, ResultMeans
<1> QED
  BY <1>3, <1>4, <1>5, <1>6 DEF Whole

\* ... the drain threads do, one byte count at a time ...
LEMMA WholeDrain ==
  ASSUME ControlTypeOK, Whole, NEW s \in Stream, Drain(s) \/ Refuse(s)
  PROVE  Whole'
<1> USE DEF Whole, Accounted, ReadersStarted, ReadersEnded, ResultMeans,
            tree, threads, teardown, mainVars
<1>0. /\ reader \in [Stream -> {"unstarted", "read", "retain", "done"}]
      /\ pipe \in [Stream -> Nat] /\ chunk \in [Stream -> Nat]
      /\ stored \in [Stream -> Nat] /\ written \in [Stream -> Nat]
      /\ "stdout" \in Stream /\ exceeded \subseteq Stream
  BY ControlAssumption DEF ControlTypeOK, Stream
<1>1. CASE ReadChunk(s) /\ UNCHANGED mainVars
  BY <1>0, <1>1 DEF ReadChunk
<1>2. CASE ReadEnd(s) /\ UNCHANGED mainVars
  <2>1. /\ reader[s] = "read" /\ reader' = [reader EXCEPT ![s] = "done"]
        /\ UNCHANGED <<pipe, chunk, stored, written, exceeded, holds, mainVars>>
        /\ failed => failed'
    BY <1>2 DEF ReadEnd
  <2>2. Accounted'
    BY <1>0, <1>2, <2>1 DEF ReadEnd
  <2>3. ReadersStarted'
    BY <1>0, <2>1
  <2>4. ReadersEnded' /\ ResultMeans'
    BY <1>0, <1>2, <2>1 DEF ReadEnd
  <2> QED
    BY <2>2, <2>3, <2>4
<1>3. CASE (ReadClosed(s) \/ ReadRefused(s)) /\ UNCHANGED mainVars
  <2>1. /\ reader[s] = "read" /\ reader' = [reader EXCEPT ![s] = "done"]
        /\ UNCHANGED <<pipe, chunk, stored, written, exceeded, holds, mainVars>>
        /\ failed => failed'
    BY <1>3 DEF ReadClosed, ReadRefused, ReadRaises
  <2>2. Accounted'
    BY <1>0, <1>3, <2>1 DEF ReadClosed, ReadRefused, ReadRaises
  <2>3. ReadersStarted'
    BY <1>0, <2>1
  <2>4. ReadersEnded' /\ ResultMeans'
    BY <1>0, <1>3, <2>1 DEF ReadClosed, ReadRefused, ReadRaises
  <2> QED
    BY <2>2, <2>3, <2>4
<1>4. CASE Retain(s) /\ UNCHANGED mainVars
  <2>1. /\ Retained(s) \in Nat
        /\ reader[s] = "retain"
        /\ stored' = [stored EXCEPT ![s] = @ + Retained(s)]
        /\ chunk' = [chunk EXCEPT ![s] = 0]
        /\ exceeded' = IF Retained(s) # chunk[s] THEN exceeded \cup {s} ELSE exceeded
        /\ reader' = [reader EXCEPT ![s] =
                        IF Retained(s) # chunk[s] THEN "done" ELSE "read"]
        /\ UNCHANGED <<proc, group, holds, pipe, written, failed, mainVars>>
    BY <1>4, RetainedFits DEF Retain
  <2>2. Accounted'
    <3> SUFFICES ASSUME NEW k \in Stream
                 PROVE  /\ reader'[k] # "retain" => chunk'[k] = 0
                        /\ k \notin exceeded' =>
                             written'[k] = pipe'[k] + chunk'[k] + stored'[k]
                        /\ reader'[k] = "done" /\ ~ failed' /\ k \notin exceeded' =>
                             pipe'[k] = 0 /\ \A p \in Proc : k \notin holds'[p]
      BY DEF Accounted
    <3>1. CASE k = s
      BY <1>0, <2>1, <3>1
    <3>2. CASE k # s
      BY <1>0, <2>1, <3>2
    <3> QED
      BY <3>1, <3>2
  <2>3. ReadersStarted'
    BY <1>0, <2>1
  <2>4. ReadersEnded' /\ ResultMeans'
    BY <1>0, <2>1
  <2> QED
    BY <2>2, <2>3, <2>4
<1> QED
  BY <1>1, <1>2, <1>3, <1>4 DEF Drain, Refuse

\* ... and the main thread does.
LEMMA WholeMain == ControlTypeOK /\ Whole /\ (DeadlinePasses \/ Main) => Whole'
<1> SUFFICES ASSUME ControlTypeOK, Whole, DeadlinePasses \/ Main PROVE Whole'
  OBVIOUS
<1> USE DEF Whole, ReadersStarted, ReadersEnded, ResultMeans,
            tree, threads, teardown, Leave
<1>0. /\ reader \in [Stream -> {"unstarted", "read", "retain", "done"}]
      /\ \A s \in Stream : s = "stdout" \/ s = "stderr"
      /\ "stdout" \in Stream /\ "stderr" \in Stream
      /\ failed \in BOOLEAN /\ contained \in BOOLEAN
  BY DEF ControlTypeOK, Stream
<1>1. CASE StartReader
  <2>1. /\ main = "start" /\ reader' = [reader EXCEPT ![Head(todo)] = "read"]
        /\ todo' = Tail(todo)
        /\ UNCHANGED <<tree, chunk, stored, exceeded, teardown, failed, main, verdict>>
    BY <1>1 DEF StartReader
  <2>2. \/ todo = Streams /\ \A s \in Stream : reader[s] = "unstarted"
        \/ todo = <<"stderr">> /\ reader["stdout"] # "unstarted"
                               /\ reader["stderr"] = "unstarted"
    BY <1>1 DEF StartReader
  <2>3. \/ /\ todo' = <<"stderr">> /\ reader' = [reader EXCEPT !["stdout"] = "read"]
           /\ \A s \in Stream : reader[s] = "unstarted"
        \/ /\ todo' = <<>> /\ reader' = [reader EXCEPT !["stderr"] = "read"]
           /\ reader["stdout"] # "unstarted" /\ reader["stderr"] = "unstarted"
    BY <2>1, <2>2, Visits
  <2>4. Accounted'
    BY <1>0, <2>1, <2>3 DEF Accounted
  <2> QED
    BY <1>0, <2>1, <2>3, <2>4
<1>2. CASE ~ StartReader
  <2>1. UNCHANGED <<threads, holds, pipe, written>> /\ (failed => failed')
    <3>1. CASE DeadlinePasses
      BY <3>1 DEF DeadlinePasses
    <3>2. CASE Prepare \/ PrepareFails
      BY <3>2 DEF Prepare, PrepareFails
    <3>3. CASE StartFails \/ Started
      BY <3>3 DEF StartFails, Started
    <3>4. CASE Watch \/ Poll
      BY <3>4 DEF Watch, Poll
    <3>5. CASE Tick
      BY <3>5 DEF Tick
    <3>6. CASE KillGroup \/ WaitLeader \/ Confirm
      BY <3>6 DEF KillGroup, WaitLeader, Confirm
    <3>7. CASE JoinReader \/ ClosePipe \/ Conclude
      BY <3>7 DEF JoinReader, ClosePipe, Conclude
    <3>8. CASE CheckReaders
      BY <3>8 DEF CheckReaders
    <3> QED
      BY <1>2, <3>1, <3>2, <3>3, <3>4, <3>5, <3>6, <3>7, <3>8 DEF Main
  <2>2. Accounted'
    BY <2>1 DEF Accounted
  <2>3. CASE DeadlinePasses
    BY <2>2, <2>3 DEF DeadlinePasses
  <2>4. CASE Prepare \/ PrepareFails
    BY <2>2, <2>4 DEF Prepare, PrepareFails
  <2>5. CASE StartFails
    BY <2>2, <2>5 DEF StartFails
  <2>6. CASE Started
    BY <2>2, <2>6 DEF Started, Streams
  <2>7. CASE Watch \/ Poll \/ Tick
    BY <2>2, <2>7 DEF Watch, Poll, Tick
  <2>8. CASE KillGroup \/ WaitLeader \/ Confirm \/ JoinReader
    BY <2>2, <2>8 DEF KillGroup, WaitLeader, Confirm, JoinReader
  <2>9. CASE CheckReaders
    BY <2>2, <2>9 DEF CheckReaders
  <2>10. CASE ClosePipe
    BY <2>2, <2>10 DEF ClosePipe
  <2>11. CASE Conclude
    BY <2>2, <2>11 DEF Conclude, Verdict, Reasons, ControlTypeOK
  <2> QED
    BY <1>2, <2>3, <2>4, <2>5, <2>6, <2>7, <2>8, <2>9, <2>10, <2>11 DEF Main
<1> QED
  BY <1>1, <1>2

\* A RESULT holds every byte the tree ever wrote, and no process can write
\* another one.
THEOREM ResultsAreWhole == ControlSpec => []ResultIsWhole
<1>1. ControlInit => Whole
  BY DEF ControlInit, Whole, Accounted, ReadersStarted, ReadersEnded, ResultMeans
<1>2. ControlTypeOK /\ Whole /\ [ControlNext]_vars => Whole'
  <2> SUFFICES ASSUME ControlTypeOK, Whole, [ControlNext]_vars PROVE Whole'
    OBVIOUS
  <2>1. CASE UNCHANGED vars
    BY <2>1 DEF vars, tree, threads, teardown, Whole, Accounted, ReadersStarted,
                ReadersEnded, ResultMeans
  <2>2. CASE ControlNext
    BY <2>2, WholeTree, WholeDrain, WholeMain DEF ControlNext
  <2> QED
    BY <2>1, <2>2
<1>3. ControlTypeOK /\ Whole => ResultIsWhole
  <2> SUFFICES ASSUME ControlTypeOK, Whole, verdict = "RESULT"
               PROVE  stored = written /\ \A p \in Proc : holds[p] = {}
    BY DEF ResultIsWhole
  <2>1. /\ contained /\ ~ failed /\ exceeded = {} /\ main = "returned"
    BY DEF Whole, ResultMeans
  <2>2. \A s \in Stream : reader[s] = "done"
    BY <2>1 DEF Whole, ReadersStarted, ReadersEnded, ControlTypeOK
  <2>3. \A s \in Stream : /\ written[s] = stored[s]
                          /\ \A p \in Proc : s \notin holds[p]
    <3> TAKE s \in Stream
    <3>1. /\ chunk[s] = 0 /\ pipe[s] = 0 /\ \A p \in Proc : s \notin holds[p]
          /\ written[s] = pipe[s] + chunk[s] + stored[s]
      BY <2>1, <2>2 DEF Whole, Accounted
    <3>2. stored[s] \in Nat
      BY DEF ControlTypeOK
    <3> QED
      BY <3>1, <3>2
  <2>4. /\ written \in [Stream -> 0..MaxWritten] /\ stored \in [Stream -> Nat]
        /\ holds \in [Proc -> SUBSET Stream]
    BY DEF ControlTypeOK
  <2>5. stored = written
    BY <2>3, <2>4
  <2>6. \A p \in Proc : holds[p] = {}
    BY <2>3, <2>4
  <2> QED
    BY <2>5, <2>6
<1> QED
  BY <1>1, <1>2, <1>3, ControlTypeCorrect, PTL DEF ControlSpec

-----------------------------------------------------------------------------
(* The pipes.                                                              *)

\* Only processes that run hold pipes, and none of the group runs on once it
\* was killed.
HeldByRunning == \A p \in Proc : holds[p] # {} => p \in Running
GroupBeaten ==
  main \in {"wait", "confirm", "join", "close", "returned"} =>
    \A p \in group : proc[p] # "alive"
Beaten == HeldByRunning /\ GroupBeaten

\* The tree keeps it: who is not alive does not fork ...
LEMMA BeatenTree == ControlTypeOK /\ Torn /\ Beaten /\ Tree => Beaten'
<1> SUFFICES ASSUME ControlTypeOK, Torn, Beaten, Tree PROVE Beaten'
  OBVIOUS
<1>0. UNCHANGED main
  BY DEF Tree, TreeStep
<1>1. /\ proc \in [Proc -> {"absent", "alive", "dying", "zombie", "gone"}]
      /\ group \subseteq Proc /\ holds \in [Proc -> SUBSET Stream]
      /\ \A p \in group : proc[p] # "absent"
      /\ Descendant \subseteq Proc
  BY DEF ControlTypeOK, Torn, GroupForked, Proc
<1> USE <1>0, <1>1 DEF Beaten, HeldByRunning, GroupBeaten, Running, TreeStep
<1>2. CASE \E p \in Proc, q \in Descendant : TreeStep(Fork(p, q))
  BY <1>2 DEF Fork
<1>3. CASE \E p \in Proc, s \in Stream : TreeStep(Write(p, s)) \/ TreeStep(CloseEnd(p, s))
  BY <1>3 DEF Write, CloseEnd
<1>4. CASE \E q \in Descendant : TreeStep(Escape(q))
  BY <1>4 DEF Escape
<1>5. CASE \E p \in Proc : TreeStep(Exit(p)) \/ TreeStep(Die(p))
  BY <1>5 DEF Exit, Die, End
<1>6. CASE \E q \in Descendant : TreeStep(Reap(q))
  BY <1>6 DEF Reap
<1> QED
  BY <1>2, <1>3, <1>4, <1>5, <1>6 DEF Tree

\* ... and the threads do: the group is killed before the main thread waits.
LEMMA BeatenStep == ControlTypeOK /\ Beaten /\ Step => Beaten'
<1> SUFFICES ASSUME ControlTypeOK, Beaten, Step PROVE Beaten'
  OBVIOUS
<1>0. /\ proc \in [Proc -> {"absent", "alive", "dying", "zombie", "gone"}]
      /\ group \subseteq Proc /\ Leader \in Proc
  BY DEF ControlTypeOK, Proc
<1> USE <1>0 DEF Beaten, HeldByRunning, GroupBeaten, Running, tree, threads, teardown,
                 mainVars, Leave
<1>1. ASSUME NEW s \in Stream, Drain(s) \/ Refuse(s) PROVE Beaten'
  BY <1>1 DEF Drain, Refuse, ReadChunk, ReadEnd, ReadClosed, ReadRefused, ReadRaises, Retain
<1>2. CASE DeadlinePasses
  BY <1>2 DEF DeadlinePasses
<1>3. CASE Prepare
  BY <1>3 DEF Prepare
<1>4. CASE PrepareFails
  BY <1>4 DEF PrepareFails
<1>5. CASE StartReader \/ StartFails \/ Started
  BY <1>5 DEF StartReader, StartFails, Started
<1>6. CASE Watch \/ Tick
  BY <1>6 DEF Watch, Tick
<1>7. CASE Poll
  BY <1>7 DEF Poll
<1>8. CASE KillGroup
  BY <1>8 DEF KillGroup, Killed
<1>9. CASE WaitLeader
  BY <1>9 DEF WaitLeader
<1>10. CASE Confirm \/ JoinReader \/ CheckReaders \/ ClosePipe \/ Conclude
  BY <1>10 DEF Confirm, JoinReader, CheckReaders, ClosePipe, Conclude
<1> QED
  BY <1>1, <1>2, <1>3, <1>4, <1>5, <1>6, <1>7, <1>8, <1>9, <1>10 DEF Step, Main

\* terminate_process_tree leaves no process of the group at a pipe but those
\* that are dying: what blocks pipe.close() for good has left the group.
THEOREM OnlyEscapesBlock == ControlSpec => []OnlyEscapedHold
<1>1. ControlInit => Beaten
  BY DEF ControlInit, Beaten, HeldByRunning, GroupBeaten, Running, Proc
<1>2. ControlTypeOK /\ Torn /\ Beaten /\ [ControlNext]_vars => Beaten'
  <2> SUFFICES ASSUME ControlTypeOK, Torn, Beaten, [ControlNext]_vars PROVE Beaten'
    OBVIOUS
  <2>1. CASE UNCHANGED vars
    BY <2>1 DEF vars, tree, Beaten, HeldByRunning, GroupBeaten, Running
  <2>2. CASE ControlNext
    BY <2>2, BeatenTree, BeatenStep DEF ControlNext, Step
  <2> QED
    BY <2>1, <2>2
<1>3. ControlTypeOK /\ Beaten => OnlyEscapedHold
  BY DEF ControlTypeOK, Beaten, HeldByRunning, GroupBeaten, Running, OnlyEscapedHold
<1> QED
  BY <1>1, <1>2, <1>3, ControlTypeCorrect, TornInvariant, PTL DEF ControlSpec
=============================================================================
