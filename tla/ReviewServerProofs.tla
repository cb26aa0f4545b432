------------------------- MODULE ReviewServerProofs -------------------------
(***************************************************************************)
(* Proofs about ReviewServer, for any number of servers, tabs, decisions,  *)
(* commits and crashes.                                                    *)
(***************************************************************************)
EXTENDS ReviewServer, TLAPS

\* Where a commit is in the file but not yet in the journal.
Unfinished == {"verify"} \cup Journaling

\* A pending preview, and the state under way, only add to what the session
\* holds; an apply under way is the one its tab shows.
RequestsAdd ==
  \A s \in Server :
    /\ pc[s] = "down" => preview[s] = NoPreview
    /\ preview[s] # NoPreview => mem[s] \subseteq preview[s].state
    /\ pc[s] \in Writing => mem[s] \subseteq job[s].state

ShownIsUnderWay ==
  \A s \in Server :
    pc[s] \in Writing /\ job[s].tab # None =>
      /\ job[s].tab \in Tab
      /\ confirm[s][job[s].tab].state = job[s].state

\* Without an overlap a server about to replace the file still knows it, and
\* what was put in place or acknowledged is still there.
FileGrows ==
  ~ overlapped =>
    /\ acknowledged \subseteq file.content
    /\ \A s \in Server : pc[s] = "replace" => file.content = mem[s]
    /\ \A s \in Server :
         pc[s] \in Unfinished => job[s].state \subseteq file.content

\* A journal that still has the identity that was read has the entries that
\* were read; without an overlap a compared journal has not moved.
JournalKnown ==
  \A s \in Server :
    /\ pc[s] \in {"compare", "append"} =>
         /\ job[s].id <= journal.id
         /\ job[s].id = journal.id => job[s].entries = journal.entries
    /\ ~ overlapped /\ pc[s] = "append" => job[s].id = journal.id

\* The state in the file is journaled, excused, or about to be journaled.
FileAccounted ==
  ~ overlapped =>
    \/ file.content \in journal.entries \cup gaps
    \/ \E s \in Server : pc[s] \in Unfinished /\ job[s].state = file.content

\* One server writes the export, from a complete selection.
ExportWritten ==
  /\ \A s \in Server :
       pc[s] = "export" => export.state = Partial /\ Complete(mem[s])
  /\ \A s, o \in Server : pc[s] = "export" /\ pc[o] = "export" => s = o
  /\ export.state = Partial /\ crashes = 0 => \E s \in Server : pc[s] = "export"
  /\ export.state = "whole" => Complete(export.content)

-----------------------------------------------------------------------------
(* Types.                                                                  *)

\* The steps of one server, by name.
LEMMA StepCases ==
  ASSUME NEW s \in Server, ServerStep(s)
  PROVE  \/ Launch(s) \/ Shutdown(s) \/ Crash(s)
         \/ \E d \in Decision : PreviewUnseen(s, d)
         \/ \E t \in Tab, d \in Decision : PreviewShown(s, t, d)
         \/ \E t \in Tab : Cancel(s, t)
         \/ \E t \in Tab : Apply(s, t)
         \/ \E t \in Tab : ApplyStale(s, t)
         \/ SetReviewers(s)
         \/ Check(s) \/ Recheck(s) \/ Replace(s) \/ Verify(s) \/ CommitRaises(s)
         \/ JournalRead(s) \/ JournalCompare(s) \/ JournalAppend(s)
         \/ JournalWarns(s) \/ ExportBegin(s) \/ ExportEnd(s)
BY DEF ServerStep

\* The types hold at the start ...
LEMMA TypeInit == ServerInit => ServerTypeOK
<1> SUFFICES ASSUME ServerInit PROVE ServerTypeOK
  OBVIOUS
<1>1. NoPreview \in Previews
  BY DEF NoPreview, Previews, State
<1>2. NoJob \in [state : State, tab : Tab \cup {None}, id : Nat, entries : SUBSET State]
  BY DEF NoJob, State
<1>3. /\ file \in [content : State, id : 0..MaxFiles]
      /\ journal \in [entries : SUBSET State, id : Nat]
      /\ export \in [content : State, state : {Absent, Partial, "whole"}]
  BY ServerAssumption DEF ServerInit, State
<1>4. \A s \in Server : \A t \in Tab : confirm[s][t].revision <= revision[s]
  BY DEF ServerInit, NoPreview
<1>5. /\ pc \in [Server -> {"down", "idle", "export"} \cup Writing \cup Journaling]
      /\ mem \in [Server -> State] /\ revision \in [Server -> Nat]
  BY DEF ServerInit, State
<1>6. /\ preview \in [Server -> Previews]
      /\ confirm \in [Server -> [Tab -> Previews]]
  BY <1>1 DEF ServerInit
<1>7. job \in [Server -> [state : State, tab : Tab \cup {None}, id : Nat,
                         entries : SUBSET State]]
  BY <1>2 DEF ServerInit
<1>8. crashes \in 0..MaxCrashes
  BY ServerAssumption DEF ServerInit
<1>9. acknowledged \in State /\ gaps \in SUBSET State
  BY DEF ServerInit, State
<1>10. overlapped \in BOOLEAN
  BY DEF ServerInit
<1> QED
  BY <1>3, <1>4, <1>5, <1>6, <1>7, <1>8, <1>9, <1>10 DEF ServerTypeOK

\* A commit under way.
Jobs == [state : State, tab : Tab \cup {None}, id : Nat, entries : SUBSET State]

\* Its fields change one at a time.
LEMMA JobType ==
  ASSUME ServerTypeOK, NEW s \in Server
  PROVE  /\ job \in [Server -> Jobs]
         /\ \A n \in Nat : [job EXCEPT ![s].id = n] \in [Server -> Jobs]
         /\ \A n \in Nat : \A e \in SUBSET State :
              [job EXCEPT ![s].entries = e, ![s].id = n] \in [Server -> Jobs]
         /\ file.id \in Nat /\ file.id + 1 \in Nat
<1>1. job \in [Server -> Jobs] /\ job[s] \in Jobs
  BY DEF ServerTypeOK, Jobs
<1>2. ASSUME NEW n \in Nat PROVE [job[s] EXCEPT !.id = n] \in Jobs
  BY <1>1, <1>2 DEF Jobs
<1>3. ASSUME NEW n \in Nat, NEW e \in SUBSET State
      PROVE  [job[s] EXCEPT !.entries = e, !.id = n] \in Jobs
  BY <1>1, <1>3 DEF Jobs
<1>4. file.id \in Nat /\ file.id + 1 \in Nat
  BY ServerAssumption DEF ServerTypeOK
<1>5. ASSUME NEW n \in Nat PROVE [job EXCEPT ![s].id = n] \in [Server -> Jobs]
  BY <1>1, <1>2, <1>5
<1>6. ASSUME NEW n \in Nat, NEW e \in SUBSET State
      PROVE  [job EXCEPT ![s].entries = e, ![s].id = n] \in [Server -> Jobs]
  <2>1. [job EXCEPT ![s].entries = e, ![s].id = n]
          = [job EXCEPT ![s] = [job[s] EXCEPT !.entries = e, !.id = n]]
    BY <1>1 DEF Jobs
  <2> QED
    BY <1>1, <1>3, <1>6, <2>1
<1> QED
  BY <1>1, <1>4, <1>5, <1>6

\* ... and every step keeps them.
LEMMA TypeStep == ServerTypeOK /\ [ServerNext]_serverAllVars => ServerTypeOK'
<1> SUFFICES ASSUME ServerTypeOK, [ServerNext]_serverAllVars PROVE ServerTypeOK'
  OBVIOUS
<1> USE ServerAssumption
<1>1. CASE UNCHANGED serverAllVars
  BY <1>1 DEF serverAllVars, fileVars, serverVars, history, ServerTypeOK
<1>2. ASSUME NEW s \in Server, ServerStep(s) PROVE ServerTypeOK'
  <2>1. CASE Launch(s)
    BY <2>1 DEF Launch, fileVars, history, ServerTypeOK
  <2>2. ASSUME Down(s), UNCHANGED fileVars, crashes' \in 0..MaxCrashes,
               UNCHANGED <<acknowledged, overlapped>>, gaps' \in SUBSET State
        PROVE  ServerTypeOK'
    BY <2>2 DEF Down, fileVars, ServerTypeOK, NoPreview, NoJob, State, Previews
  <2>3. CASE Shutdown(s)
    BY <2>2, <2>3 DEF Shutdown, history, ServerTypeOK
  <2>4. CASE Crash(s)
    <3>1. gaps' \in SUBSET State
      BY <2>4 DEF Crash, Unjournaled, ServerTypeOK
    <3>2. crashes' \in 0..MaxCrashes
      BY <2>4 DEF Crash, ServerTypeOK
    <3> QED
      BY <2>2, <2>4, <3>1, <3>2 DEF Crash
  <2>5. ASSUME NEW d \in Decision
        PROVE  /\ Pending(s, d) \in Previews
               /\ Pending(s, d).revision = revision[s]
    BY DEF ServerTypeOK, Pending, Previews, State
  <2>6. ASSUME NEW d \in Decision, PreviewUnseen(s, d) PROVE ServerTypeOK'
    BY <2>5, <2>6 DEF PreviewUnseen, Preview, fileVars, history, ServerTypeOK
  <2>7. ASSUME NEW t \in Tab, NEW d \in Decision, PreviewShown(s, t, d)
        PROVE  ServerTypeOK'
    BY <2>5, <2>7 DEF PreviewShown, Preview, fileVars, history, ServerTypeOK
  <2>8. NoPreview \in Previews /\ NoPreview.revision = 0
    BY DEF NoPreview, Previews, State
  <2>9. ASSUME NEW t \in Tab, Cancel(s, t) PROVE ServerTypeOK'
    BY <2>8, <2>9 DEF Cancel, fileVars, history, ServerTypeOK
  <2>10. ASSUME NEW state \in State, NEW t \in Tab \cup {None}, Commit(s, state, t)
         PROVE  ServerTypeOK'
    BY <2>10 DEF Commit, fileVars, history, ServerTypeOK, Writing, NoJob, State
  <2>11. ASSUME NEW t \in Tab, Apply(s, t) PROVE ServerTypeOK'
    BY <2>10, <2>11 DEF Apply, ServerTypeOK, Previews
  <2>12. ASSUME NEW t \in Tab, ApplyStale(s, t) PROVE ServerTypeOK'
    BY <2>8, <2>12 DEF ApplyStale, fileVars, history, ServerTypeOK
  <2>13. CASE SetReviewers(s)
    BY <2>10, <2>13 DEF SetReviewers, ServerTypeOK, State
  <2>14. CASE Check(s)
    <3>1. job' \in [Server -> Jobs]
      BY <2>14, JobType DEF Check, ServerTypeOK
    <3> QED
      BY <2>14, <3>1, JobType DEF Check, fileVars, history, ServerTypeOK, Writing, Jobs
  <2>15. CASE Recheck(s)
    BY <2>15 DEF Recheck, fileVars, history, ServerTypeOK, Writing
  <2>16. CASE Replace(s)
    <3>1. file' \in [content : State, id : 0..MaxFiles] /\ job[s].state \in State
      BY <2>16 DEF Replace, ServerTypeOK
    <3>2. overlapped' \in BOOLEAN
      BY <2>16 DEF Replace, ServerTypeOK
    <3>3. job' \in [Server -> Jobs]
      BY <2>16, JobType DEF Replace
    <3> QED
      BY <2>16, <3>1, <3>2, <3>3 DEF Replace, ServerTypeOK, Writing, Jobs
  <2>17. CASE Verify(s)
    <3>1. /\ mem' \in [Server -> State] /\ preview' \in [Server -> Previews]
          /\ pc' \in [Server -> {"down", "idle", "export"} \cup Writing \cup Journaling]
      BY <2>8, <2>17 DEF Verify, ServerTypeOK, Writing, Journaling
    <3>2. /\ revision' \in [Server -> Nat]
          /\ \A c \in Server : revision[c] <= revision'[c]
      BY <2>17 DEF Verify, ServerTypeOK
    <3>3. \A c \in Server : \A t \in Tab : confirm[c][t].revision \in Nat
      BY DEF ServerTypeOK, Previews
    <3>4. \A c \in Server : \A t \in Tab : confirm'[c][t].revision <= revision'[c]
      BY <2>17, <3>2, <3>3 DEF Verify, ServerTypeOK
    <3> QED
      BY <2>17, <3>1, <3>2, <3>4 DEF Verify, fileVars, history, ServerTypeOK
  <2>18. Unjournaled(s) \in SUBSET State
    BY DEF Unjournaled, ServerTypeOK
  <2>19. ASSUME Answered(s)
         PROVE  /\ pc' \in [Server -> {"down", "idle", "export"} \cup Writing \cup Journaling]
                /\ job' \in [Server -> [state : State, tab : Tab \cup {None}, id : Nat,
                                        entries : SUBSET State]]
                /\ confirm' \in [Server -> [Tab -> Previews]]
                /\ revision' = revision =>
                     \A c \in Server : \A t \in Tab :
                       confirm'[c][t].revision <= revision'[c]
    BY <2>8, <2>19 DEF Answered, ServerTypeOK, NoJob, State
  <2>20. CASE CommitRaises(s)
    BY <2>18, <2>19, <2>20 DEF CommitRaises, fileVars, ServerTypeOK
  <2>21. CASE JournalRead(s)
    <3>1. journal.entries \in SUBSET State /\ journal.id \in Nat
      BY DEF ServerTypeOK
    <3>2. job' \in [Server -> Jobs]
      BY <2>21, <3>1, JobType DEF JournalRead
    <3> QED
      BY <2>21, <3>2 DEF JournalRead, fileVars, history, ServerTypeOK, Journaling, Jobs
  <2>22. CASE JournalCompare(s)
    BY <2>22 DEF JournalCompare, fileVars, history, ServerTypeOK, Journaling
  <2>23. ASSUME Acknowledge(s) PROVE acknowledged' \in State
    BY <2>23 DEF Acknowledge, ServerTypeOK, State
  <2>24. CASE JournalAppend(s)
    <3>1. journal' \in [entries : SUBSET State, id : Nat]
      BY <2>24 DEF JournalAppend, ServerTypeOK
    <3>2. overlapped' \in BOOLEAN
      BY <2>24 DEF JournalAppend, ServerTypeOK
    <3> QED
      BY <2>19, <2>23, <2>24, <3>1, <3>2 DEF JournalAppend, Acknowledge, ServerTypeOK
  <2>25. CASE JournalWarns(s)
    <3>1. gaps' \in SUBSET State
      BY <2>25 DEF JournalWarns, ServerTypeOK
    <3> QED
      BY <2>19, <2>23, <2>25, <3>1 DEF JournalWarns, Acknowledge, fileVars, ServerTypeOK
  <2>26. CASE ExportBegin(s)
    BY <2>26 DEF ExportBegin, history, ServerTypeOK, State, Partial
  <2>27. CASE ExportEnd(s)
    BY <2>27 DEF ExportEnd, history, ServerTypeOK, State, Absent
  <2> QED
    BY <1>2, <2>1, <2>3, <2>4, <2>6, <2>7, <2>9, <2>11, <2>12, <2>13, <2>14, <2>15,
       <2>16, <2>17, <2>20, <2>21, <2>22, <2>24, <2>25, <2>26, <2>27, StepCases
<1> QED
  BY <1>1, <1>2 DEF ServerNext

\* Every reachable state is well typed, and no tab shows a preview of a later
\* revision than its server's (ReviewServer.ServerTypeOK).
THEOREM ServerTypeCorrect == ServerSpec => []ServerTypeOK
<1>1. ServerInit => ServerTypeOK
  BY TypeInit
<1>2. ServerTypeOK /\ [ServerNext]_serverAllVars => ServerTypeOK'
  BY TypeStep
<1> QED
  BY <1>1, <1>2, PTL DEF ServerSpec

-----------------------------------------------------------------------------
(* What a request asks for is what is put in place.                        *)

\* A preview and a commit start from the memory of their server and add to it.
LEMMA RequestsAddStep ==
  ServerTypeOK /\ RequestsAdd /\ [ServerNext]_serverAllVars => RequestsAdd'
<1> SUFFICES ASSUME ServerTypeOK, RequestsAdd, [ServerNext]_serverAllVars,
                    NEW o \in Server
             PROVE  /\ pc'[o] = "down" => preview'[o] = NoPreview
                    /\ preview'[o] # NoPreview => mem'[o] \subseteq preview'[o].state
                    /\ pc'[o] \in Writing => mem'[o] \subseteq job'[o].state
  BY DEF RequestsAdd
<1> USE DEF RequestsAdd
<1>0. /\ pc \in [Server -> {"down", "idle", "export"} \cup Writing \cup Journaling]
      /\ mem \in [Server -> State] /\ preview \in [Server -> Previews]
      /\ job \in [Server -> Jobs]
  BY DEF ServerTypeOK, Jobs
<1>1. CASE UNCHANGED serverAllVars
  BY <1>1 DEF serverAllVars, serverVars
<1>2. ASSUME NEW s \in Server, ServerStep(s)
      PROVE  /\ pc'[o] = "down" => preview'[o] = NoPreview
             /\ preview'[o] # NoPreview => mem'[o] \subseteq preview'[o].state
             /\ pc'[o] \in Writing => mem'[o] \subseteq job'[o].state
  <2> USE <1>0
  <2>1. CASE Launch(s)
    BY <2>1 DEF Launch, Writing
  <2>2. CASE Down(s)
    BY <2>2 DEF Down, Writing
  <2>3. CASE Shutdown(s) \/ Crash(s)
    BY <2>2, <2>3 DEF Shutdown, Crash
  <2>4. ASSUME NEW d \in Decision, Preview(s, d)
        PROVE  /\ pc'[o] = "down" => preview'[o] = NoPreview
               /\ preview'[o] # NoPreview => mem'[o] \subseteq preview'[o].state
               /\ pc'[o] \in Writing => mem'[o] \subseteq job'[o].state
    BY <2>4 DEF Preview, Pending
  <2>5. ASSUME NEW d \in Decision, PreviewUnseen(s, d) PROVE Preview(s, d)
    BY <2>5 DEF PreviewUnseen
  <2>6. ASSUME NEW t \in Tab, NEW d \in Decision, PreviewShown(s, t, d)
        PROVE  Preview(s, d)
    BY <2>6 DEF PreviewShown
  <2>7. ASSUME NEW t \in Tab, Cancel(s, t) \/ ApplyStale(s, t)
        PROVE  UNCHANGED <<pc, mem, preview, job>>
    BY <2>7 DEF Cancel, ApplyStale
  <2>8. ASSUME NEW state, NEW t, Commit(s, state, t), mem[s] \subseteq state
        PROVE  /\ pc'[o] = "down" => preview'[o] = NoPreview
               /\ preview'[o] # NoPreview => mem'[o] \subseteq preview'[o].state
               /\ pc'[o] \in Writing => mem'[o] \subseteq job'[o].state
    BY <2>8 DEF Commit, NoJob
  <2>9. ASSUME NEW t \in Tab, Apply(s, t)
        PROVE  Commit(s, preview[s].state, t) /\ mem[s] \subseteq preview[s].state
    BY <2>9 DEF Apply, Fresh
  <2>10. CASE SetReviewers(s)
    BY <2>8, <2>10 DEF SetReviewers
  <2>11. CASE Check(s) \/ Recheck(s) \/ Replace(s)
    BY <2>11 DEF Check, Recheck, Replace, Writing, Jobs
  <2>12. CASE Verify(s)
    BY <2>12 DEF Verify, Writing
  <2>13. ASSUME Answered(s), UNCHANGED <<mem, preview>>
         PROVE  /\ pc'[o] = "down" => preview'[o] = NoPreview
                /\ preview'[o] # NoPreview => mem'[o] \subseteq preview'[o].state
                /\ pc'[o] \in Writing => mem'[o] \subseteq job'[o].state
    BY <2>13 DEF Answered, Writing
  <2>14. CASE CommitRaises(s) \/ JournalAppend(s) \/ JournalWarns(s)
    BY <2>13, <2>14 DEF CommitRaises, JournalAppend, JournalWarns, Acknowledge
  <2>15. CASE JournalRead(s) \/ JournalCompare(s)
    BY <2>15 DEF JournalRead, JournalCompare, Writing
  <2>16. CASE ExportBegin(s) \/ ExportEnd(s)
    BY <2>16 DEF ExportBegin, ExportEnd, Writing
  <2> QED
    BY <1>2, StepCases, <2>1, <2>3, <2>4, <2>5, <2>6, <2>7, <2>8, <2>9, <2>10,
       <2>11, <2>12, <2>14, <2>15, <2>16
<1> QED
  BY <1>1, <1>2 DEF ServerNext

\* A commit under way from a tab carries what that tab was shown.
LEMMA ShownIsUnderWayStep ==
  ServerTypeOK /\ ShownIsUnderWay /\ [ServerNext]_serverAllVars => ShownIsUnderWay'
<1> SUFFICES ASSUME ServerTypeOK, ShownIsUnderWay, [ServerNext]_serverAllVars,
                    NEW o \in Server, pc'[o] \in Writing, job'[o].tab # None
             PROVE  /\ job'[o].tab \in Tab
                    /\ confirm'[o][job'[o].tab].state = job'[o].state
  BY DEF ShownIsUnderWay
<1> USE DEF ShownIsUnderWay
<1>0. /\ pc \in [Server -> {"down", "idle", "export"} \cup Writing \cup Journaling]
      /\ confirm \in [Server -> [Tab -> Previews]]
      /\ job \in [Server -> Jobs]
  BY DEF ServerTypeOK, Jobs
<1>1. CASE UNCHANGED serverAllVars
  BY <1>1 DEF serverAllVars, serverVars
<1>2. ASSUME NEW s \in Server, ServerStep(s)
      PROVE  /\ job'[o].tab \in Tab
             /\ confirm'[o][job'[o].tab].state = job'[o].state
  <2> USE <1>0
  <2>1. CASE UNCHANGED <<pc, job, confirm>>
    BY <2>1
  <2>2. CASE Launch(s)
    BY <2>2 DEF Launch, Writing
  <2>3. CASE Shutdown(s) \/ Crash(s)
    BY <2>3 DEF Shutdown, Crash, Down, Writing
  <2>4. ASSUME NEW d \in Decision, PreviewUnseen(s, d)
        PROVE  UNCHANGED <<pc, job, confirm>>
    BY <2>4 DEF PreviewUnseen, Preview
  <2>5. ASSUME NEW t \in Tab, NEW d \in Decision, PreviewShown(s, t, d)
        PROVE  o # s /\ UNCHANGED <<pc, job>> /\ confirm'[o] = confirm[o]
    BY <2>5 DEF PreviewShown, Preview, Writing
  <2>6. ASSUME NEW t \in Tab, Cancel(s, t)
        PROVE  /\ UNCHANGED <<pc, job>>
               /\ \A u \in Tab : u # t \/ o # s => confirm'[o][u] = confirm[o][u]
               /\ job[s].tab # t
    BY <2>6 DEF Cancel
  <2>7. ASSUME NEW t \in Tab, Apply(s, t)
        PROVE  /\ job'[o].tab \in Tab
               /\ confirm'[o][job'[o].tab].state = job'[o].state
    BY <2>7 DEF Apply, Fresh, Commit, NoJob
  <2>8. ASSUME NEW t \in Tab, ApplyStale(s, t)
        PROVE  o # s /\ UNCHANGED <<pc, job>> /\ confirm'[o] = confirm[o]
    BY <2>8 DEF ApplyStale, Writing
  <2>9. CASE SetReviewers(s)
    BY <2>9 DEF SetReviewers, Commit, NoJob
  <2>10. CASE Check(s) \/ Recheck(s) \/ Replace(s)
    BY <2>10 DEF Check, Recheck, Replace, Writing, Jobs
  <2>11. CASE Verify(s) \/ JournalRead(s) \/ JournalCompare(s)
    BY <2>11 DEF Verify, JournalRead, JournalCompare, Writing
  <2>12. ASSUME Answered(s) PROVE o # s /\ UNCHANGED <<job[o], pc[o], confirm[o]>>
    BY <2>12 DEF Answered, Writing
  <2>13. CASE CommitRaises(s) \/ JournalAppend(s) \/ JournalWarns(s)
    BY <2>12, <2>13 DEF CommitRaises, JournalAppend, JournalWarns, Acknowledge
  <2>14. CASE ExportBegin(s) \/ ExportEnd(s)
    BY <2>14 DEF ExportBegin, ExportEnd, Writing
  <2>15. ASSUME NEW t \in Tab, Cancel(s, t)
         PROVE  /\ job'[o].tab \in Tab
                /\ confirm'[o][job'[o].tab].state = job'[o].state
    BY <2>6, <2>15
  <2> QED
    BY <1>2, StepCases, <2>1, <2>2, <2>3, <2>4, <2>5, <2>7, <2>8, <2>9, <2>10,
       <2>11, <2>13, <2>14, <2>15
<1> QED
  BY <1>1, <1>2 DEF ServerNext

\* What an apply puts into the working file is what the tab that confirmed it
\* was shown (ReviewServer.ConfirmedIsCommitted).
THEOREM ConfirmationsAreCommitted == ServerSpec => ConfirmedIsCommitted
<1>1. ServerInit => ServerTypeOK /\ ShownIsUnderWay
  BY TypeInit DEF ServerInit, ShownIsUnderWay, Writing
<1>2. ServerTypeOK /\ ShownIsUnderWay /\ [ServerNext]_serverAllVars
        => (ServerTypeOK /\ ShownIsUnderWay)'
  BY TypeStep, ShownIsUnderWayStep
<1>3. ASSUME ServerTypeOK, ShownIsUnderWay, [ServerNext]_serverAllVars,
             NEW s \in Server, pc[s] = "replace", pc'[s] = "verify", job[s].tab # None
      PROVE  file'.content = confirm[s][job[s].tab].state
  <2>1. pc'[s] # pc[s] /\ ~ UNCHANGED serverAllVars
    BY <1>3 DEF serverAllVars, serverVars
  <2>2. PICK o \in Server : ServerStep(o)
    BY <1>3, <2>1 DEF ServerNext
  <2>3. Replace(o)
    BY <1>3, <2>2
    DEF ServerStep, Launch, Shutdown, Crash, Down, PreviewUnseen, PreviewShown, Preview,
        Cancel, Apply, ApplyStale, Commit, SetReviewers, Check, Recheck, Verify,
        CommitRaises, Answered, JournalRead, JournalCompare, JournalAppend, Acknowledge,
        JournalWarns, ExportBegin, ExportEnd, Exportable, ServerTypeOK
  <2>4. o = s
    BY <1>3, <2>3 DEF Replace, ServerTypeOK
  <2> QED
    BY <1>3, <2>3, <2>4 DEF Replace, ShownIsUnderWay, Writing
<1>4. ServerTypeOK /\ ShownIsUnderWay /\ [ServerNext]_serverAllVars =>
        [\A s \in Server :
           /\ pc[s] = "replace" /\ pc'[s] = "verify" /\ job[s].tab # None
           => file'.content = confirm[s][job[s].tab].state]_serverAllVars
  BY <1>3
<1> QED
  BY <1>1, <1>2, <1>4, PTL DEF ServerSpec, ConfirmedIsCommitted

-----------------------------------------------------------------------------
(* Nothing acknowledged is lost outside the window of an overlap.          *)

\* Without an overlap the file holds everything acknowledged, and every
\* unfinished commit is still in it.
LEMMA FileGrowsStep ==
  ServerTypeOK /\ RequestsAdd /\ FileGrows /\ [ServerNext]_serverAllVars => FileGrows'
<1> SUFFICES ASSUME ServerTypeOK, RequestsAdd, FileGrows, [ServerNext]_serverAllVars,
                    ~ overlapped'
             PROVE  /\ acknowledged' \subseteq file'.content
                    /\ \A o \in Server : pc'[o] = "replace" => file'.content = mem'[o]
                    /\ \A o \in Server :
                         pc'[o] \in Unfinished => job'[o].state \subseteq file'.content
  BY DEF FileGrows
<1> DEFINE Goal ==
      /\ acknowledged' \subseteq file'.content
      /\ \A o \in Server : pc'[o] = "replace" => file'.content = mem'[o]
      /\ \A o \in Server :
           pc'[o] \in Unfinished => job'[o].state \subseteq file'.content
<1> USE DEF Unfinished, Journaling, Writing
<1>0. /\ pc \in [Server -> {"down", "idle", "export"} \cup Writing \cup Journaling]
      /\ mem \in [Server -> State] /\ job \in [Server -> Jobs]
  BY DEF ServerTypeOK, Jobs
<1>1. CASE UNCHANGED serverAllVars
  BY <1>1 DEF serverAllVars, serverVars, fileVars, history, FileGrows
<1>2. ASSUME NEW s \in Server, ServerStep(s) PROVE Goal
  <2> USE <1>0
  <2>0. overlapped => overlapped'
    BY <1>2 DEF ServerStep, Launch, Shutdown, Crash, PreviewUnseen, PreviewShown,
       Preview, Cancel, Apply, ApplyStale, Commit, SetReviewers, Check, Recheck,
       Replace, Verify, CommitRaises, JournalRead, JournalCompare, JournalAppend,
       JournalWarns, ExportBegin, ExportEnd, history
  <2>1. /\ ~ overlapped
        /\ acknowledged \subseteq file.content
        /\ \A o \in Server : pc[o] = "replace" => file.content = mem[o]
        /\ \A o \in Server :
             pc[o] \in Unfinished => job[o].state \subseteq file.content
    BY <2>0 DEF FileGrows
  <2>2. ASSUME UNCHANGED <<file, acknowledged>>,
               \A o \in Server \ {s} : UNCHANGED <<pc[o], mem[o], job[o]>>,
               pc'[s] \notin {"replace"} \cup Unfinished
        PROVE  Goal
    BY <2>1, <2>2
  <2>3. CASE Launch(s) \/ Shutdown(s) \/ Crash(s)
    BY <2>2, <2>3 DEF Launch, Shutdown, Crash, Down, fileVars, history
  <2>4. ASSUME UNCHANGED <<pc, mem, job, file, acknowledged>> PROVE Goal
    BY <2>1, <2>4
  <2>5. ASSUME NEW d \in Decision, PreviewUnseen(s, d) PROVE Goal
    BY <2>4, <2>5 DEF PreviewUnseen, Preview, fileVars, history
  <2>6. ASSUME NEW t \in Tab, NEW d \in Decision, PreviewShown(s, t, d) PROVE Goal
    BY <2>4, <2>6 DEF PreviewShown, Preview, fileVars, history
  <2>7. ASSUME NEW t \in Tab, Cancel(s, t) \/ ApplyStale(s, t) PROVE Goal
    BY <2>4, <2>7 DEF Cancel, ApplyStale, fileVars, history
  <2>8. ASSUME NEW t \in Tab, Apply(s, t) PROVE Goal
    BY <2>2, <2>8 DEF Apply, Commit, fileVars, history
  <2>9. CASE SetReviewers(s)
    BY <2>2, <2>9 DEF SetReviewers, Commit, fileVars, history
  <2>10. CASE Check(s)
    BY <2>2, <2>10 DEF Check, fileVars, history
  <2>11. CASE Recheck(s)
    BY <2>1, <2>11 DEF Recheck, Expected, fileVars, history
  <2>12. CASE Replace(s)
    <3>1. /\ \A o \in Server \ {s} : pc[o] # "replace"
          /\ file.content = mem[s] /\ mem[s] \subseteq job[s].state
          /\ file'.content = job[s].state /\ job'[s].state = job[s].state
          /\ acknowledged' = acknowledged /\ mem' = mem
          /\ pc' = [pc EXCEPT ![s] = "verify"]
          /\ \A o \in Server \ {s} : job'[o] = job[o]
      BY <2>1, <2>12 DEF Replace, RequestsAdd, Jobs
    <3> QED
      BY <2>1, <3>1
  <2>13. CASE Verify(s)
    BY <2>1, <2>13 DEF Verify, fileVars, history
  <2>14. CASE CommitRaises(s)
    BY <2>2, <2>14 DEF CommitRaises, Answered, fileVars
  <2>15. CASE JournalRead(s)
    <3>1. /\ UNCHANGED <<file, mem, acknowledged>>
          /\ pc' = [pc EXCEPT ![s] = "compare"]
          /\ \A o \in Server : job'[o].state = job[o].state
      BY <2>15 DEF JournalRead, fileVars, history, Jobs
    <3> QED
      BY <2>1, <2>15, <3>1 DEF JournalRead
  <2>16. CASE JournalCompare(s)
    BY <2>1, <2>16 DEF JournalCompare, fileVars, history
  <2>17. CASE JournalAppend(s) \/ JournalWarns(s)
    <3>1. /\ UNCHANGED <<file, mem>>
          /\ acknowledged' = acknowledged \cup job[s].state
          /\ pc' = [pc EXCEPT ![s] = "idle"]
          /\ \A o \in Server \ {s} : job'[o] = job[o]
          /\ pc[s] \in Unfinished
      BY <2>17 DEF JournalAppend, JournalWarns, Acknowledge, Answered, fileVars
    <3> QED
      BY <2>1, <3>1
  <2>18. CASE ExportBegin(s) \/ ExportEnd(s)
    BY <2>2, <2>18 DEF ExportBegin, ExportEnd, history
  <2> QED
    BY <1>2, StepCases, <2>3, <2>5, <2>6, <2>7, <2>8, <2>9, <2>10, <2>11, <2>12,
       <2>13, <2>14, <2>15, <2>16, <2>17, <2>18
<1> QED
  BY <1>1, <1>2 DEF ServerNext

\* Unless two servers stood between their last check and the replacement at
\* once, whatever was acknowledged is in the working file
\* (ReviewServer.AcknowledgedSurvives).
THEOREM AcknowledgementsSurvive == ServerSpec => []AcknowledgedSurvives
<1> DEFINE Kept == ServerTypeOK /\ RequestsAdd /\ FileGrows
<1>1. ServerInit => Kept
  <2>1. ServerInit => RequestsAdd /\ FileGrows
    BY DEF ServerInit, RequestsAdd, FileGrows, Unfinished, Writing, Journaling
  <2> QED
    BY <2>1, TypeInit
<1>2. Kept /\ [ServerNext]_serverAllVars => Kept'
  BY TypeStep, RequestsAddStep, FileGrowsStep
<1>3. Kept => AcknowledgedSurvives
  BY DEF FileGrows, AcknowledgedSurvives
<1> QED
  BY <1>1, <1>2, <1>3, PTL DEF ServerSpec

-----------------------------------------------------------------------------
(* The journal.                                                            *)

\* What a server read of the journal is the journal of that moment; without an
\* overlap it is still current when it appends.
LEMMA JournalKnownStep ==
  ServerTypeOK /\ JournalKnown /\ [ServerNext]_serverAllVars => JournalKnown'
<1> SUFFICES ASSUME ServerTypeOK, JournalKnown, [ServerNext]_serverAllVars,
                    NEW o \in Server
             PROVE  /\ pc'[o] \in {"compare", "append"} =>
                         /\ job'[o].id <= journal'.id
                         /\ job'[o].id = journal'.id =>
                              job'[o].entries = journal'.entries
                    /\ ~ overlapped' /\ pc'[o] = "append" => job'[o].id = journal'.id
  BY DEF JournalKnown
<1> DEFINE Goal ==
      /\ pc'[o] \in {"compare", "append"} =>
           /\ job'[o].id <= journal'.id
           /\ job'[o].id = journal'.id => job'[o].entries = journal'.entries
      /\ ~ overlapped' /\ pc'[o] = "append" => job'[o].id = journal'.id
<1> USE DEF JournalKnown, Writing, Journaling
<1>0. /\ pc \in [Server -> {"down", "idle", "export"} \cup Writing \cup Journaling]
      /\ job \in [Server -> Jobs] /\ journal.id \in Nat
      /\ journal \in [entries : SUBSET State, id : Nat]
  BY DEF ServerTypeOK, Jobs
<1>1. CASE UNCHANGED serverAllVars
  BY <1>1 DEF serverAllVars, serverVars, fileVars, history
<1>2. ASSUME NEW s \in Server, ServerStep(s) PROVE Goal
  <2> USE <1>0
  <2>0. overlapped => overlapped'
    BY <1>2 DEF ServerStep, Launch, Shutdown, Crash, PreviewUnseen, PreviewShown,
       Preview, Cancel, Apply, ApplyStale, Commit, SetReviewers, Check, Recheck,
       Replace, Verify, CommitRaises, JournalRead, JournalCompare, JournalAppend,
       JournalWarns, ExportBegin, ExportEnd, history
  <2>1. ASSUME UNCHANGED journal, s # o => UNCHANGED <<pc[o], job[o]>>,
               s = o => pc'[o] \notin {"compare", "append"}
        PROVE  Goal
    BY <2>0, <2>1
  <2>2. CASE Launch(s) \/ Shutdown(s) \/ Crash(s)
    BY <2>1, <2>2 DEF Launch, Shutdown, Crash, Down, fileVars
  <2>3. ASSUME UNCHANGED <<pc, job, journal>> PROVE Goal
    BY <2>0, <2>3
  <2>4. ASSUME NEW d \in Decision, PreviewUnseen(s, d) PROVE Goal
    BY <2>3, <2>4 DEF PreviewUnseen, Preview, fileVars
  <2>5. ASSUME NEW t \in Tab, NEW d \in Decision, PreviewShown(s, t, d) PROVE Goal
    BY <2>3, <2>5 DEF PreviewShown, Preview, fileVars
  <2>6. ASSUME NEW t \in Tab, Cancel(s, t) \/ ApplyStale(s, t) PROVE Goal
    BY <2>3, <2>6 DEF Cancel, ApplyStale, fileVars
  <2>7. ASSUME NEW t \in Tab, Apply(s, t) PROVE Goal
    BY <2>1, <2>7 DEF Apply, Commit, fileVars
  <2>8. CASE SetReviewers(s)
    BY <2>1, <2>8 DEF SetReviewers, Commit, fileVars
  <2>9. CASE Check(s) \/ Recheck(s)
    BY <2>1, <2>9 DEF Check, Recheck, fileVars
  <2>10. CASE Replace(s) \/ Verify(s)
    BY <2>1, <2>10 DEF Replace, Verify, fileVars
  <2>11. CASE CommitRaises(s) \/ JournalWarns(s)
    BY <2>1, <2>11 DEF CommitRaises, JournalWarns, Acknowledge, Answered, fileVars
  <2>12. CASE JournalRead(s)
    <3>1. /\ UNCHANGED journal /\ pc' = [pc EXCEPT ![s] = "compare"]
          /\ job'[s].id = journal.id /\ job'[s].entries = journal.entries
          /\ s # o => job'[o] = job[o]
      BY <2>12 DEF JournalRead, fileVars, Jobs
    <3> QED
      BY <2>0, <3>1
  <2>13. CASE JournalCompare(s)
    BY <2>0, <2>13 DEF JournalCompare, fileVars
  <2>14. CASE JournalAppend(s)
    <3>1. /\ pc' = [pc EXCEPT ![s] = "idle"] /\ (s # o => job'[o] = job[o])
          /\ journal'.id = journal.id + 1
          /\ ~ overlapped' => \A q \in Server \ {s} : pc[q] # "append"
      BY <2>14 DEF JournalAppend, Acknowledge, Answered
    <3>2. CASE s = o
      BY <3>1, <3>2
    <3>3. CASE s # o
      <4>1. job[o].id \in Nat
        BY DEF Jobs
      <4> QED
        BY <2>0, <3>1, <3>3, <4>1
    <3> QED
      BY <3>2, <3>3
  <2>15. CASE ExportBegin(s) \/ ExportEnd(s)
    BY <2>1, <2>15 DEF ExportBegin, ExportEnd
  <2> QED
    BY <1>2, StepCases, <2>2, <2>4, <2>5, <2>6, <2>7, <2>8, <2>9, <2>10, <2>11,
       <2>12, <2>13, <2>14, <2>15
<1> QED
  BY <1>1, <1>2 DEF ServerNext

\* Without an overlap the content of the file is journaled, warned about, or
\* the business of an unfinished commit.
LEMMA FileAccountedStep ==
  ServerTypeOK /\ JournalKnown /\ FileAccounted /\ [ServerNext]_serverAllVars
    => FileAccounted'
<1> SUFFICES ASSUME ServerTypeOK, JournalKnown, FileAccounted,
                    [ServerNext]_serverAllVars, ~ overlapped'
             PROVE  \/ file'.content \in journal'.entries \cup gaps'
                    \/ \E o \in Server :
                         pc'[o] \in Unfinished /\ job'[o].state = file'.content
  BY DEF FileAccounted
<1> DEFINE Goal ==
      \/ file'.content \in journal'.entries \cup gaps'
      \/ \E o \in Server : pc'[o] \in Unfinished /\ job'[o].state = file'.content
<1> USE DEF Unfinished, Journaling, Writing
<1>0. /\ pc \in [Server -> {"down", "idle", "export"} \cup Writing \cup Journaling]
      /\ job \in [Server -> Jobs]
  BY DEF ServerTypeOK, Jobs
<1>1. CASE UNCHANGED serverAllVars
  BY <1>1 DEF serverAllVars, serverVars, fileVars, history, FileAccounted
<1>2. ASSUME NEW s \in Server, ServerStep(s) PROVE Goal
  <2> USE <1>0
  <2>0. overlapped => overlapped'
    BY <1>2 DEF ServerStep, Launch, Shutdown, Crash, PreviewUnseen, PreviewShown,
       Preview, Cancel, Apply, ApplyStale, Commit, SetReviewers, Check, Recheck,
       Replace, Verify, CommitRaises, JournalRead, JournalCompare, JournalAppend,
       JournalWarns, ExportBegin, ExportEnd, history
  <2>1. \/ file.content \in journal.entries \cup gaps
        \/ \E o \in Server : pc[o] \in Unfinished /\ job[o].state = file.content
    BY <2>0 DEF FileAccounted
  <2>2. ASSUME UNCHANGED file, gaps \cup journal.entries \subseteq gaps' \cup journal'.entries,
               \A o \in Server : pc[o] \in Unfinished =>
                 \/ pc'[o] \in Unfinished /\ job'[o].state = job[o].state
                 \/ job[o].state \in gaps' \cup journal'.entries
        PROVE  Goal
    BY <2>1, <2>2
  <2>3. ASSUME UNCHANGED <<file, journal, gaps>>,
               \A o \in Server \ {s} : UNCHANGED <<pc[o], job[o]>>,
               \/ pc[s] \notin Unfinished
               \/ pc'[s] \in Unfinished /\ job'[s].state = job[s].state
        PROVE  Goal
    BY <2>2, <2>3
  <2>4. CASE Launch(s)
    BY <2>3, <2>4 DEF Launch, fileVars, history
  <2>5. CASE Shutdown(s)
    BY <2>3, <2>5 DEF Shutdown, Down, fileVars, history
  <2>6. CASE Crash(s)
    <3>1. /\ UNCHANGED <<file, journal>> /\ gaps' = gaps \cup Unjournaled(s)
          /\ \A o \in Server \ {s} : UNCHANGED <<pc[o], job[o]>>
      BY <2>6 DEF Crash, Down, fileVars
    <3> QED
      BY <2>2, <3>1 DEF Unjournaled
  <2>7. ASSUME UNCHANGED <<pc, job, file, journal, gaps>> PROVE Goal
    BY <2>2, <2>7
  <2>8. ASSUME NEW d \in Decision, PreviewUnseen(s, d) PROVE Goal
    BY <2>7, <2>8 DEF PreviewUnseen, Preview, fileVars, history
  <2>9. ASSUME NEW t \in Tab, NEW d \in Decision, PreviewShown(s, t, d) PROVE Goal
    BY <2>7, <2>9 DEF PreviewShown, Preview, fileVars, history
  <2>10. ASSUME NEW t \in Tab, Cancel(s, t) \/ ApplyStale(s, t) PROVE Goal
    BY <2>7, <2>10 DEF Cancel, ApplyStale, fileVars, history
  <2>11. ASSUME NEW t \in Tab, Apply(s, t) PROVE Goal
    BY <2>3, <2>11 DEF Apply, Commit, fileVars, history
  <2>12. CASE SetReviewers(s)
    BY <2>3, <2>12 DEF SetReviewers, Commit, fileVars, history
  <2>13. CASE Check(s) \/ Recheck(s)
    BY <2>3, <2>13 DEF Check, Recheck, fileVars, history
  <2>14. CASE Replace(s)
    <3>1. /\ file'.content = job[s].state /\ job'[s].state = job[s].state
          /\ pc'[s] = "verify"
      BY <2>14 DEF Replace, Jobs
    <3> QED
      BY <3>1
  <2>15. CASE Verify(s)
    BY <2>3, <2>15 DEF Verify, fileVars, history
  <2>16. ASSUME Answered(s)
         PROVE  \A o \in Server \ {s} : UNCHANGED <<pc[o], job[o]>>
    BY <2>16 DEF Answered
  <2>17. CASE CommitRaises(s)
    <3>1. UNCHANGED <<file, journal>> /\ gaps' = gaps \cup Unjournaled(s)
      BY <2>17 DEF CommitRaises, fileVars
    <3> QED
      BY <2>2, <2>16, <2>17, <3>1 DEF CommitRaises, Unjournaled
  <2>18. CASE JournalRead(s)
    <3>1. /\ UNCHANGED <<file, journal, gaps>> /\ pc'[s] = "compare"
          /\ \A o \in Server \ {s} : UNCHANGED <<pc[o], job[o]>>
          /\ job'[s].state = job[s].state
      BY <2>18 DEF JournalRead, fileVars, history, Jobs
    <3> QED
      BY <2>3, <3>1
  <2>19. CASE JournalCompare(s)
    BY <2>3, <2>19 DEF JournalCompare, fileVars, history
  <2>20. CASE JournalAppend(s)
    <3>1. /\ UNCHANGED <<file, gaps>>
          /\ journal'.entries = job[s].entries \cup {job[s].state}
      BY <2>20 DEF JournalAppend
    <3>2. job[s].entries = journal.entries
      BY <2>0, <2>20 DEF JournalAppend, JournalKnown
    <3> QED
      BY <2>2, <2>16, <2>20, <3>1, <3>2 DEF JournalAppend, Acknowledge
  <2>21. CASE JournalWarns(s)
    <3>1. UNCHANGED <<file, journal>> /\ gaps' = gaps \cup {job[s].state}
      BY <2>21 DEF JournalWarns, fileVars
    <3> QED
      BY <2>2, <2>16, <2>21, <3>1 DEF JournalWarns, Acknowledge
  <2>22. CASE ExportBegin(s) \/ ExportEnd(s)
    BY <2>3, <2>22 DEF ExportBegin, ExportEnd, Exportable, history
  <2> QED
    BY <1>2, StepCases, <2>4, <2>5, <2>6, <2>8, <2>9, <2>10, <2>11, <2>12, <2>13,
       <2>14, <2>15, <2>17, <2>18, <2>19, <2>20, <2>21, <2>22
<1> QED
  BY <1>1, <1>2 DEF ServerNext

\* When no commit is under way, the journal has the state of the working file,
\* unless a crash, an error or a warning excused it, or two servers overlapped
\* (ReviewServer.JournalKeeps).
THEOREM JournalKeepsUp == ServerSpec => []JournalKeeps
<1> DEFINE Kept == ServerTypeOK /\ JournalKnown /\ FileAccounted
<1>1. ServerInit => Kept
  <2>1. ServerInit => JournalKnown /\ FileAccounted
    BY DEF ServerInit, JournalKnown, FileAccounted
  <2> QED
    BY <2>1, TypeInit
<1>2. Kept /\ [ServerNext]_serverAllVars => Kept'
  BY TypeStep, JournalKnownStep, FileAccountedStep
<1>3. Kept => JournalKeeps
  BY DEF FileAccounted, JournalKeeps, Unfinished
<1> QED
  BY <1>1, <1>2, <1>3, PTL DEF ServerSpec

-----------------------------------------------------------------------------
(* The export.                                                             *)

\* What a step does to the export, in terms of the server that takes it.
LEMMA ExportStep ==
  ASSUME ServerTypeOK, ExportWritten, [ServerNext]_serverAllVars
  PROVE  /\ ExportWritten'
         /\ export.state = "whole" => export' = export
<1> USE DEF Writing, Journaling, Partial, Absent
<1>0. /\ pc \in [Server -> {"down", "idle", "export"} \cup Writing \cup Journaling]
      /\ mem \in [Server -> State] /\ crashes \in Nat
  BY ServerAssumption DEF ServerTypeOK
<1>1. ASSUME UNCHANGED <<export, crashes>>,
             \A o \in Server : pc'[o] = "export" <=> pc[o] = "export",
             \A o \in Server : pc[o] = "export" => mem'[o] = mem[o]
      PROVE  /\ ExportWritten'
             /\ export.state = "whole" => export' = export
  BY <1>1 DEF ExportWritten, Complete
<1>2. CASE UNCHANGED serverAllVars
  BY <1>1, <1>2 DEF serverAllVars, serverVars, fileVars, history
<1>3. ASSUME NEW s \in Server, ServerStep(s)
      PROVE  /\ ExportWritten'
             /\ export.state = "whole" => export' = export
  <2> USE <1>0
  <2>1. CASE Launch(s) \/ Shutdown(s)
    BY <1>1, <2>1 DEF Launch, Shutdown, Down, fileVars, history
  <2>2. CASE Crash(s)
    <3>1. /\ UNCHANGED export /\ crashes' # 0 /\ pc'[s] = "down"
          /\ \A o \in Server \ {s} : UNCHANGED <<pc[o], mem[o]>>
      BY <2>2 DEF Crash, Down, fileVars
    <3> QED
      BY <3>1 DEF ExportWritten, Complete
  <2>3. CASE \/ \E d \in Decision : PreviewUnseen(s, d)
             \/ \E t \in Tab, d \in Decision : PreviewShown(s, t, d)
    BY <1>1, <2>3 DEF PreviewUnseen, PreviewShown, Preview, fileVars, history
  <2>4. CASE \E t \in Tab : Cancel(s, t) \/ ApplyStale(s, t) \/ Apply(s, t)
    BY <1>1, <2>4 DEF Cancel, ApplyStale, Apply, Commit, fileVars, history
  <2>5. CASE SetReviewers(s) \/ Check(s) \/ Recheck(s) \/ Replace(s)
    BY <1>1, <2>5 DEF SetReviewers, Commit, Check, Recheck, Replace, fileVars, history
  <2>6. CASE Verify(s) \/ JournalRead(s) \/ JournalCompare(s)
    BY <1>1, <2>6 DEF Verify, JournalRead, JournalCompare, fileVars, history
  <2>7. CASE CommitRaises(s) \/ JournalAppend(s) \/ JournalWarns(s)
    BY <1>1, <2>7 DEF CommitRaises, JournalAppend, JournalWarns, Acknowledge, Answered,
       fileVars
  <2>8. CASE ExportBegin(s)
    <3>1. /\ export.state = Absent /\ Complete(mem[s])
          /\ export' = [content |-> {}, state |-> Partial]
          /\ pc' = [pc EXCEPT ![s] = "export"] /\ UNCHANGED <<mem, crashes>>
      BY <2>8 DEF ExportBegin, Exportable, history
    <3> QED
      BY <3>1 DEF ExportWritten, Complete
  <2>9. CASE ExportEnd(s)
    <3>1. /\ pc[s] = "export" /\ pc' = [pc EXCEPT ![s] = "idle"]
          /\ UNCHANGED <<mem, crashes>>
          /\ \/ export' = [content |-> mem[s], state |-> "whole"]
             \/ export' = [content |-> {}, state |-> Absent]
      BY <2>9 DEF ExportEnd, history
    <3> QED
      BY <3>1 DEF ExportWritten, Complete
  <2> QED
    BY <1>3, StepCases, <2>1, <2>2, <2>3, <2>4, <2>5, <2>6, <2>7, <2>8, <2>9
<1> QED
  BY <1>2, <1>3 DEF ServerNext

\* An export is written once, from a complete selection, and never changed;
\* only a crash leaves part of one (ReviewServer.ExportFinal).
THEOREM ExportsAreFinal == ServerSpec => ExportFinal
<1> DEFINE Kept == ServerTypeOK /\ ExportWritten
<1>1. ServerInit => Kept
  <2>1. ServerInit => ExportWritten
    BY DEF ServerInit, ExportWritten, Partial, Absent
  <2> QED
    BY <2>1, TypeInit
<1>2. Kept /\ [ServerNext]_serverAllVars => Kept'
  BY TypeStep, ExportStep
<1>3. Kept /\ Kept' /\ [ServerNext]_serverAllVars =>
        [/\ export.state = "whole" => export' = export
         /\ export'.state = "whole" => Complete(export'.content)
         /\ export.state = Partial /\ crashes = 0 =>
              \E s \in Server : pc[s] = "export"]_serverAllVars
  BY ExportStep DEF ExportWritten, Complete
<1> QED
  BY <1>1, <1>2, <1>3, PTL DEF ServerSpec, ExportFinal
=============================================================================
