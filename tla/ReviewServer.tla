---------------------------- MODULE ReviewServer ----------------------------
(***************************************************************************)
(* Review servers over one working file, one journal and one export, with  *)
(* browser tabs that preview and confirm: ReviewSession's commit and       *)
(* export, and the request handler's revision checks.  A server answers    *)
(* one request at a time; several may run, each with its own memory.       *)
(*                                                                         *)
(* A working state is the set of decisions taken so far: what an action    *)
(* clears is ReviewSelection's, and here every decision only adds.  The    *)
(* first commit names the reviewers, so no decisions is no working file.   *)
(***************************************************************************)
EXTENDS Naturals

CONSTANTS
  Server, Tab,
  Decision,     \* what a reviewer may decide
  Required,     \* the decisions a complete selection needs
  Signed,       \* the decision that names the reviewers
  None,         \* no preview, no tab
  MaxFiles,     \* bound: files ever put in place of the working file
  MaxCrashes    \* bound: crashes

ASSUME ServerAssumption ==
  /\ Signed \notin Decision /\ Required \subseteq Decision
  /\ None \notin Tab
  /\ MaxFiles \in Nat /\ MaxCrashes \in Nat

VARIABLES
  file,      \* SELECTION_WORKING.json: content, and identity (an inode)
  journal,   \* REVIEW_ACTIONS.jsonl: states of its entries, and identity
  export,    \* SELECTION.json
  pc,        \* per server: where its request stands
  mem,       \* per server: _state, and _working_raw if there is a file
  revision,  \* per server: state_revision
  preview,   \* per server: the pending preview
  confirm,   \* per server and tab: the preview the dialog shows
  job,       \* per server: the commit under way
  crashes,
  acknowledged,   \* history: decisions whose apply was answered
  gaps,           \* history: states whose journal entry failed or never came
  overlapped      \* history: two servers replaced one file at the same time

fileVars == <<file, journal, export>>
serverVars == <<pc, mem, revision, preview, confirm, job>>
history == <<acknowledged, gaps, overlapped>>
serverAllVars == <<fileVars, serverVars, crashes, history>>

State == SUBSET (Decision \cup {Signed})
Complete(state) == Required \cup {Signed} \subseteq state

NoPreview == [decision |-> None, revision |-> 0, state |-> {}]
NoJob == [state |-> {}, tab |-> None, id |-> 0, entries |-> {}]
Partial == "partial"
Absent == "absent"

Writing == {"check", "recheck", "replace", "verify"}
Journaling == {"read", "compare", "append"}

Previews ==
  [decision : Decision \cup {None}, revision : Nat, state : State]

ServerTypeOK ==
  /\ file \in [content : State, id : 0..MaxFiles]
  /\ journal \in [entries : SUBSET State, id : Nat]
  /\ export \in [content : State, state : {Absent, Partial, "whole"}]
  /\ pc \in [Server -> {"down", "idle", "export"} \cup Writing \cup Journaling]
  /\ mem \in [Server -> State]
  /\ revision \in [Server -> Nat]
  /\ preview \in [Server -> Previews]
  /\ confirm \in [Server -> [Tab -> Previews]]
  /\ job \in [Server -> [state : State, tab : Tab \cup {None}, id : Nat,
                         entries : SUBSET State]]
  /\ crashes \in 0..MaxCrashes
  /\ acknowledged \in State
  /\ gaps \in SUBSET State
  /\ overlapped \in BOOLEAN
  /\ \A s \in Server : \A t \in Tab : confirm[s][t].revision <= revision[s]

ServerInit ==
  /\ \E content \in {{}, {Signed}} : file = [content |-> content, id |-> 0]
  /\ journal = [entries |-> {file.content}, id |-> 0]
  /\ export = [content |-> {}, state |-> Absent]
  /\ pc = [s \in Server |-> "down"]
  /\ mem = [s \in Server |-> {}]
  /\ revision = [s \in Server |-> 0]
  /\ preview = [s \in Server |-> NoPreview]
  /\ confirm = [s \in Server |-> [t \in Tab |-> NoPreview]]
  /\ job = [s \in Server |-> NoJob]
  /\ crashes = 0
  /\ acknowledged = {} /\ gaps = {} /\ overlapped = FALSE

-----------------------------------------------------------------------------
(* Launch and end of a server; its tabs hold its token and end with it.    *)

Launch(s) ==
  /\ pc[s] = "down"
  /\ pc' = [pc EXCEPT ![s] = "idle"]
  /\ mem' = [mem EXCEPT ![s] = file.content]
  /\ UNCHANGED <<fileVars, revision, preview, confirm, job, crashes, history>>

Down(s) ==
  /\ pc' = [pc EXCEPT ![s] = "down"]
  /\ mem' = [mem EXCEPT ![s] = {}]
  /\ revision' = [revision EXCEPT ![s] = 0]
  /\ preview' = [preview EXCEPT ![s] = NoPreview]
  /\ confirm' = [confirm EXCEPT ![s] = [t \in Tab |-> NoPreview]]
  /\ job' = [job EXCEPT ![s] = NoJob]

Shutdown(s) ==
  /\ pc[s] = "idle"
  /\ Down(s)
  /\ UNCHANGED <<fileVars, crashes, history>>

\* A commit in the file whose entry will never be written leaves a gap.
Unjournaled(s) ==
  IF pc[s] \in {"verify"} \cup Journaling THEN {job[s].state} ELSE {}

Crash(s) ==
  /\ pc[s] # "down" /\ crashes < MaxCrashes
  /\ crashes' = crashes + 1
  /\ Down(s)
  /\ gaps' = gaps \cup Unjournaled(s)
  /\ UNCHANGED <<fileVars, acknowledged, overlapped>>

-----------------------------------------------------------------------------
(* Requests.  A request with another revision than the session's is        *)
(* answered 409 and changes nothing; the tab then drops its preview.       *)

Pending(s, d) ==
  [decision |-> d, revision |-> revision[s], state |-> mem[s] \cup {d}]

Preview(s, d) ==
  /\ pc[s] = "idle"
  /\ Signed \in mem[s]
  /\ preview' = [preview EXCEPT ![s] = Pending(s, d)]
  /\ UNCHANGED <<fileVars, pc, mem, revision, job, crashes, history>>

PreviewShown(s, t, d) ==
  Preview(s, d) /\ confirm' = [confirm EXCEPT ![s][t] = Pending(s, d)]

\* The reply is lost, or the tab that asked is closed.
PreviewUnseen(s, d) == Preview(s, d) /\ UNCHANGED confirm

Cancel(s, t) ==
  /\ confirm[s][t] # NoPreview /\ job[s].tab # t
  /\ confirm' = [confirm EXCEPT ![s][t] = NoPreview]
  /\ UNCHANGED <<fileVars, pc, mem, revision, preview, job, crashes, history>>

Commit(s, state, t) ==
  /\ file.id < MaxFiles
  /\ pc' = [pc EXCEPT ![s] = "check"]
  /\ job' = [job EXCEPT ![s] = [NoJob EXCEPT !.state = state, !.tab = t]]
  /\ UNCHANGED <<fileVars, mem, revision, preview, confirm, crashes,
                 history>>

\* set_reviewers needs no preview.
SetReviewers(s) == pc[s] = "idle" /\ Commit(s, mem[s] \cup {Signed}, None)

\* Mutant of Fresh: the hash is not compared.
SameRevision(s, t) ==
  /\ preview[s] # NoPreview
  /\ confirm[s][t].revision = revision[s]

\* apply: hash and revision are those of the pending preview and the session.
Fresh(s, t) ==
  /\ preview[s] # NoPreview
  /\ confirm[s][t] = preview[s]
  /\ confirm[s][t].revision = revision[s]

Apply(s, t) ==
  /\ pc[s] = "idle" /\ confirm[s][t] # NoPreview
  /\ Fresh(s, t)
  /\ Commit(s, preview[s].state, t)

ApplyStale(s, t) ==
  /\ pc[s] = "idle" /\ confirm[s][t] # NoPreview
  /\ ~ Fresh(s, t)
  /\ confirm' = [confirm EXCEPT ![s][t] = NoPreview]
  /\ UNCHANGED <<fileVars, pc, mem, revision, preview, job, crashes,
                 history>>

\* The reply, also a lost one, closes the tab's dialog.
Answered(s) ==
  /\ pc' = [pc EXCEPT ![s] = "idle"]
  /\ job' = [job EXCEPT ![s] = NoJob]
  /\ confirm' = [c \in Server |-> [t \in Tab |->
       IF c = s /\ t = job[s].tab THEN NoPreview ELSE confirm[c][t]]]

-----------------------------------------------------------------------------
(* _commit_working_state: _atomic_replace_regular, then memory, then the   *)
(* journal.                                                                *)

\* Mutant of Expected: a file is replaced whatever it holds.
ExpectedExists(s) == (mem[s] = {}) = (file.content = {})

\* The working file holds the bytes this session last saw.
Expected(s) == file.content = mem[s]

Check(s) ==
  /\ pc[s] = "check" /\ Expected(s)
  /\ pc' = [pc EXCEPT ![s] = "recheck"]
  /\ job' = [job EXCEPT ![s].id = file.id]
  /\ UNCHANGED <<fileVars, mem, revision, preview, confirm, crashes,
                 history>>

Recheck(s) ==
  /\ pc[s] = "recheck" /\ Expected(s) /\ file.id = job[s].id
  /\ pc' = [pc EXCEPT ![s] = "replace"]
  /\ UNCHANGED <<fileVars, mem, revision, preview, confirm, job,
                 crashes, history>>

Replace(s) ==
  /\ pc[s] = "replace" /\ file.id < MaxFiles
  /\ file' = [content |-> job[s].state, id |-> file.id + 1]
  /\ job' = [job EXCEPT ![s].id = file.id + 1]
  /\ pc' = [pc EXCEPT ![s] = "verify"]
  /\ overlapped' = (overlapped \/ \E o \in Server \ {s} : pc[o] = "replace")
  /\ UNCHANGED <<journal, export, mem, revision, preview, confirm,
                 crashes, acknowledged, gaps>>

Verify(s) ==
  /\ pc[s] = "verify" /\ file = [content |-> job[s].state, id |-> job[s].id]
  /\ pc' = [pc EXCEPT ![s] = "read"]
  /\ mem' = [mem EXCEPT ![s] = job[s].state]
  /\ revision' = [revision EXCEPT ![s] = @ + 1]
  /\ preview' = [preview EXCEPT ![s] = NoPreview]
  /\ UNCHANGED <<fileVars, confirm, job, crashes, history>>

\* A check that fails, or an operating-system error: the request raises, and
\* what os.replace did stays.
CommitRaises(s) ==
  /\ pc[s] \in Writing
  /\ Answered(s)
  /\ gaps' = gaps \cup Unjournaled(s)
  /\ UNCHANGED <<fileVars, mem, revision, preview, crashes,
                 acknowledged, overlapped>>

Acknowledge(s) ==
  /\ Answered(s)
  /\ acknowledged' = acknowledged \cup job[s].state

JournalRead(s) ==
  /\ pc[s] = "read"
  /\ pc' = [pc EXCEPT ![s] = "compare"]
  /\ job' = [job EXCEPT ![s].entries = journal.entries, ![s].id = journal.id]
  /\ UNCHANGED <<fileVars, mem, revision, preview, confirm, crashes,
                 history>>

\* Mutant of JournalCompare: what was read is written back blindly.
JournalTrust(s) ==
  /\ pc[s] = "compare"
  /\ pc' = [pc EXCEPT ![s] = "append"]
  /\ UNCHANGED <<fileVars, mem, revision, preview, confirm, job,
                 crashes, history>>

\* The journal is still the one read.
JournalCompare(s) ==
  /\ pc[s] = "compare" /\ journal.id = job[s].id
  /\ pc' = [pc EXCEPT ![s] = "append"]
  /\ UNCHANGED <<fileVars, mem, revision, preview, confirm, job,
                 crashes, history>>

JournalAppend(s) ==
  /\ pc[s] = "append"
  /\ journal' = [entries |-> job[s].entries \cup {job[s].state},
                 id |-> journal.id + 1]
  /\ Acknowledge(s)
  /\ overlapped' = (overlapped \/ \E o \in Server \ {s} : pc[o] = "append")
  /\ UNCHANGED <<file, export, mem, revision, preview, crashes, gaps>>

\* The journal fails: only audit_warning tells, and nothing tries again.
JournalWarns(s) ==
  /\ pc[s] \in Journaling
  /\ Acknowledge(s)
  /\ gaps' = gaps \cup {job[s].state}
  /\ UNCHANGED <<fileVars, mem, revision, preview, crashes, overlapped>>

-----------------------------------------------------------------------------
(* export: write_exact_output creates the file exclusively.                *)

Exportable(s) ==
  pc[s] = "idle" /\ Complete(mem[s]) /\ file.content = mem[s]

\* Mutant of ExportBegin: an existing export is written over.
ExportOver(s) ==
  /\ Exportable(s)
  /\ export' = [content |-> {}, state |-> Partial]
  /\ pc' = [pc EXCEPT ![s] = "export"]
  /\ UNCHANGED <<file, journal, mem, revision, preview, confirm, job,
                 crashes, history>>

\* An export that exists is returned if identical and refused otherwise;
\* either way nothing changes.
ExportBegin(s) ==
  /\ Exportable(s)
  /\ export.state = Absent
  /\ export' = [content |-> {}, state |-> Partial]
  /\ pc' = [pc EXCEPT ![s] = "export"]
  /\ UNCHANGED <<file, journal, mem, revision, preview, confirm, job,
                 crashes, history>>

ExportEnd(s) ==
  /\ pc[s] = "export"
  /\ export' \in {[content |-> mem[s], state |-> "whole"],
                  [content |-> {}, state |-> Absent]}
  /\ pc' = [pc EXCEPT ![s] = "idle"]
  /\ UNCHANGED <<file, journal, mem, revision, preview, confirm, job,
                 crashes, history>>

-----------------------------------------------------------------------------
ServerStep(s) ==
  \/ Launch(s) \/ Shutdown(s) \/ Crash(s)
  \/ \E d \in Decision : PreviewUnseen(s, d)
  \/ \E t \in Tab : \/ \E d \in Decision : PreviewShown(s, t, d)
                    \/ Cancel(s, t) \/ Apply(s, t) \/ ApplyStale(s, t)
  \/ SetReviewers(s)
  \/ Check(s) \/ Recheck(s) \/ Replace(s) \/ Verify(s) \/ CommitRaises(s)
  \/ JournalRead(s) \/ JournalCompare(s) \/ JournalAppend(s) \/ JournalWarns(s)
  \/ ExportBegin(s) \/ ExportEnd(s)

ServerNext == \E s \in Server : ServerStep(s)

ServerSpec == ServerInit /\ [][ServerNext]_serverAllVars

-----------------------------------------------------------------------------
(* What must hold.                                                         *)

\* An acknowledged decision stays in the working file whichever server writes
\* next, unless two servers stood between their last check and os.replace at
\* the same time: comparing bytes and identity leaves only that window.
AcknowledgedSurvives == ~ overlapped => acknowledged \subseteq file.content

\* An apply puts in place exactly the state its reviewer was shown, although
\* another tab's preview may have replaced the pending one.
ConfirmedIsCommitted ==
  [][\A s \in Server :
       /\ pc[s] = "replace" /\ pc'[s] = "verify" /\ job[s].tab # None
       => file'.content = confirm[s][job[s].tab].state]_serverAllVars

\* The audit journal misses a state of the working file only where a crash, an
\* error or a warning says so, or in that window: servers do not otherwise
\* lose each other's entries.
JournalKeeps ==
  ~ overlapped /\ (\A s \in Server : pc[s] \notin {"verify"} \cup Journaling) 
    => file.content \in journal.entries \cup gaps

\* An export is written once, whole and complete, and is never changed; only a
\* crash leaves part of one.
ExportFinal ==
  [][/\ export.state = "whole" => export' = export
     /\ export'.state = "whole" => Complete(export'.content)
     /\ export.state = Partial /\ crashes = 0 =>
          \E s \in Server : pc[s] = "export"]_serverAllVars
=============================================================================
