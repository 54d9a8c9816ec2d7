------------------------ MODULE ServerBootstrapProofs ------------------------
EXTENDS ServerBootstrap, TLAPS, FiniteSetTheorems

-----------------------------------------------------------------------------
(* Records of jobs and requests.                                           *)

LEMMA JobType ==
  ASSUME NEW op \in JobOps, NEW d \in Drafts \union {0}, NEW b \in Values \union {"none"},
         NEW s \in JobSteps
  PROVE  Job(op, d, b, s) \in JobRecords
BY DEF Job, NoJob, JobRecords, JobOps, JobSteps, Unread

LEMMA JobFields ==
  ASSUME NEW op, NEW d, NEW b, NEW s
  PROVE  /\ Job(op, d, b, s).op = op /\ Job(op, d, b, s).draft = d
         /\ Job(op, d, b, s).boot = b /\ Job(op, d, b, s).step = s
         /\ Job(op, d, b, s).keep = "none" /\ Job(op, d, b, s).aborted = FALSE
BY DEF Job, NoJob

LEMMA NoJobType == NoJob \in JobRecords
BY DEF NoJob, JobRecords, JobOps, JobSteps, Unread

LEMMA NoBundleType == NoBundle \in Bundles
BY BoundsAssumption DEF NoBundle, Bundles, Profiles

LEMMA NoCallType == NoCall \in CallRecords
BY NoBundleType DEF NoCall, CallRecords, CallOps, CallSteps

LEMMA StartedType ==
  ASSUME jobs \in [Slots -> JobRecords], NEW job \in JobRecords, Started(job)
  PROVE  jobs' \in [Slots -> JobRecords]
BY DEF Started

LEMMA EndedType ==
  ASSUME jobs \in [Slots -> JobRecords], NEW j \in Slots
  PROVE  Ended(j) \in [Slots -> JobRecords]
BY NoJobType DEF Ended

LEMMA SuspendedType ==
  ASSUME calls \in [Calls -> CallRecords], NEW call \in CallRecords, Suspended(call)
  PROVE  calls' \in [Calls -> CallRecords]
BY DEF Suspended

LEMMA ResumedType ==
  ASSUME calls \in [Calls -> CallRecords], NEW c \in Calls
  PROVE  Resumed(c) \in [Calls -> CallRecords]
BY NoCallType DEF Resumed

LEMMA DraftsType ==
  ASSUME draft \in [Drafts -> Statuses]
  PROVE  /\ Invalidated \in [Drafts -> Statuses]
         /\ \A d \in Drafts, s \in Statuses :
              /\ Written(d, s) \in [Drafts -> Statuses]
              /\ [draft EXCEPT ![d] = s] \in [Drafts -> Statuses]
BY DEF Invalidated, Written, Statuses, OpenStatuses

LEMMA StateWrittenType ==
  ASSUME state \in States, NEW s \in States PROVE StateWritten(s) \in States
BY DEF StateWritten

-----------------------------------------------------------------------------
(* Types.                                                                  *)

LEMMA InitType == BootstrapInit => BootstrapTypeOK
<1> SUFFICES ASSUME BootstrapInit PROVE BootstrapTypeOK
  OBVIOUS
<1>1. NumDrafts \in Nat /\ MaxProfiles \in Nat /\ MaxRestarts \in Nat
  BY BoundsAssumption
<1>2. NoBundle \in Bundles
  BY NoBundleType
<1> QED
  BY <1>1, <1>2, NoJobType, NoCallType
  DEF BootstrapInit, BootstrapTypeOK, States, Statuses, Profiles

LEMMA JobRequestsType ==
  ASSUME BootstrapTypeOK,
         \/ RemoveRequest \/ ClientRequest
         \/ \E v \in Values : UpdateRequest(v)
         \/ \E j \in Slots : Cancel(j)
  PROVE  BootstrapTypeOK'
<1>1. jobs \in [Slots -> JobRecords]
  BY DEF BootstrapTypeOK
<1>2. jobs' \in [Slots -> JobRecords]
  <2>1. CASE RemoveRequest
    <3>1. Job("remove", 0, "none", "writing") \in JobRecords
      BY JobType DEF JobOps, JobSteps
    <3> QED
      BY <1>1, <2>1, <3>1, StartedType DEF RemoveRequest
  <2>2. CASE ClientRequest
    <3>1. Job("client", 0, "none", "writing") \in JobRecords
      BY JobType DEF JobOps, JobSteps
    <3> QED
      BY <1>1, <2>2, <3>1, StartedType DEF ClientRequest
  <2>3. ASSUME NEW v \in Values, UpdateRequest(v) PROVE jobs' \in [Slots -> JobRecords]
    <3>1. Job("update", 0, v, "reading") \in JobRecords
      BY JobType DEF JobOps, JobSteps
    <3> QED
      BY <1>1, <2>3, <3>1, StartedType DEF UpdateRequest
  <2>4. ASSUME NEW j \in Slots, Cancel(j) PROVE jobs' \in [Slots -> JobRecords]
    <3>1. [jobs[j] EXCEPT !.aborted = TRUE] \in JobRecords
      BY <1>1 DEF JobRecords
    <3>2. jobs' = [jobs EXCEPT ![j] = [jobs[j] EXCEPT !.aborted = TRUE]]
      BY <1>1, <2>4 DEF Cancel
    <3> QED
      BY <1>1, <3>1, <3>2
  <2> QED
    BY <2>1, <2>2, <2>3, <2>4
<1>3. UNCHANGED <<rowVars, profile, calls, runs, restarts>>
  BY DEF RemoveRequest, ClientRequest, UpdateRequest, Cancel
<1> QED
  BY <1>2, <1>3 DEF BootstrapTypeOK, rowVars

LEMMA UpdateStepsType ==
  ASSUME TypeInv, NEW j \in Slots,
         UpdateEnds(j) \/ UpdateCompares(j) \/ UpdateSaves(j) \/ RemoveDeletes(j)
         \/ OtherEnds(j)
  PROVE  BootstrapTypeOK'
<1> USE DEF TypeInv
<1>1. jobs \in [Slots -> JobRecords] /\ jobs[j] \in JobRecords
  BY DEF BootstrapTypeOK
<1>2. Ended(j) \in [Slots -> JobRecords]
  BY <1>1, EndedType
<1>3. CASE UpdateEnds(j)
  BY <1>2, <1>3 DEF UpdateEnds, BootstrapTypeOK, rowVars
<1>4. CASE UpdateCompares(j)
  <2>1. PICK keep \in States :
          jobs' = [jobs EXCEPT ![j].step = "writing", ![j].keep = keep]
    BY <1>4 DEF UpdateCompares, BootstrapTypeOK, States
  <2>2. jobs' \in [Slots -> JobRecords]
    BY <1>1, <2>1 DEF JobRecords, JobSteps
  <2> QED
    BY <1>4, <2>2 DEF UpdateCompares, BootstrapTypeOK, rowVars
<1>5. CASE UpdateSaves(j)
  <2>1. draft' \in [Drafts -> Statuses]
    BY <1>5, DraftsType DEF UpdateSaves, BootstrapTypeOK
  <2>2. state' \in States /\ config' \in Values \union {Removed}
    BY <1>5 DEF UpdateSaves, JobsReady
  <2> QED
    BY <1>2, <1>5, <2>1, <2>2 DEF UpdateSaves, BootstrapTypeOK
<1>6. CASE RemoveDeletes(j)
  BY <1>2, <1>6 DEF RemoveDeletes, BootstrapTypeOK, Statuses
<1>7. CASE OtherEnds(j)
  <2>1. profile' \in Profiles
    BY <1>7, BoundsAssumption DEF OtherEnds, BootstrapTypeOK, JobsReady, Profiles
  <2> QED
    BY <1>2, <1>7, <2>1 DEF OtherEnds, BootstrapTypeOK, rowVars
<1> QED
  BY <1>3, <1>4, <1>5, <1>6, <1>7

LEMMA PrepareStepsType ==
  ASSUME BootstrapTypeOK, NEW j \in Slots,
         PrepareReads(j) \/ PrepareReady(j) \/ PrepareReturns(j) \/ PrepareThrows(j)
  PROVE  BootstrapTypeOK'
<1>1. jobs \in [Slots -> JobRecords] /\ jobs[j] \in JobRecords
  BY DEF BootstrapTypeOK
<1>2. Ended(j) \in [Slots -> JobRecords]
  BY <1>1, EndedType
<1>3. CASE PrepareReads(j)
  <2>1. profile \in Profiles
    BY DEF BootstrapTypeOK
  <2>2. jobs' \in [Slots -> JobRecords]
    BY <1>1, <1>3, <2>1 DEF PrepareReads, JobRecords, JobSteps
  <2> QED
    BY <1>3, <2>2 DEF PrepareReads, BootstrapTypeOK, rowVars
<1>4. CASE PrepareReady(j)
  <2>1. jobs' \in [Slots -> JobRecords]
    BY <1>1, <1>4 DEF PrepareReady, JobRecords, JobSteps
  <2>2. made' \in [Drafts -> Bundles]
    <3>1. [boot |-> jobs[j].boot, profile |-> jobs[j].profile] \in Bundles
      BY <1>1 DEF JobRecords, Bundles
    <3> QED
      BY <1>4, <3>1 DEF PrepareReady, BootstrapTypeOK
  <2>3. draft' \in [Drafts -> Statuses] /\ state' \in States
    BY <1>4 DEF PrepareReady, Written, StateWritten, BootstrapTypeOK, Statuses, OpenStatuses, States
  <2> QED
    BY <1>4, <2>1, <2>2, <2>3 DEF PrepareReady, BootstrapTypeOK
<1>5. CASE PrepareReturns(j)
  BY <1>2, <1>5 DEF PrepareReturns, BootstrapTypeOK, rowVars
<1>6. CASE PrepareThrows(j)
  <2>1. draft' \in [Drafts -> Statuses] /\ state' \in States
    BY <1>6 DEF PrepareThrows, Written, StateWritten, BootstrapTypeOK, Statuses, States
  <2> QED
    BY <1>2, <1>6, <2>1 DEF PrepareThrows, BootstrapTypeOK
<1> QED
  BY <1>3, <1>4, <1>5, <1>6

LEMMA RequestsType ==
  ASSUME BootstrapTypeOK,
         \/ \E op \in {"prepare", "upload"} : JobRequest(op)
         \/ \E d \in Drafts : IssueRequest(d) \/ StartRequest(d) \/ Revoke(d)
         \/ ApiRestart
         \/ \E r \in DOMAIN runs, s \in {"installed", "failed"} : MachineReports(r, s)
  PROVE  BootstrapTypeOK'
<1>1. calls \in [Calls -> CallRecords] /\ made \in [Drafts -> Bundles]
  BY DEF BootstrapTypeOK
<1>2. ASSUME NEW op \in {"prepare", "upload"}, JobRequest(op) PROVE BootstrapTypeOK'
  <2>1. [NoCall EXCEPT !.op = op, !.step = "waiting"] \in CallRecords
    BY NoCallType DEF CallRecords, CallOps, CallSteps
  <2>2. calls' \in [Calls -> CallRecords]
    BY <1>1, <1>2, <2>1, SuspendedType DEF JobRequest
  <2> QED
    BY <1>2, <2>2 DEF JobRequest, BootstrapTypeOK, rowVars
<1>3. ASSUME NEW d \in Drafts
      PROVE  \A op \in {"issue", "start"} :
               [op |-> op, draft |-> d, bundle |-> made[d], profile |-> Unread,
                step |-> "reading"] \in CallRecords
  BY <1>1 DEF CallRecords, CallOps, CallSteps
<1>4. ASSUME NEW d \in Drafts, IssueRequest(d) PROVE BootstrapTypeOK'
  <2>1. calls' \in [Calls -> CallRecords]
    BY <1>1, <1>3, <1>4, SuspendedType DEF IssueRequest
  <2> QED
    BY <1>4, <2>1 DEF IssueRequest, BootstrapTypeOK, rowVars
<1>5. ASSUME NEW d \in Drafts, StartRequest(d) PROVE BootstrapTypeOK'
  <2>1. calls' \in [Calls -> CallRecords]
    BY <1>1, <1>3, <1>5, SuspendedType DEF StartRequest
  <2>2. draft' \in [Drafts -> Statuses]
    BY <1>5 DEF StartRequest, BootstrapTypeOK, Statuses, OpenStatuses
  <2> QED
    BY <1>5, <2>1, <2>2 DEF StartRequest, BootstrapTypeOK
<1>6. ASSUME NEW d \in Drafts, Revoke(d) PROVE BootstrapTypeOK'
  BY <1>6 DEF Revoke, BootstrapTypeOK, Statuses
<1>7. CASE ApiRestart
  <2>1. restarts' \in 0..MaxRestarts
    BY <1>7, BoundsAssumption DEF ApiRestart, BootstrapTypeOK
  <2> QED
    BY <1>7, <2>1, NoJobType, NoCallType DEF ApiRestart, BootstrapTypeOK, rowVars
<1>8. ASSUME NEW r \in DOMAIN runs, NEW s \in {"installed", "failed"}, MachineReports(r, s)
      PROVE  BootstrapTypeOK'
  <2>1. runs \in Seq(Drafts) /\ r \in 1..Len(runs) /\ runs[r] \in Drafts
    BY DEF BootstrapTypeOK
  <2>2. /\ draft' \in [Drafts -> Statuses] /\ state' \in States
        /\ credential' \in 0..Len(runs) /\ applied' \in Drafts \union {0}
    BY <1>8, <2>1 DEF MachineReports, Report, BootstrapTypeOK, Statuses, States
  <2> QED
    BY <1>8, <2>2 DEF MachineReports, BootstrapTypeOK
<1> QED
  BY <1>2, <1>4, <1>5, <1>6, <1>7, <1>8

LEMMA CallsType ==
  ASSUME BootstrapTypeOK, CallsReady, NEW c \in Calls,
         \/ UploadCreates(c) \/ PrepareCreates(c) \/ CallFails(c) \/ CallReads(c)
         \/ CallInvalidates(c) \/ Issue(c) \/ StartCompares(c) \/ StartServes(c)
  PROVE  BootstrapTypeOK'
<1>1. calls \in [Calls -> CallRecords] /\ calls[c] \in CallRecords
  BY DEF BootstrapTypeOK
<1>2. Resumed(c) \in [Calls -> CallRecords]
  BY <1>1, ResumedType
<1>3. jobs \in [Slots -> JobRecords]
  BY DEF BootstrapTypeOK
<1>4. CASE UploadCreates(c)
  <2>1. Job("upload", 0, "none", "writing") \in JobRecords
    BY JobType DEF JobOps, JobSteps
  <2>2. jobs' \in [Slots -> JobRecords]
    BY <1>3, <1>4, <2>1, StartedType DEF UploadCreates
  <2> QED
    BY <1>2, <1>4, <2>2 DEF UploadCreates, BootstrapTypeOK, rowVars
<1>5. CASE PrepareCreates(c)
  <2>1. created' \in 1..NumDrafts /\ config \in Values
    BY <1>5, BoundsAssumption DEF PrepareCreates, BootstrapTypeOK
  <2>2. Job("prepare", created', config, "reading") \in JobRecords
    BY <2>1, JobType DEF JobOps, JobSteps, Drafts
  <2>3. jobs' \in [Slots -> JobRecords]
    BY <1>3, <1>5, <2>2, StartedType DEF PrepareCreates
  <2>4. draft' \in [Drafts -> Statuses]
    BY <1>5 DEF PrepareCreates, BootstrapTypeOK, Statuses, OpenStatuses
  <2> QED
    BY <1>2, <1>5, <2>1, <2>3, <2>4 DEF PrepareCreates, BootstrapTypeOK
<1>6. CASE CallFails(c)
  BY <1>2, <1>6 DEF CallFails, BootstrapTypeOK, rowVars
<1>7. CASE CallReads(c)
  <2>1. profile \in Profiles
    BY DEF BootstrapTypeOK
  <2>2. calls' \in [Calls -> CallRecords]
    BY <1>1, <1>7, <2>1 DEF CallReads, CallRecords
  <2> QED
    BY <1>7, <2>2 DEF CallReads, BootstrapTypeOK, rowVars
<1>8. CASE CallInvalidates(c)
  BY <1>2, <1>8, DraftsType DEF CallInvalidates, BootstrapTypeOK
<1>9. CASE Issue(c)
  <2>1. calls[c].draft \in Drafts
    BY <1>9 DEF Issue, Compares, CallsReady
  <2>2. draft' \in [Drafts -> Statuses] /\ handed' \subseteq Drafts
    BY <1>9, <2>1 DEF Issue, BootstrapTypeOK, Statuses, OpenStatuses
  <2> QED
    BY <1>2, <1>9, <2>2 DEF Issue, BootstrapTypeOK
<1>10. CASE StartCompares(c)
  <2>1. calls' \in [Calls -> CallRecords]
    BY <1>1, <1>10 DEF StartCompares, CallRecords, CallSteps
  <2> QED
    BY <1>10, <2>1 DEF StartCompares, BootstrapTypeOK, rowVars
<1>11. CASE StartServes(c)
  <2>1. calls[c].draft \in Drafts
    BY <1>11 DEF StartServes, CallsReady
  <2>2. runs' \in Seq(Drafts) /\ Len(runs') = Len(runs) + 1
    BY <1>11, <2>1 DEF StartServes, BootstrapTypeOK
  <2>3. credential' \in 0..Len(runs')
    BY <1>11, <2>2 DEF StartServes, BootstrapTypeOK, rowVars
  <2> QED
    BY <1>2, <1>11, <2>2, <2>3 DEF StartServes, BootstrapTypeOK, rowVars
<1> QED
  BY <1>4, <1>5, <1>6, <1>7, <1>8, <1>9, <1>10, <1>11

LEMMA TypeOKStep == TypeInv /\ [BootstrapNext]_bootstrapVars => BootstrapTypeOK'
<1> SUFFICES ASSUME TypeInv, [BootstrapNext]_bootstrapVars PROVE BootstrapTypeOK'
  OBVIOUS
<1> USE DEF TypeInv
<1>1. CASE UNCHANGED bootstrapVars
  BY <1>1 DEF bootstrapVars, BootstrapTypeOK
<1>2. CASE PanelStep
  <2>1. ASSUME NEW j \in Slots,
               \/ Cancel(j) \/ UpdateEnds(j) \/ UpdateCompares(j) \/ UpdateSaves(j)
               \/ RemoveDeletes(j) \/ OtherEnds(j)
               \/ PrepareReads(j) \/ PrepareReady(j) \/ PrepareReturns(j) \/ PrepareThrows(j)
        PROVE  BootstrapTypeOK'
    BY <2>1, JobRequestsType, UpdateStepsType, PrepareStepsType
  <2>2. ASSUME NEW c \in Calls,
               \/ UploadCreates(c) \/ PrepareCreates(c) \/ CallFails(c) \/ CallReads(c)
               \/ CallInvalidates(c) \/ Issue(c) \/ StartCompares(c) \/ StartServes(c)
        PROVE  BootstrapTypeOK'
    BY <2>2, CallsType
  <2>3. ASSUME NEW d \in Drafts, IssueRequest(d) \/ StartRequest(d) \/ Revoke(d)
        PROVE  BootstrapTypeOK'
    BY <2>3, RequestsType
  <2>4. CASE RemoveRequest \/ ClientRequest \/ \E v \in Values : UpdateRequest(v)
    BY <2>4, JobRequestsType
  <2>5. CASE ApiRestart \/ \E op \in {"prepare", "upload"} : JobRequest(op)
    BY <2>5, RequestsType
  <2> QED
    BY <1>2, <2>1, <2>2, <2>3, <2>4, <2>5 DEF PanelStep
<1>3. CASE \E r \in DOMAIN runs, s \in {"installed", "failed"} : MachineReports(r, s)
  BY <1>3, RequestsType
<1> QED
  BY <1>1, <1>2, <1>3 DEF BootstrapNext

-----------------------------------------------------------------------------
(* What a step does to the jobs and to the requests, without the rows.     *)

LEMMA OneWriterStep == TypeInv /\ [BootstrapNext]_bootstrapVars => OneWriter'
<1> SUFFICES ASSUME TypeInv, [BootstrapNext]_bootstrapVars PROVE OneWriter'
  OBVIOUS
<1> USE DEF TypeInv
<1>1. jobs \in [Slots -> JobRecords]
  BY DEF BootstrapTypeOK
<1>2. ASSUME \A i \in Slots : jobs'[i].op \in WriterOps => jobs[i].op \in WriterOps
      PROVE  OneWriter'
  BY <1>2 DEF OneWriter, Writers
<1>3. ASSUME NEW job, Started(job), ~Busy PROVE OneWriter'
  <2>1. \A i \in Slots : jobs[i].op = "none"
    BY <1>3 DEF Busy, NoJob
  <2>2. PICK i \in Slots : jobs' = [jobs EXCEPT ![i] = job]
    BY <1>3 DEF Started
  <2>3. \A k \in Slots : jobs'[k].op \in WriterOps => k = i
    BY <1>1, <2>1, <2>2 DEF WriterOps
  <2> QED
    BY <2>3 DEF OneWriter, Writers
<1>4. ASSUME NEW job, Started(job), job.op \notin WriterOps PROVE OneWriter'
  BY <1>1, <1>2, <1>4 DEF Started
<1>5. ASSUME NEW j \in Slots, jobs' = Ended(j) PROVE OneWriter'
  BY <1>1, <1>2, <1>5 DEF Ended, NoJob, WriterOps
<1>6. CASE UNCHANGED jobs
  BY <1>2, <1>6
<1>7. CASE RemoveRequest \/ \E v \in Values : UpdateRequest(v)
  BY <1>3, <1>7 DEF RemoveRequest, UpdateRequest
<1>7a. CASE ClientRequest
  <2>1. Job("client", 0, "none", "writing").op \notin WriterOps
    BY DEF Job, NoJob, WriterOps
  <2> QED
    BY <1>4, <1>7a, <2>1 DEF ClientRequest
<1>8. ASSUME NEW j \in Slots,
             UpdateEnds(j) \/ UpdateSaves(j) \/ RemoveDeletes(j) \/ OtherEnds(j)
             \/ PrepareReturns(j) \/ PrepareThrows(j)
      PROVE  OneWriter'
  BY <1>5, <1>8 DEF UpdateEnds, UpdateSaves, RemoveDeletes, OtherEnds, PrepareReturns,
                    PrepareThrows
<1>9. ASSUME NEW j \in Slots,
             Cancel(j) \/ UpdateCompares(j) \/ PrepareReads(j) \/ PrepareReady(j)
      PROVE  OneWriter'
  <2>1. \A i \in Slots : jobs'[i].op = jobs[i].op
    BY <1>1, <1>9 DEF Cancel, UpdateCompares, PrepareReads, PrepareReady, JobRecords
  <2> QED
    BY <1>2, <2>1
<1>10. ASSUME NEW c \in Calls, UploadCreates(c) \/ PrepareCreates(c) PROVE OneWriter'
  <2>1. PICK op \in {"upload", "prepare"}, d \in Nat, b \in Values \cup {"none", Removed},
              st \in {"writing", "reading"} : Started(Job(op, d, b, st))
    BY <1>10, BoundsAssumption DEF UploadCreates, PrepareCreates, BootstrapTypeOK
  <2>2. Job(op, d, b, st).op \notin WriterOps
    BY DEF Job, NoJob, WriterOps
  <2> QED
    BY <1>4, <2>1, <2>2
<1>11. CASE ApiRestart
  BY <1>2, <1>11 DEF ApiRestart, NoJob, WriterOps
<1>12. ASSUME NEW c \in Calls,
              CallFails(c) \/ CallReads(c) \/ CallInvalidates(c) \/ Issue(c)
              \/ StartCompares(c) \/ StartServes(c)
       PROVE  OneWriter'
  BY <1>6, <1>12 DEF CallFails, CallReads, CallInvalidates, Issue, StartCompares, StartServes
<1>13. CASE \/ \E op \in {"prepare", "upload"} : JobRequest(op)
            \/ \E d \in Drafts : IssueRequest(d) \/ StartRequest(d) \/ Revoke(d)
            \/ \E r \in DOMAIN runs, s \in {"installed", "failed"} : MachineReports(r, s)
  BY <1>6, <1>13 DEF JobRequest, IssueRequest, StartRequest, Revoke, MachineReports
<1>14. CASE UNCHANGED bootstrapVars
  BY <1>6, <1>14 DEF bootstrapVars
<1>15. CASE PanelStep
  BY <1>7, <1>7a, <1>8, <1>9, <1>10, <1>11, <1>12, <1>13, <1>15, ZenonT(90) DEF PanelStep
<1> QED
  BY <1>13, <1>14, <1>15 DEF BootstrapNext

LEMMA JobsReadyStep == TypeInv /\ [BootstrapNext]_bootstrapVars => JobsReady'
<1> SUFFICES ASSUME TypeInv, [BootstrapNext]_bootstrapVars PROVE JobsReady'
  OBVIOUS
<1> USE DEF TypeInv
<1>1. jobs \in [Slots -> JobRecords]
  BY DEF BootstrapTypeOK
<1>2. ASSUME UNCHANGED jobs PROVE JobsReady'
  BY <1>2 DEF JobsReady
<1>3. ASSUME NEW i \in Slots, NEW job \in JobRecords, jobs' = [jobs EXCEPT ![i] = job],
             job.op = "update" => job.boot \in Values,
             job.op = "update" /\ job.step = "writing" => job.keep \in States
      PROVE  JobsReady'
  BY <1>1, <1>3 DEF JobsReady
<1>3a. ASSUME NEW op \in JobOps, NEW d \in Drafts \union {0}, NEW b \in Values \union {"none"},
              NEW st \in {"reading", "writing"}, Started(Job(op, d, b, st)),
              op = "update" => b \in Values /\ st = "reading"
       PROVE  JobsReady'
  <2> DEFINE job == Job(op, d, b, st)
  <2>1. job \in JobRecords
    BY JobType DEF JobSteps
  <2>2. job.op = op /\ job.boot = b /\ job.step = st
    BY DEF Job, NoJob
  <2>3. PICK i \in Slots : jobs' = [jobs EXCEPT ![i] = job]
    BY <1>3a DEF Started
  <2> HIDE DEF job
  <2> QED
    BY <1>3, <1>3a, <2>1, <2>2, <2>3
<1>4. ASSUME NEW j \in Slots, jobs' = Ended(j) PROVE JobsReady'
  <2>1. NoJob \in JobRecords /\ NoJob.op = "none"
    BY NoJobType DEF NoJob
  <2> QED
    BY <1>3, <1>4, <2>1 DEF Ended
<1>6. ASSUME NEW j \in Slots, UpdateEnds(j) \/ UpdateSaves(j) \/ RemoveDeletes(j)
                              \/ OtherEnds(j) \/ PrepareReturns(j) \/ PrepareThrows(j)
      PROVE  JobsReady'
  BY <1>4, <1>6 DEF UpdateEnds, UpdateSaves, RemoveDeletes, OtherEnds, PrepareReturns,
                          PrepareThrows
<1>7. CASE RemoveRequest
  BY <1>7, <1>3a DEF RemoveRequest, JobOps
<1>8. CASE ClientRequest
  BY <1>8, <1>3a DEF ClientRequest, JobOps
<1>9. ASSUME NEW v \in Values, UpdateRequest(v) PROVE JobsReady'
  BY <1>9, <1>3a DEF UpdateRequest, JobOps
<1>10. ASSUME NEW c \in Calls, UploadCreates(c) PROVE JobsReady'
  BY <1>10, <1>3a DEF UploadCreates, JobOps
<1>11. ASSUME NEW c \in Calls, PrepareCreates(c) PROVE JobsReady'
  <2>1. created' \in Drafts /\ config \in Values
    BY <1>11, BoundsAssumption DEF PrepareCreates, BootstrapTypeOK, Drafts
  <2> QED
    BY <1>11, <1>3a, <2>1 DEF PrepareCreates, JobOps
<1>12. ASSUME NEW j \in Slots, UpdateCompares(j) PROVE JobsReady'
  <2>1. state \in States
    BY DEF BootstrapTypeOK
  <2>2. PICK keep \in States :
          jobs' = [jobs EXCEPT ![j].step = "writing", ![j].keep = keep]
    BY <1>12, <2>1 DEF UpdateCompares, States
  <2>3. \A i \in Slots : /\ jobs'[i].op = jobs[i].op /\ jobs'[i].boot = jobs[i].boot
                         /\ i # j => jobs'[i] = jobs[i]
    BY <1>1, <2>2 DEF JobRecords
  <2>4. jobs'[j].keep \in States
    BY <1>1, <2>2 DEF JobRecords
  <2> QED
    BY <1>12, <2>3, <2>4 DEF UpdateCompares, JobsReady
<1>13. ASSUME NEW j \in Slots, PrepareReads(j) \/ PrepareReady(j) PROVE JobsReady'
  <2>1. \A i \in Slots : /\ jobs'[i].op = jobs[i].op
                         /\ i # j => jobs'[i] = jobs[i]
    BY <1>1, <1>13 DEF PrepareReads, PrepareReady, JobRecords
  <2>2. jobs[j].op = "prepare"
    BY <1>13 DEF PrepareReads, PrepareReady
  <2> QED
    BY <2>1, <2>2 DEF JobsReady
<1>14. ASSUME NEW j \in Slots, Cancel(j) PROVE JobsReady'
  <2>1. \A i \in Slots : /\ jobs'[i].op = jobs[i].op /\ jobs'[i].boot = jobs[i].boot
                         /\ jobs'[i].step = jobs[i].step /\ jobs'[i].keep = jobs[i].keep
    BY <1>1, <1>14 DEF Cancel, JobRecords
  <2> QED
    BY <1>14, <2>1 DEF Cancel, JobsReady
<1>15. CASE ApiRestart
  BY <1>15 DEF ApiRestart, NoJob, JobsReady
<1>16. ASSUME NEW c \in Calls,
              CallFails(c) \/ CallReads(c) \/ CallInvalidates(c) \/ Issue(c)
              \/ StartCompares(c) \/ StartServes(c)
       PROVE  JobsReady'
  BY <1>2, <1>16 DEF CallFails, CallReads, CallInvalidates, Issue, StartCompares, StartServes
<1>17. CASE \/ \E op \in {"prepare", "upload"} : JobRequest(op)
            \/ \E d \in Drafts : IssueRequest(d) \/ StartRequest(d) \/ Revoke(d)
            \/ \E r \in DOMAIN runs, s \in {"installed", "failed"} : MachineReports(r, s)
  BY <1>2, <1>17 DEF JobRequest, IssueRequest, StartRequest, Revoke, MachineReports
<1>18. CASE UNCHANGED bootstrapVars
  BY <1>2, <1>18 DEF bootstrapVars
<1>19. CASE PanelStep
  BY <1>6, <1>7, <1>8, <1>9, <1>10, <1>11, <1>12, <1>13, <1>14, <1>15, <1>16, <1>17, <1>19, ZenonT(90)
  DEF PanelStep
<1> QED
  BY <1>17, <1>18, <1>19 DEF BootstrapNext

LEMMA CallsReadyStep == TypeInv /\ [BootstrapNext]_bootstrapVars => CallsReady'
<1> SUFFICES ASSUME TypeInv, [BootstrapNext]_bootstrapVars PROVE CallsReady'
  OBVIOUS
<1> USE DEF TypeInv
<1>1. calls \in [Calls -> CallRecords]
  BY DEF BootstrapTypeOK
<1>2. ASSUME UNCHANGED calls PROVE CallsReady'
  BY <1>2 DEF CallsReady
<1>3. ASSUME NEW c \in Calls, calls' = Resumed(c) PROVE CallsReady'
  BY <1>1, <1>3 DEF Resumed, NoCall, CallsReady
<1>4. ASSUME NEW call, Suspended(call),
             call.op \in {"issue", "start"} => call.draft \in Drafts,
             call.step \in {"reading", "token"} => call.op \in {"issue", "start"}
      PROVE  CallsReady'
  BY <1>1, <1>4 DEF Suspended, CallsReady
<1>5. ASSUME NEW op \in {"prepare", "upload"}, JobRequest(op) PROVE CallsReady'
  BY <1>4, <1>5 DEF JobRequest, NoCall
<1>6. ASSUME NEW d \in Drafts, IssueRequest(d) \/ StartRequest(d) PROVE CallsReady'
  <2>1. \A op \in {"issue", "start"} :
          LET call == [op |-> op, draft |-> d, bundle |-> made[d], profile |-> Unread,
                       step |-> "reading"]
          IN call.draft = d /\ call.op = op
    OBVIOUS
  <2> QED
    BY <1>4, <1>6, <2>1 DEF IssueRequest, StartRequest
<1>7. ASSUME NEW c \in Calls, CallReads(c) \/ StartCompares(c) PROVE CallsReady'
  <2>1. calls[c].op \in {"issue", "start"}
    BY <1>7 DEF CallReads, StartCompares, CallsReady
  <2>2. \A e \in Calls : /\ calls'[e].draft = calls[e].draft /\ calls'[e].op = calls[e].op
                         /\ e # c => calls'[e] = calls[e]
    BY <1>1, <1>7 DEF CallReads, StartCompares, CallRecords
  <2> QED
    BY <2>1, <2>2 DEF CallsReady
<1>8. ASSUME NEW c \in Calls,
             \/ UploadCreates(c) \/ PrepareCreates(c) \/ CallFails(c) \/ CallInvalidates(c)
             \/ Issue(c) \/ StartServes(c)
      PROVE  CallsReady'
  BY <1>3, <1>8 DEF UploadCreates, PrepareCreates, CallFails, CallInvalidates, Issue, StartServes
<1>9. CASE ApiRestart
  BY <1>9 DEF ApiRestart, NoCall, CallsReady
<1>10. CASE \/ RemoveRequest \/ ClientRequest
            \/ \E v \in Values : UpdateRequest(v)
            \/ \E d \in Drafts : Revoke(d)
            \/ \E r \in DOMAIN runs, s \in {"installed", "failed"} : MachineReports(r, s)
  BY <1>2, <1>10 DEF RemoveRequest, ClientRequest, UpdateRequest, Revoke, MachineReports
<1>11. ASSUME NEW j \in Slots,
              \/ Cancel(j) \/ UpdateEnds(j) \/ UpdateCompares(j) \/ UpdateSaves(j)
              \/ RemoveDeletes(j) \/ OtherEnds(j)
              \/ PrepareReads(j) \/ PrepareReady(j) \/ PrepareReturns(j) \/ PrepareThrows(j)
       PROVE  CallsReady'
  BY <1>2, <1>11 DEF Cancel, UpdateEnds, UpdateCompares, UpdateSaves, RemoveDeletes, OtherEnds,
                     PrepareReads, PrepareReady, PrepareReturns, PrepareThrows
<1>12. CASE UNCHANGED bootstrapVars
  BY <1>2, <1>12 DEF bootstrapVars
<1>13. CASE PanelStep
  BY <1>5, <1>6, <1>7, <1>8, <1>9, <1>10, <1>11, <1>13, ZenonT(90) DEF PanelStep
<1> QED
  BY <1>10, <1>12, <1>13 DEF BootstrapNext

\* Steps that write neither the row nor a draft that is gone, and bring no update to
\* the point where it saves the row.
RemovalKept ==
  /\ UNCHANGED config
  /\ config = Removed => \A d \in Drafts : draft[d] = "absent" => draft'[d] = "absent"
  /\ \A i \in Slots : jobs'[i].op = "update" /\ jobs'[i].step = "writing" =>
       jobs[i].op = "update" /\ jobs[i].step = "writing"

LEMMA RemovalStep ==
  TypeInv /\ [BootstrapNext]_bootstrapVars =>
    /\ RemovalStands'
    /\ config = Removed => UNCHANGED <<config, draft>>
<1> SUFFICES ASSUME TypeInv, [BootstrapNext]_bootstrapVars
             PROVE  /\ RemovalStands'
                    /\ config = Removed => UNCHANGED <<config, draft>>
  OBVIOUS
<1> USE DEF TypeInv
<1> DEFINE Stands == /\ RemovalStands'
                     /\ config = Removed => UNCHANGED <<config, draft>>
<1> SUFFICES Stands
  OBVIOUS
<1>1. /\ jobs \in [Slots -> JobRecords] /\ calls \in [Calls -> CallRecords]
      /\ draft \in [Drafts -> Statuses] /\ draft' \in [Drafts -> Statuses]
      /\ config \in Values \union {Removed}
  BY TypeOKStep DEF BootstrapTypeOK
<1>2. ASSUME RemovalKept PROVE Stands
  <2>1. config = Removed => draft' = draft
    BY <1>1, <1>2 DEF RemovalStands, RemovalKept
  <2>2. RemovalStands'
    BY <1>2, <2>1 DEF RemovalStands, RemovalKept
  <2> QED
    BY <1>2, <2>1, <2>2 DEF RemovalKept
<1>3. ASSUME NEW op, NEW d, NEW b, NEW st, Started(Job(op, d, b, st)),
             op # "update" \/ st # "writing"
      PROVE  \A i \in Slots : jobs'[i].op = "update" /\ jobs'[i].step = "writing" =>
               jobs[i].op = "update" /\ jobs[i].step = "writing"
  <2>1. Job(op, d, b, st).op = op /\ Job(op, d, b, st).step = st
    BY DEF Job, NoJob
  <2> QED
    BY <1>1, <1>3, <2>1 DEF Started
<1>4. CASE RemoveRequest \/ ClientRequest \/ \E v \in Values : UpdateRequest(v)
  <2>1. RemovalKept
    BY <1>3, <1>4 DEF RemoveRequest, ClientRequest, UpdateRequest, rowVars, RemovalKept
  <2> QED
    BY <1>2, <2>1
<1>5. ASSUME NEW c \in Calls, UploadCreates(c) PROVE Stands
  <2>1. RemovalKept
    BY <1>3, <1>5 DEF UploadCreates, rowVars, RemovalKept
  <2> QED
    BY <1>2, <2>1
<1>6. ASSUME NEW c \in Calls, PrepareCreates(c) PROVE Stands
  <2>1. RemovalKept
    BY <1>3, <1>6 DEF PrepareCreates, RemovalKept
  <2> QED
    BY <1>2, <2>1
<1>7. ASSUME NEW j \in Slots, jobs' = Ended(j), UNCHANGED config,
             \A d \in Drafts : draft[d] = "absent" => draft'[d] = "absent"
      PROVE  Stands
  <2>1. RemovalKept
    BY <1>1, <1>7 DEF Ended, NoJob, RemovalKept
  <2> QED
    BY <1>2, <2>1
<1>8. ASSUME NEW j \in Slots,
             UpdateEnds(j) \/ OtherEnds(j) \/ PrepareReturns(j) \/ PrepareThrows(j)
      PROVE  Stands
  <2>1. jobs' = Ended(j) /\ UNCHANGED config
    BY <1>8 DEF UpdateEnds, OtherEnds, PrepareReturns, PrepareThrows, rowVars
  <2>2. \A d \in Drafts : draft[d] = "absent" => draft'[d] = "absent"
    BY <1>1, <1>8 DEF UpdateEnds, OtherEnds, PrepareReturns, PrepareThrows, Written, rowVars
  <2> QED
    BY <1>7, <2>1, <2>2
<1>9. ASSUME NEW j \in Slots, UpdateSaves(j) PROVE Stands
  <2>1. config # Removed
    BY <1>9 DEF UpdateSaves, RemovalStands
  <2>2. config' \in Values /\ config' # Removed
    BY <1>9, ValuesAssumption DEF UpdateSaves, JobsReady, Removed
  <2> QED
    BY <2>1, <2>2 DEF RemovalStands
<1>10. ASSUME NEW j \in Slots, RemoveDeletes(j) PROVE Stands
  <2>1. \A i \in Slots : jobs[i].op = "update" => FALSE
    BY <1>10 DEF RemoveDeletes, OneWriter, Writers, WriterOps
  <2>2. \A i \in Slots : jobs'[i].op # "update"
    BY <1>1, <1>10, <2>1 DEF RemoveDeletes, Ended, NoJob
  <2>3. config' = Removed /\ \A d \in Drafts : draft'[d] = "absent"
    BY <1>10 DEF RemoveDeletes
  <2>4. config = Removed => draft' = draft
    BY <1>1, <2>3 DEF RemovalStands
  <2> QED
    BY <2>2, <2>3, <2>4 DEF RemovalStands
<1>11. ASSUME NEW j \in Slots, UpdateCompares(j) PROVE Stands
  BY <1>11 DEF UpdateCompares, rowVars, RemovalStands
<1>12. ASSUME NEW j \in Slots, Cancel(j) \/ PrepareReads(j) \/ PrepareReady(j) PROVE Stands
  <2>1. \A i \in Slots : jobs'[i].op = "update" /\ jobs'[i].step = "writing" =>
          jobs[i].op = "update" /\ jobs[i].step = "writing"
    BY <1>1, <1>12 DEF Cancel, PrepareReads, PrepareReady, JobRecords
  <2>2. /\ UNCHANGED config
        /\ \A d \in Drafts : draft[d] = "absent" => draft'[d] = "absent"
    BY <1>1, <1>12 DEF Cancel, PrepareReads, PrepareReady, Written, rowVars
  <2> QED
    BY <1>2, <2>1, <2>2 DEF RemovalKept
<1>13. ASSUME NEW c \in Calls,
              CallFails(c) \/ CallReads(c) \/ CallInvalidates(c) \/ Issue(c)
              \/ StartCompares(c) \/ StartServes(c)
       PROVE  Stands
  <2>1. /\ UNCHANGED <<config, jobs>>
        /\ config = Removed => UNCHANGED draft
    BY <1>13 DEF CallFails, CallReads, CallInvalidates, Issue, StartCompares, StartServes,
                 Compares, rowVars
  <2> QED
    BY <1>2, <2>1 DEF RemovalKept
<1>14. CASE \/ \E op \in {"prepare", "upload"} : JobRequest(op)
            \/ \E d \in Drafts : IssueRequest(d) \/ StartRequest(d) \/ Revoke(d)
            \/ \E r \in DOMAIN runs, s \in {"installed", "failed"} : MachineReports(r, s)
  <2>1. UNCHANGED <<config, jobs>>
    BY <1>14 DEF JobRequest, IssueRequest, StartRequest, Revoke, MachineReports, rowVars
  <2>2. \A d \in Drafts : draft[d] = "absent" => draft'[d] = "absent"
    BY <1>1, <1>14 DEF JobRequest, IssueRequest, StartRequest, Revoke, MachineReports, Report,
                       Live, rowVars
  <2> QED
    BY <1>2, <2>1, <2>2 DEF RemovalKept
<1>15. CASE ApiRestart
  <2>1. RemovalKept
    BY <1>15 DEF ApiRestart, NoJob, rowVars, RemovalKept
  <2> QED
    BY <1>2, <2>1
<1>16. CASE UNCHANGED bootstrapVars
  BY <1>2, <1>16 DEF bootstrapVars, RemovalKept
<1> HIDE DEF Stands
<1>17. CASE PanelStep
  BY <1>4, <1>5, <1>6, <1>8, <1>9, <1>10, <1>11, <1>12, <1>13, <1>14, <1>15, <1>17, ZenonT(90)
  DEF PanelStep
<1> QED
  BY <1>14, <1>16, <1>17 DEF BootstrapNext

\* The types and the exclusion of the jobs that write the row are invariant, also
\* when jobs are cancelled and the API restarts.
THEOREM TypeInvariant == BootstrapSpec => []TypeInv
<1>1. BootstrapInit => TypeInv
  <2> SUFFICES ASSUME BootstrapInit PROVE TypeInv
    OBVIOUS
  <2>1. OneWriter /\ JobsReady /\ RemovalStands
    BY DEF BootstrapInit, NoJob, OneWriter, Writers, WriterOps, JobsReady, RemovalStands
  <2>2. CallsReady
    BY DEF BootstrapInit, NoCall, CallsReady
  <2> QED
    BY <2>1, <2>2, InitType DEF TypeInv
<1>2. TypeInv /\ [BootstrapNext]_bootstrapVars => TypeInv'
  BY TypeOKStep, OneWriterStep, JobsReadyStep, CallsReadyStep, RemovalStep DEF TypeInv
<1> QED
  BY <1>1, <1>2, PTL DEF BootstrapSpec

\* Every variable of the installation of a server keeps its type, for any number of
\* jobs, requests, drafts and restarts.
THEOREM BootstrapTypeCorrect == BootstrapSpec => []BootstrapTypeOK
<1>1. TypeInv => BootstrapTypeOK
  BY DEF TypeInv
<1> QED
  BY <1>1, TypeInvariant, PTL

\* A binding that was removed and its drafts stay removed, whatever updates,
\* preparations, claims, cancellations, restarts of the API and jobs of the clients
\* and mods were under way.
THEOREM RemovalLasts == BootstrapSpec => RemovedStays
<1>1. TypeInv /\ [BootstrapNext]_bootstrapVars =>
        [config = Removed => UNCHANGED <<config, draft>>]_bootstrapVars
  BY RemovalStep
<1> QED
  BY <1>1, TypeInvariant, PTL DEF BootstrapSpec, RemovedStays

-----------------------------------------------------------------------------
(* What a command installs, and what is shown as installed.                *)

\* Steps that leave every preparation, every bundle and every absent draft alone.
PreparationsKept ==
  /\ UNCHANGED <<made, created>>
  /\ \A d \in Drafts : draft[d] = "absent" => draft'[d] = "absent"
  /\ \A i \in Slots : jobs'[i].op = "prepare" =>
       /\ jobs[i].op = "prepare"
       /\ jobs'[i].draft = jobs[i].draft /\ jobs'[i].boot = jobs[i].boot
       /\ jobs'[i].step \in {"reading", "working"} => jobs[i].step \in {"reading", "working"}

LEMMA NothingAbortedStep ==
  ASSUME "cancel" \notin Faults
  PROVE  CurrentInv /\ [BootstrapNext]_bootstrapVars => NothingAborted'
<1> SUFFICES ASSUME CurrentInv, [BootstrapNext]_bootstrapVars PROVE NothingAborted'
  OBVIOUS
<1> USE DEF CurrentInv, TypeInv
<1>1. jobs \in [Slots -> JobRecords] /\ NothingAborted
  BY DEF BootstrapTypeOK
<1>2. ASSUME \A i \in Slots : jobs'[i].aborted = jobs[i].aborted \/ jobs'[i].aborted = FALSE
      PROVE  NothingAborted'
  BY <1>1, <1>2 DEF NothingAborted
<1>3. ASSUME NEW op, NEW d, NEW b, NEW st, Started(Job(op, d, b, st)) PROVE NothingAborted'
  <2>1. Job(op, d, b, st).aborted = FALSE
    BY DEF Job, NoJob
  <2> QED
    BY <1>1, <1>2, <1>3, <2>1 DEF Started
<1>4. ASSUME NEW j \in Slots, jobs' = Ended(j) PROVE NothingAborted'
  BY <1>1, <1>2, <1>4 DEF Ended, NoJob
<1>5. CASE UNCHANGED jobs
  BY <1>2, <1>5
<1>6. CASE RemoveRequest \/ ClientRequest \/ \E v \in Values : UpdateRequest(v)
  BY <1>3, <1>6 DEF RemoveRequest, ClientRequest, UpdateRequest
<1>7. ASSUME NEW c \in Calls, UploadCreates(c) \/ PrepareCreates(c) PROVE NothingAborted'
  BY <1>3, <1>7 DEF UploadCreates, PrepareCreates
<1>8. ASSUME NEW j \in Slots,
             UpdateEnds(j) \/ UpdateSaves(j) \/ RemoveDeletes(j) \/ OtherEnds(j)
             \/ PrepareReturns(j) \/ PrepareThrows(j)
      PROVE  NothingAborted'
  BY <1>4, <1>8 DEF UpdateEnds, UpdateSaves, RemoveDeletes, OtherEnds, PrepareReturns,
                    PrepareThrows
<1>9. ASSUME NEW j \in Slots, UpdateCompares(j) \/ PrepareReads(j) \/ PrepareReady(j)
      PROVE  NothingAborted'
  <2>1. \A i \in Slots : jobs'[i].aborted = jobs[i].aborted
    BY <1>1, <1>9 DEF UpdateCompares, PrepareReads, PrepareReady, JobRecords
  <2> QED
    BY <1>2, <2>1
<1>10. ASSUME NEW j \in Slots, Cancel(j) PROVE NothingAborted'
  BY <1>10 DEF Cancel
<1>11. CASE ApiRestart
  BY <1>2, <1>11 DEF ApiRestart, NoJob
<1>12. ASSUME NEW c \in Calls,
              CallFails(c) \/ CallReads(c) \/ CallInvalidates(c) \/ Issue(c)
              \/ StartCompares(c) \/ StartServes(c)
       PROVE  NothingAborted'
  BY <1>5, <1>12 DEF CallFails, CallReads, CallInvalidates, Issue, StartCompares, StartServes
<1>13. CASE \/ \E op \in {"prepare", "upload"} : JobRequest(op)
            \/ \E d \in Drafts : IssueRequest(d) \/ StartRequest(d) \/ Revoke(d)
            \/ \E r \in DOMAIN runs, s \in {"installed", "failed"} : MachineReports(r, s)
  BY <1>5, <1>13 DEF JobRequest, IssueRequest, StartRequest, Revoke, MachineReports
<1>14. CASE UNCHANGED bootstrapVars
  BY <1>5, <1>14 DEF bootstrapVars
<1>15. CASE PanelStep
  BY <1>6, <1>7, <1>8, <1>9, <1>10, <1>11, <1>12, <1>13, <1>15, ZenonT(90) DEF PanelStep
<1> QED
  BY <1>13, <1>14, <1>15 DEF BootstrapNext

LEMMA PreparationsApartStep ==
  TypeInv /\ PreparationsApart /\ BootstrapTypeOK' /\ [BootstrapNext]_bootstrapVars
  => PreparationsApart'
<1> SUFFICES ASSUME TypeInv, PreparationsApart, BootstrapTypeOK', [BootstrapNext]_bootstrapVars
             PROVE  PreparationsApart'
  OBVIOUS
<1> USE DEF TypeInv
<1>1. /\ jobs \in [Slots -> JobRecords] /\ created \in 0..NumDrafts /\ NumDrafts \in Nat
      /\ draft \in [Drafts -> Statuses] /\ made \in [Drafts -> Bundles]
      /\ PreparationsApart
  BY BoundsAssumption DEF BootstrapTypeOK
<1>2. ASSUME PreparationsKept PROVE PreparationsApart'
  BY <1>1, <1>2 DEF PreparationsKept, PreparationsApart, Preparations, Making
<1>3. ASSUME UNCHANGED <<draft, made, created>>,
             NEW i \in Slots, NEW job, jobs' = [jobs EXCEPT ![i] = job], job.op # "prepare"
      PROVE  PreparationsKept
  BY <1>1, <1>3 DEF PreparationsKept
<1>4. CASE RemoveRequest \/ ClientRequest \/ \E v \in Values : UpdateRequest(v)
  <2>1. PICK op \in JobOps \ {"prepare"}, b \in Values \union {"none"},
             st \in JobSteps : Started(Job(op, 0, b, st))
    BY <1>4 DEF RemoveRequest, ClientRequest, UpdateRequest, JobOps, JobSteps
  <2>2. Job(op, 0, b, st).op # "prepare"
    BY DEF Job, NoJob
  <2>3. PreparationsKept
    BY <1>3, <1>4, <2>1, <2>2 DEF Started, RemoveRequest, ClientRequest, UpdateRequest, rowVars
  <2> QED
    BY <1>2, <2>3
<1>5. ASSUME NEW c \in Calls, UploadCreates(c) PROVE PreparationsApart'
  <2>1. Job("upload", 0, "none", "writing").op # "prepare"
    BY DEF Job, NoJob
  <2>2. PreparationsKept
    BY <1>3, <1>5, <2>1 DEF Started, UploadCreates, rowVars
  <2> QED
    BY <1>2, <2>2
<1>6. ASSUME NEW j \in Slots, jobs' = Ended(j), UNCHANGED <<made, created>>,
             \A d \in Drafts : draft[d] = "absent" => draft'[d] = "absent"
      PROVE  PreparationsApart'
  <2>1. PreparationsKept
    BY <1>1, <1>6 DEF Ended, NoJob, PreparationsKept
  <2> QED
    BY <1>2, <2>1
<1>7. ASSUME NEW j \in Slots,
             UpdateEnds(j) \/ UpdateSaves(j) \/ RemoveDeletes(j) \/ OtherEnds(j)
             \/ PrepareReturns(j) \/ PrepareThrows(j)
      PROVE  PreparationsApart'
  <2>1. \A d \in Drafts : draft[d] = "absent" => draft'[d] = "absent"
    BY <1>1, <1>7 DEF UpdateEnds, UpdateSaves, RemoveDeletes, OtherEnds, PrepareReturns,
                      PrepareThrows, Invalidated, Written, OpenStatuses, rowVars
  <2> QED
    BY <1>6, <1>7, <2>1 DEF UpdateEnds, UpdateSaves, RemoveDeletes, OtherEnds, PrepareReturns,
                            PrepareThrows, rowVars
<1>8. ASSUME NEW j \in Slots, Cancel(j) \/ UpdateCompares(j) \/ PrepareReads(j)
      PROVE  PreparationsApart'
  <2>1. \A i \in Slots : /\ jobs'[i].op = jobs[i].op
                         /\ jobs'[i].draft = jobs[i].draft /\ jobs'[i].boot = jobs[i].boot
    BY <1>1, <1>8 DEF Cancel, UpdateCompares, PrepareReads, JobRecords
  <2>2. \A i \in Slots : jobs'[i].op = "prepare" /\ jobs'[i].step \in {"reading", "working"}
          => jobs[i].step \in {"reading", "working"}
    BY <1>1, <1>8 DEF Cancel, UpdateCompares, PrepareReads, JobRecords
  <2>3. UNCHANGED <<draft, made, created>>
    BY <1>8 DEF Cancel, UpdateCompares, PrepareReads, rowVars
  <2> QED
    BY <1>2, <2>1, <2>2, <2>3 DEF PreparationsKept
<1>9. ASSUME NEW j \in Slots, PrepareReady(j) PROVE PreparationsApart'
  <2> DEFINE d0 == jobs[j].draft
  <2>1. j \in Making /\ j \in Preparations
    BY <1>9 DEF PrepareReady, Making, Preparations
  <2>2. d0 \in 1..created /\ d0 \in Drafts
    BY <1>1, <2>1 DEF PreparationsApart, Drafts
  <2>3. /\ \A d \in Drafts : d # d0 => made'[d] = made[d] /\ draft'[d] = draft[d]
        /\ UNCHANGED created
    BY <1>1, <1>9 DEF PrepareReady, Written
  <2>4. \A i \in Slots : /\ jobs'[i].op = jobs[i].op
                         /\ jobs'[i].draft = jobs[i].draft /\ jobs'[i].boot = jobs[i].boot
                         /\ i # j => jobs'[i] = jobs[i]
    BY <1>1, <1>9 DEF PrepareReady, JobRecords
  <2>5. jobs'[j].step \notin {"reading", "working"}
    BY <1>1, <1>9 DEF PrepareReady, JobRecords
  <2>6. \A d \in Drafts : d > created' => draft'[d] = "absent" /\ made'[d].boot = "none"
    BY <1>1, <2>2, <2>3 DEF PreparationsApart, Drafts
  <2>7. Preparations' = Preparations
    BY <2>4 DEF Preparations
  <2>8. \A i \in Making' : i \in Making /\ jobs[i].draft # d0 /\ jobs[i].draft \in Drafts
    BY <1>1, <2>1, <2>4, <2>5 DEF Making, Preparations, PreparationsApart, Drafts
  <2>9. \A i \in Making' : made'[jobs'[i].draft].boot = "none"
    BY <1>1, <2>3, <2>4, <2>8 DEF PreparationsApart, Making, Preparations
  <2>10. /\ \A i \in Preparations' : jobs'[i].draft \in 1..created' /\ jobs'[i].boot \in Values
         /\ \A i, k \in Preparations' : jobs'[i].draft = jobs'[k].draft => i = k
    BY <1>1, <2>3, <2>4, <2>7 DEF PreparationsApart, Preparations
  <2> QED
    BY <2>6, <2>9, <2>10 DEF PreparationsApart
<1>10. ASSUME NEW c \in Calls, PrepareCreates(c) PROVE PreparationsApart'
  <2> DEFINE d0 == created + 1
             job == Job("prepare", d0, config, "reading")
  <2>1. /\ job.op = "prepare" /\ job.draft = d0 /\ job.boot = config
    BY DEF Job, NoJob
  <2>2. /\ d0 \in Drafts /\ d0 \in Nat /\ created' = d0 /\ config \in Values
        /\ made' = made /\ draft' = [draft EXCEPT ![d0] = "preparing"]
    BY <1>1, <1>10 DEF PrepareCreates, BootstrapTypeOK, Drafts
  <2>3. PICK i \in Slots : jobs[i] = NoJob /\ jobs' = [jobs EXCEPT ![i] = job]
    BY <1>10, <2>2 DEF PrepareCreates, Started
  <2> HIDE DEF job
  <2>4. \A k \in Slots : k # i => jobs'[k] = jobs[k]
    BY <1>1, <2>3
  <2>5. jobs'[i] = job
    BY <1>1, <2>3
  <2>6. \A d \in Drafts : d > created' => draft'[d] = "absent" /\ made'[d].boot = "none"
    BY <1>1, <2>2 DEF PreparationsApart, Drafts
  <2>7. \A k \in Preparations' : k # i =>
          /\ k \in Preparations /\ jobs'[k] = jobs[k]
          /\ jobs[k].draft \in 1..created /\ jobs[k].boot \in Values
    BY <1>1, <2>4 DEF PreparationsApart, Preparations
  <2>8. \A k \in Preparations' : jobs'[k].draft \in 1..created' /\ jobs'[k].boot \in Values
    BY <1>1, <2>1, <2>2, <2>5, <2>7
  <2>9. \A k, m \in Preparations' : jobs'[k].draft = jobs'[m].draft => k = m
    <3>1. \A k \in Preparations' : k # i => jobs'[k].draft # d0
      BY <1>1, <2>7
    <3> QED
      BY <1>1, <2>1, <2>5, <2>7, <3>1 DEF PreparationsApart
  <2>10. made[d0].boot = "none"
    BY <1>1, <2>2 DEF PreparationsApart, Drafts
  <2>11. \A k \in Making' : made'[jobs'[k].draft].boot = "none"
    BY <1>1, <2>1, <2>2, <2>4, <2>5, <2>10 DEF PreparationsApart, Making, Preparations
  <2> QED
    BY <2>6, <2>8, <2>9, <2>11 DEF PreparationsApart
<1>11. ASSUME UNCHANGED <<jobs, made, created>>,
              \A d \in Drafts : draft[d] = "absent" => draft'[d] = "absent"
       PROVE  PreparationsApart'
  BY <1>2, <1>11 DEF PreparationsKept
<1>12. ASSUME NEW c \in Calls,
              CallFails(c) \/ CallReads(c) \/ CallInvalidates(c) \/ Issue(c)
              \/ StartCompares(c) \/ StartServes(c)
       PROVE  PreparationsApart'
  <2>1. \A d \in Drafts : draft[d] = "absent" => draft'[d] = "absent"
    BY <1>1, <1>12 DEF CallFails, CallReads, CallInvalidates, Issue, StartCompares, StartServes,
                       Invalidated, OpenStatuses, rowVars
  <2> QED
    BY <1>11, <1>12, <2>1 DEF CallFails, CallReads, CallInvalidates, Issue, StartCompares,
                              StartServes, rowVars
<1>13. CASE \/ \E op \in {"prepare", "upload"} : JobRequest(op)
            \/ \E d \in Drafts : IssueRequest(d) \/ StartRequest(d) \/ Revoke(d)
            \/ \E r \in DOMAIN runs, s \in {"installed", "failed"} : MachineReports(r, s)
  <2>1. \A d \in Drafts : draft[d] = "absent" => draft'[d] = "absent"
    BY <1>1, <1>13 DEF JobRequest, IssueRequest, StartRequest, Revoke, MachineReports, Report,
                       Live, rowVars
  <2> QED
    BY <1>11, <1>13, <2>1 DEF JobRequest, IssueRequest, StartRequest, Revoke, MachineReports,
                              rowVars
<1>14. CASE ApiRestart
  <2>1. PreparationsKept
    BY <1>14 DEF ApiRestart, NoJob, PreparationsKept, rowVars
  <2> QED
    BY <1>2, <2>1
<1>15. CASE UNCHANGED bootstrapVars
  BY <1>11, <1>15 DEF bootstrapVars
<1>16. CASE PanelStep
  BY <1>4, <1>5, <1>7, <1>8, <1>9, <1>10, <1>12, <1>13, <1>14, <1>16, ZenonT(90) DEF PanelStep
<1> QED
  BY <1>13, <1>15, <1>16 DEF BootstrapNext

\* Steps that leave what an issue request has read as it is.
IssuesKept ==
  \A c \in Calls : calls'[c].op = "issue" =>
    /\ calls[c].op = "issue"
    /\ calls'[c].bundle = calls[c].bundle /\ calls'[c].draft = calls[c].draft

LEMMA BundleStandsStep ==
  CurrentInv /\ [BootstrapNext]_bootstrapVars => BundleStands'
<1> SUFFICES ASSUME CurrentInv, [BootstrapNext]_bootstrapVars PROVE BundleStands'
  OBVIOUS
<1> USE DEF CurrentInv, TypeInv
<1>1. /\ calls \in [Calls -> CallRecords] /\ made \in [Drafts -> Bundles]
      /\ jobs \in [Slots -> JobRecords] /\ BundleStands /\ CallsReady
  BY DEF BootstrapTypeOK
<1>2. ASSUME IssuesKept, made' = made PROVE BundleStands'
  BY <1>1, <1>2 DEF IssuesKept, BundleStands, Comparing
<1>3. ASSUME UNCHANGED <<calls, made>> PROVE BundleStands'
  BY <1>2, <1>3 DEF IssuesKept
<1>4. CASE \/ RemoveRequest \/ ClientRequest \/ \E v \in Values : UpdateRequest(v)
           \/ \E d \in Drafts : Revoke(d)
           \/ \E r \in DOMAIN runs, s \in {"installed", "failed"} : MachineReports(r, s)
  BY <1>3, <1>4 DEF RemoveRequest, ClientRequest, UpdateRequest, Revoke, MachineReports, rowVars
<1>5. ASSUME NEW j \in Slots,
             \/ Cancel(j) \/ UpdateEnds(j) \/ UpdateCompares(j) \/ UpdateSaves(j)
             \/ RemoveDeletes(j) \/ OtherEnds(j)
             \/ PrepareReads(j) \/ PrepareReturns(j) \/ PrepareThrows(j)
      PROVE  BundleStands'
  BY <1>3, <1>5 DEF Cancel, UpdateEnds, UpdateCompares, UpdateSaves, RemoveDeletes, OtherEnds,
                    PrepareReads, PrepareReturns, PrepareThrows, rowVars
<1>6. ASSUME NEW j \in Slots, PrepareReady(j) PROVE BundleStands'
  <2> DEFINE d0 == jobs[j].draft
  <2>1. j \in Making
    BY <1>6 DEF PrepareReady, Making, Preparations
  <2>2. made[d0].boot = "none"
    BY <2>1 DEF PreparationsApart
  <2>3. calls' = calls /\ \A d \in Drafts : d # d0 => made'[d] = made[d]
    BY <1>1, <1>6 DEF PrepareReady
  <2>4. \A c \in Comparing : calls[c].draft \in Drafts /\ calls[c].draft # d0
    BY <1>1, <2>2 DEF CallsReady, BundleStands, Comparing
  <2> QED
    BY <1>1, <2>3, <2>4 DEF BundleStands, Comparing
<1>7. ASSUME NEW c \in Calls, calls' = Resumed(c), made' = made PROVE BundleStands'
  <2>1. IssuesKept
    BY <1>1, <1>7 DEF Resumed, NoCall, IssuesKept
  <2> QED
    BY <1>2, <1>7, <2>1
<1>8. ASSUME NEW c \in Calls,
             \/ UploadCreates(c) \/ PrepareCreates(c) \/ CallFails(c)
             \/ CallInvalidates(c) \/ Issue(c) \/ StartServes(c)
      PROVE  BundleStands'
  BY <1>7, <1>8 DEF UploadCreates, PrepareCreates, CallFails, CallInvalidates, Issue,
                    StartServes, rowVars
<1>9. ASSUME NEW c \in Calls, CallReads(c) \/ StartCompares(c) PROVE BundleStands'
  <2>1. IssuesKept
    BY <1>1, <1>9 DEF CallReads, StartCompares, IssuesKept, CallRecords
  <2> QED
    BY <1>2, <1>9, <2>1 DEF CallReads, StartCompares, rowVars
<1>10. ASSUME NEW op \in {"prepare", "upload"}, JobRequest(op) PROVE BundleStands'
  <2>1. [NoCall EXCEPT !.op = op, !.step = "waiting"].op # "issue"
    BY DEF NoCall
  <2>2. IssuesKept
    BY <1>1, <1>10, <2>1 DEF JobRequest, Suspended, IssuesKept
  <2> QED
    BY <1>2, <1>10, <2>2 DEF JobRequest, rowVars
<1>11. ASSUME NEW d \in Drafts, IssueRequest(d) PROVE BundleStands'
  <2> DEFINE call == [op |-> "issue", draft |-> d, bundle |-> made[d], profile |-> Unread,
                      step |-> "reading"]
  <2>1. call.draft = d /\ call.bundle = made[d]
    OBVIOUS
  <2>2. PICK c \in Calls : calls' = [calls EXCEPT ![c] = call]
    BY <1>11 DEF IssueRequest, Suspended
  <2> HIDE DEF call
  <2>3. calls'[c] = call /\ \A k \in Calls : k # c => calls'[k] = calls[k]
    BY <1>1, <2>2
  <2>4. made' = made
    BY <1>11 DEF IssueRequest, rowVars
  <2> QED
    BY <1>1, <2>1, <2>3, <2>4 DEF BundleStands, Comparing
<1>12. ASSUME NEW d \in Drafts, StartRequest(d) PROVE BundleStands'
  <2>1. PICK c \in Calls, b \in Bundles :
          calls' = [calls EXCEPT ![c] = [op |-> "start", draft |-> d, bundle |-> b,
                                         profile |-> Unread, step |-> "reading"]]
    BY <1>1, <1>12 DEF StartRequest, Suspended
  <2>2. IssuesKept
    BY <1>1, <2>1 DEF IssuesKept
  <2> QED
    BY <1>2, <1>12, <2>2 DEF StartRequest
<1>13. CASE ApiRestart
  <2>1. IssuesKept
    BY <1>13 DEF ApiRestart, NoCall, IssuesKept
  <2> QED
    BY <1>2, <1>13, <2>1 DEF ApiRestart, rowVars
<1>14. CASE UNCHANGED bootstrapVars
  BY <1>3, <1>14 DEF bootstrapVars
<1>15. CASE PanelStep
  BY <1>4, <1>5, <1>6, <1>8, <1>9, <1>10, <1>11, <1>12, <1>13, <1>15, ZenonT(90) DEF PanelStep
<1> QED
  BY <1>4, <1>14, <1>15 DEF BootstrapNext

\* Steps that leave settings, bundles and the draft last reported installed alone,
\* and let no update keep a state.
KeptStatesKept ==
  /\ UNCHANGED <<config, applied, made>>
  /\ \A i \in Slots : jobs'[i].op = "update" /\ jobs'[i].step = "writing" =>
       /\ jobs[i].op = "update" /\ jobs[i].step = "writing"
       /\ jobs'[i].keep = jobs[i].keep /\ jobs'[i].boot = jobs[i].boot

LEMMA KeptStateFitsStep ==
  CurrentInv /\ [BootstrapNext]_bootstrapVars => KeptStateFits'
<1> SUFFICES ASSUME CurrentInv, [BootstrapNext]_bootstrapVars PROVE KeptStateFits'
  OBVIOUS
<1> USE DEF CurrentInv, TypeInv
<1>1. /\ jobs \in [Slots -> JobRecords] /\ made \in [Drafts -> Bundles]
      /\ config \in Values \union {Removed} /\ applied \in Drafts \union {0}
      /\ KeptStateFits
  BY DEF BootstrapTypeOK
<1>2. ASSUME KeptStatesKept PROVE KeptStateFits'
  BY <1>1, <1>2 DEF KeptStatesKept, KeptStateFits, Keeping
<1>3. ASSUME UNCHANGED <<config, applied, made, jobs>> PROVE KeptStateFits'
  BY <1>2, <1>3 DEF KeptStatesKept
<1>4. ASSUME NEW op, NEW d, NEW b, NEW st, Started(Job(op, d, b, st)),
             op # "update" \/ st # "writing", UNCHANGED <<config, applied, made>>
      PROVE  KeptStateFits'
  <2>1. Job(op, d, b, st).op = op /\ Job(op, d, b, st).step = st
    BY DEF Job, NoJob
  <2>2. KeptStatesKept
    BY <1>1, <1>4, <2>1 DEF Started, KeptStatesKept
  <2> QED
    BY <1>2, <2>2
<1>5. CASE RemoveRequest \/ ClientRequest \/ \E v \in Values : UpdateRequest(v)
  BY <1>4, <1>5 DEF RemoveRequest, ClientRequest, UpdateRequest, rowVars
<1>6. ASSUME NEW c \in Calls, UploadCreates(c) \/ PrepareCreates(c) PROVE KeptStateFits'
  BY <1>4, <1>6 DEF UploadCreates, PrepareCreates, rowVars
<1>7. ASSUME NEW j \in Slots,
             UpdateEnds(j) \/ OtherEnds(j) \/ PrepareReturns(j) \/ PrepareThrows(j)
      PROVE  KeptStateFits'
  <2>1. jobs' = Ended(j) /\ UNCHANGED <<config, applied, made>>
    BY <1>7 DEF UpdateEnds, OtherEnds, PrepareReturns, PrepareThrows, rowVars
  <2>2. KeptStatesKept
    BY <1>1, <2>1 DEF Ended, NoJob, KeptStatesKept
  <2> QED
    BY <1>2, <2>2
<1>8. ASSUME NEW j \in Slots, UpdateSaves(j) \/ RemoveDeletes(j) PROVE KeptStateFits'
  <2>1. jobs' = Ended(j) /\ j \in Writers
    BY <1>8 DEF UpdateSaves, RemoveDeletes, Writers, WriterOps
  <2>2. \A i \in Slots : jobs'[i].op = "update" => i \in Writers /\ i # j
    BY <1>1, <2>1 DEF Ended, NoJob, Writers, WriterOps
  <2> QED
    BY <2>1, <2>2 DEF OneWriter, KeptStateFits, Keeping
<1>9. ASSUME NEW j \in Slots, UpdateCompares(j) PROVE KeptStateFits'
  <2>1. PICK keep \in IF jobs[j].boot = config THEN {state, "requires-update"}
                       ELSE {"requires-update"} :
               jobs' = [jobs EXCEPT ![j].step = "writing", ![j].keep = keep]
    BY <1>9 DEF UpdateCompares
  <2>2. UNCHANGED <<config, applied, made>> /\ config # Removed
    BY <1>9 DEF UpdateCompares, rowVars
  <2>3. \A i \in Slots : i # j => jobs'[i] = jobs[i]
    BY <1>1, <2>1
  <2>4. jobs'[j].keep = keep /\ jobs'[j].boot = jobs[j].boot
    BY <1>1, <2>1 DEF JobRecords
  <2>5. keep # "requires-update" => jobs[j].boot = config /\ keep = state
    BY <2>1
  <2>6. keep = "installed" => applied # 0 /\ made[applied].boot = config
    BY <2>2, <2>5 DEF InstalledIsCurrent
  <2> QED
    BY <1>1, <2>2, <2>3, <2>4, <2>5, <2>6 DEF KeptStateFits, Keeping
<1>10. ASSUME NEW j \in Slots, Cancel(j) \/ PrepareReads(j) PROVE KeptStateFits'
  <2>1. KeptStatesKept
    BY <1>1, <1>10 DEF Cancel, PrepareReads, rowVars, KeptStatesKept, JobRecords
  <2> QED
    BY <1>2, <2>1
<1>11. ASSUME NEW j \in Slots, PrepareReady(j) PROVE KeptStateFits'
  <2> DEFINE d0 == jobs[j].draft
  <2>1. made[d0].boot = "none"
    BY <1>11 DEF PrepareReady, Making, Preparations, PreparationsApart
  <2>2. UNCHANGED <<config, applied>> /\ \A d \in Drafts : d # d0 => made'[d] = made[d]
    BY <1>1, <1>11 DEF PrepareReady
  <2>3. config # "none"
    BY <1>1, ValuesAssumption DEF Removed
  <2>4. \A i \in Slots : /\ jobs'[i].op = jobs[i].op /\ jobs'[i].keep = jobs[i].keep
                         /\ jobs'[i].boot = jobs[i].boot
    BY <1>1, <1>11 DEF PrepareReady, JobRecords
  <2>5. \A i \in Slots : jobs'[i].op = "update" => jobs'[i] = jobs[i]
    BY <1>1, <1>11, <2>4 DEF PrepareReady
  <2>6. \A i \in Keeping' : i \in Keeping /\ jobs'[i] = jobs[i]
    BY <2>5 DEF Keeping
  <2>7. applied # 0 /\ made[applied].boot = config => made'[applied].boot = config
    BY <1>1, <2>1, <2>2, <2>3
  <2> QED
    BY <1>1, <2>2, <2>6, <2>7 DEF KeptStateFits
<1>12. ASSUME NEW r \in DOMAIN runs, NEW s \in {"installed", "failed"}, MachineReports(r, s)
       PROVE  KeptStateFits'
  <2>1. runs[r] \in Drafts /\ runs[r] # 0
    <3>1. runs \in Seq(Drafts) /\ r \in 1..Len(runs)
      BY DEF BootstrapTypeOK
    <3>2. NumDrafts \in Nat
      BY BoundsAssumption
    <3> QED
      BY <3>1, <3>2 DEF Drafts
  <2>2. UNCHANGED <<config, made, jobs>>
    BY <1>12 DEF MachineReports
  <2>3. applied' = applied \/ (applied' # 0 /\ made[applied'].boot = config)
    BY <1>12, <2>1 DEF MachineReports, Report, LiveClaimIsCurrent
  <2> QED
    BY <1>1, <2>2, <2>3 DEF KeptStateFits, Keeping
<1>13. ASSUME NEW c \in Calls,
              CallFails(c) \/ CallReads(c) \/ CallInvalidates(c) \/ Issue(c)
              \/ StartCompares(c) \/ StartServes(c)
       PROVE  KeptStateFits'
  BY <1>3, <1>13 DEF CallFails, CallReads, CallInvalidates, Issue, StartCompares, StartServes,
                     rowVars
<1>14. CASE \/ \E op \in {"prepare", "upload"} : JobRequest(op)
            \/ \E d \in Drafts : IssueRequest(d) \/ StartRequest(d) \/ Revoke(d)
  BY <1>3, <1>14 DEF JobRequest, IssueRequest, StartRequest, Revoke, rowVars
<1>15. CASE ApiRestart
  <2>1. KeptStatesKept
    BY <1>15 DEF ApiRestart, NoJob, KeptStatesKept, rowVars
  <2> QED
    BY <1>2, <2>1
<1>16. CASE UNCHANGED bootstrapVars
  BY <1>3, <1>16 DEF bootstrapVars
<1>17. CASE PanelStep
  BY <1>5, <1>6, <1>7, <1>8, <1>9, <1>10, <1>11, <1>13, <1>14, <1>15, <1>17, ZenonT(90)
  DEF PanelStep
<1> QED
  BY <1>12, <1>16, <1>17 DEF BootstrapNext

LEMMA LiveClaimStep ==
  CurrentInv /\ [BootstrapNext]_bootstrapVars => LiveClaimIsCurrent'
<1> SUFFICES ASSUME CurrentInv, [BootstrapNext]_bootstrapVars PROVE LiveClaimIsCurrent'
  OBVIOUS
<1> USE DEF CurrentInv, TypeInv
<1>1. /\ draft \in [Drafts -> Statuses] /\ made \in [Drafts -> Bundles]
      /\ jobs \in [Slots -> JobRecords] /\ config \in Values \union {Removed}
      /\ LiveClaimIsCurrent
  BY DEF BootstrapTypeOK
<1>2. ASSUME UNCHANGED <<config, made>>,
             \A d \in Drafts : draft'[d] \in {"issued", "claimed"} =>
               draft[d] \in {"issued", "claimed"}
      PROVE  LiveClaimIsCurrent'
  BY <1>1, <1>2 DEF LiveClaimIsCurrent, Live
<1>3. ASSUME UNCHANGED <<config, made, draft>> PROVE LiveClaimIsCurrent'
  BY <1>2, <1>3
<1>4. CASE \/ RemoveRequest \/ ClientRequest \/ ApiRestart
           \/ \E v \in Values : UpdateRequest(v)
           \/ \E op \in {"prepare", "upload"} : JobRequest(op)
           \/ \E d \in Drafts : IssueRequest(d)
  BY <1>3, <1>4 DEF RemoveRequest, ClientRequest, ApiRestart, UpdateRequest, JobRequest,
                    IssueRequest, rowVars
<1>5. ASSUME NEW j \in Slots,
             Cancel(j) \/ UpdateEnds(j) \/ UpdateCompares(j) \/ OtherEnds(j)
             \/ PrepareReads(j) \/ PrepareReturns(j)
      PROVE  LiveClaimIsCurrent'
  BY <1>3, <1>5 DEF Cancel, UpdateEnds, UpdateCompares, OtherEnds, PrepareReads,
                    PrepareReturns, rowVars
<1>6. ASSUME NEW j \in Slots, UpdateSaves(j) PROVE LiveClaimIsCurrent'
  <2>1. made' = made /\ config' = jobs[j].boot /\ ~jobs[j].aborted
    BY <1>6 DEF UpdateSaves, NothingAborted
  <2>2. CASE jobs[j].boot = config
    BY <1>3, <1>6, <2>1, <2>2 DEF UpdateSaves
  <2>3. CASE jobs[j].boot # config
    <3>1. draft' = Invalidated
      BY <1>6, <2>1, <2>3 DEF UpdateSaves
    <3>2. \A d \in Drafts : draft'[d] \notin {"issued", "claimed"}
      BY <3>1 DEF Invalidated, OpenStatuses
    <3> QED
      BY <3>2 DEF LiveClaimIsCurrent, Live
  <2> QED
    BY <2>2, <2>3
<1>7. ASSUME NEW j \in Slots, RemoveDeletes(j) PROVE LiveClaimIsCurrent'
  BY <1>7 DEF RemoveDeletes, LiveClaimIsCurrent, Live
<1>8. ASSUME NEW j \in Slots, PrepareReady(j) PROVE LiveClaimIsCurrent'
  <2> DEFINE d0 == jobs[j].draft
  <2>1. /\ config' = config
        /\ \A d \in Drafts : d # d0 => made'[d] = made[d] /\ draft'[d] = draft[d]
    BY <1>1, <1>8 DEF PrepareReady, Written
  <2>2. d0 \in Drafts => draft'[d0] \in {"absent", "ready"}
    BY <1>1, <1>8 DEF PrepareReady, Written
  <2> QED
    BY <1>1, <2>1, <2>2 DEF LiveClaimIsCurrent, Live
<1>9. ASSUME NEW j \in Slots, PrepareThrows(j) PROVE LiveClaimIsCurrent'
  BY <1>1, <1>2, <1>9 DEF PrepareThrows, Written
<1>10. ASSUME NEW c \in Calls, PrepareCreates(c) PROVE LiveClaimIsCurrent'
  BY <1>1, <1>2, <1>10 DEF PrepareCreates
<1>11. ASSUME NEW c \in Calls, CallInvalidates(c) PROVE LiveClaimIsCurrent'
  <2>1. \A d \in Drafts : draft'[d] \notin {"issued", "claimed"}
    BY <1>11 DEF CallInvalidates, Invalidated, OpenStatuses
  <2> QED
    BY <2>1 DEF LiveClaimIsCurrent, Live
<1>12. ASSUME NEW c \in Calls, Issue(c) PROVE LiveClaimIsCurrent'
  <2> DEFINE d0 == calls[c].draft
  <2>1. /\ UNCHANGED <<config, made>> /\ config \in Values
        /\ draft' = [draft EXCEPT ![d0] = "issued"]
    BY <1>1, <1>12 DEF Issue, Compares
  <2>2. calls[c].bundle.boot = config
    BY <1>12 DEF Issue, Changed
  <2>3. c \in Comparing
    BY <1>12, <2>1, <2>2, ValuesAssumption DEF Issue, Comparing
  <2>4. made[d0].boot = config
    BY <2>2, <2>3 DEF BundleStands
  <2>5. \A d \in Drafts : d # d0 => draft'[d] = draft[d]
    BY <1>1, <2>1
  <2> QED
    BY <1>1, <2>1, <2>4, <2>5 DEF LiveClaimIsCurrent, Live
<1>13. ASSUME NEW c \in Calls,
              UploadCreates(c) \/ CallFails(c) \/ CallReads(c) \/ StartCompares(c)
              \/ StartServes(c)
       PROVE  LiveClaimIsCurrent'
  BY <1>3, <1>13 DEF UploadCreates, CallFails, CallReads, StartCompares, StartServes, rowVars
<1>14. ASSUME NEW d \in Drafts, StartRequest(d) \/ Revoke(d) PROVE LiveClaimIsCurrent'
  BY <1>1, <1>2, <1>14 DEF StartRequest, Revoke, Live
<1>15. ASSUME NEW r \in DOMAIN runs, NEW s \in {"installed", "failed"}, MachineReports(r, s)
       PROVE  LiveClaimIsCurrent'
  BY <1>1, <1>2, <1>15 DEF MachineReports, Report
<1>16. CASE UNCHANGED bootstrapVars
  BY <1>3, <1>16 DEF bootstrapVars
<1>17. CASE PanelStep
  BY <1>4, <1>5, <1>6, <1>7, <1>8, <1>9, <1>10, <1>11, <1>12, <1>13, <1>14, <1>17, ZenonT(90)
  DEF PanelStep
<1> QED
  BY <1>15, <1>16, <1>17 DEF BootstrapNext

LEMMA InstalledStep ==
  CurrentInv /\ [BootstrapNext]_bootstrapVars => InstalledIsCurrent'
<1> SUFFICES ASSUME CurrentInv, [BootstrapNext]_bootstrapVars PROVE InstalledIsCurrent'
  OBVIOUS
<1> USE DEF CurrentInv, TypeInv
<1>1. UNCHANGED <<config, state, applied, made>> => InstalledIsCurrent'
  BY DEF InstalledIsCurrent
<1>2. CASE \/ RemoveRequest \/ ClientRequest \/ ApiRestart
           \/ \E v \in Values : UpdateRequest(v)
           \/ \E op \in {"prepare", "upload"} : JobRequest(op)
           \/ \E d \in Drafts : IssueRequest(d) \/ StartRequest(d) \/ Revoke(d)
  BY <1>1, <1>2 DEF RemoveRequest, ClientRequest, ApiRestart, UpdateRequest, JobRequest,
                    IssueRequest, StartRequest, Revoke, rowVars
<1>3. ASSUME NEW j \in Slots,
             Cancel(j) \/ UpdateEnds(j) \/ UpdateCompares(j) \/ OtherEnds(j)
             \/ PrepareReads(j) \/ PrepareReturns(j)
      PROVE  InstalledIsCurrent'
  BY <1>1, <1>3 DEF Cancel, UpdateEnds, UpdateCompares, OtherEnds, PrepareReads,
                    PrepareReturns, rowVars
<1>4. ASSUME NEW c \in Calls,
             UploadCreates(c) \/ PrepareCreates(c) \/ CallFails(c) \/ CallReads(c)
             \/ CallInvalidates(c) \/ Issue(c) \/ StartCompares(c) \/ StartServes(c)
      PROVE  InstalledIsCurrent'
  BY <1>1, <1>4 DEF UploadCreates, PrepareCreates, CallFails, CallReads, CallInvalidates,
                    Issue, StartCompares, StartServes, rowVars
<1>5. ASSUME NEW j \in Slots, UpdateSaves(j) PROVE InstalledIsCurrent'
  <2>1. config' = jobs[j].boot /\ state' = jobs[j].keep /\ UNCHANGED <<applied, made>>
    BY <1>5 DEF UpdateSaves
  <2>2. state' = "installed" => j \in Keeping
    BY <1>5, <2>1 DEF UpdateSaves, Keeping
  <2> QED
    BY <2>1, <2>2 DEF KeptStateFits, InstalledIsCurrent
<1>6. ASSUME NEW j \in Slots, RemoveDeletes(j) PROVE InstalledIsCurrent'
  BY <1>6 DEF RemoveDeletes, InstalledIsCurrent
<1>7. ASSUME NEW j \in Slots, PrepareReady(j) \/ PrepareThrows(j) PROVE InstalledIsCurrent'
  <2>1. config' = config
    BY <1>7 DEF PrepareReady, PrepareThrows
  <2>2. config # Removed => state' \in {"ready", "failed"}
    BY <1>7 DEF PrepareReady, PrepareThrows, StateWritten
  <2> QED
    BY <2>1, <2>2 DEF InstalledIsCurrent
<1>8. ASSUME NEW r \in DOMAIN runs, NEW s \in {"installed", "failed"}, MachineReports(r, s)
      PROVE  InstalledIsCurrent'
  <2>1. runs[r] \in Drafts /\ runs[r] # 0
    <3>1. runs \in Seq(Drafts) /\ r \in 1..Len(runs)
      BY DEF BootstrapTypeOK
    <3>2. NumDrafts \in Nat
      BY BoundsAssumption
    <3> QED
      BY <3>1, <3>2 DEF Drafts
  <2>2. UNCHANGED <<config, made>>
    BY <1>8 DEF MachineReports
  <2>3. CASE Live(runs[r])
    BY <1>8, <2>1, <2>2, <2>3 DEF MachineReports, Report, LiveClaimIsCurrent, InstalledIsCurrent
  <2>4. CASE ~Live(runs[r])
    BY <1>1, <1>8, <2>2, <2>4 DEF MachineReports, Report
  <2> QED
    BY <2>3, <2>4
<1>9. CASE UNCHANGED bootstrapVars
  BY <1>1, <1>9 DEF bootstrapVars
<1>10. CASE PanelStep
  BY <1>2, <1>3, <1>4, <1>5, <1>6, <1>7, <1>10, ZenonT(90) DEF PanelStep
<1> QED
  BY <1>8, <1>9, <1>10 DEF BootstrapNext

\* The strengthening of the two theorems below: it is inductive when no job is
\* cancelled, and a cancelled update breaks it (run bootstrap_cancelled).
THEOREM CurrentInvariant ==
  ASSUME "cancel" \notin Faults
  PROVE  BootstrapSpec => []CurrentInv
<1>1. BootstrapInit => CurrentInv
  <2> SUFFICES ASSUME BootstrapInit PROVE CurrentInv
    OBVIOUS
  <2>1. OneWriter /\ JobsReady /\ RemovalStands /\ NothingAborted /\ KeptStateFits
    BY DEF BootstrapInit, RemovalStands, NoJob, OneWriter, Writers, WriterOps, JobsReady, NothingAborted,
           KeptStateFits, Keeping
  <2>2. CallsReady /\ BundleStands
    BY DEF BootstrapInit, NoCall, CallsReady, BundleStands, Comparing
  <2>3. PreparationsApart
    BY DEF BootstrapInit, NoJob, NoBundle, PreparationsApart, Preparations, Making
  <2>4. LiveClaimIsCurrent /\ InstalledIsCurrent
    BY DEF BootstrapInit, LiveClaimIsCurrent, Live, InstalledIsCurrent
  <2> QED
    BY <2>1, <2>2, <2>3, <2>4, InitType DEF CurrentInv, TypeInv
<1>2. CurrentInv /\ [BootstrapNext]_bootstrapVars => CurrentInv'
  <2> SUFFICES ASSUME CurrentInv, [BootstrapNext]_bootstrapVars PROVE CurrentInv'
    OBVIOUS
  <2>1. TypeInv
    BY DEF CurrentInv
  <2>2. TypeInv'
    BY <2>1, TypeOKStep, OneWriterStep, JobsReadyStep, CallsReadyStep, RemovalStep DEF TypeInv
  <2>3. NothingAborted' /\ BundleStands' /\ KeptStateFits'
    BY NothingAbortedStep, BundleStandsStep, KeptStateFitsStep
  <2>4. PreparationsApart'
    BY <2>2, PreparationsApartStep DEF CurrentInv, TypeInv
  <2>5. LiveClaimIsCurrent' /\ InstalledIsCurrent'
    BY LiveClaimStep, InstalledStep
  <2> QED
    BY <2>2, <2>3, <2>4, <2>5 DEF CurrentInv
<1> QED
  BY <1>1, <1>2, PTL DEF BootstrapSpec

\* While no job is cancelled, a command that is out installs the settings its
\* binding has, whatever preparations, updates, rebuilds, revocations, suspended
\* requests and restarts of the API came in between.
THEOREM CommandsAreCurrent ==
  ASSUME "cancel" \notin Faults
  PROVE  BootstrapSpec => []LiveClaimIsCurrent
<1>1. CurrentInv => LiveClaimIsCurrent
  BY DEF CurrentInv
<1> QED
  BY <1>1, CurrentInvariant, PTL

\* While no job is cancelled, a binding shown as installed has the settings of the
\* draft whose script last reported so.
THEOREM InstalledShownTruly ==
  ASSUME "cancel" \notin Faults
  PROVE  BootstrapSpec => []InstalledIsCurrent
<1>1. CurrentInv => InstalledIsCurrent
  BY DEF CurrentInv
<1> QED
  BY <1>1, CurrentInvariant, PTL

-----------------------------------------------------------------------------
(* Claims.                                                                 *)

\* Steps that issue nothing and finish no preparation.
ClaimsKept ==
  /\ UNCHANGED <<handed, created>>
  /\ \A d \in Drafts : \/ draft'[d] = draft[d]
                       \/ draft'[d] \in {"failed", "absent"}
                       \/ Live(d) /\ draft'[d] \in {"claimed", "installed"}
  /\ \A i \in Making' : i \in Making /\ jobs'[i].draft = jobs[i].draft

\* What NoClaimRevived says of a step.
NothingRevived ==
  \A d \in handed : ~Live(d) => draft'[d] \notin {"preparing", "ready", "issued", "claimed"}

LEMMA ClaimsStep ==
  IssuedInv /\ BootstrapTypeOK' /\ [BootstrapNext]_bootstrapVars
  => ClaimsSpent' /\ NothingRevived
<1> SUFFICES ASSUME IssuedInv, BootstrapTypeOK', [BootstrapNext]_bootstrapVars
             PROVE  ClaimsSpent' /\ NothingRevived
  OBVIOUS
<1> USE DEF IssuedInv, TypeInv
<1>1. /\ jobs \in [Slots -> JobRecords] /\ created \in 0..NumDrafts /\ NumDrafts \in Nat
      /\ draft \in [Drafts -> Statuses] /\ calls \in [Calls -> CallRecords]
      /\ handed \subseteq Drafts /\ PreparationsApart /\ ClaimsSpent
  BY BoundsAssumption DEF BootstrapTypeOK
<1>2. \A j \in Making : jobs[j].draft \in Drafts /\ jobs[j].draft \in 1..created
  BY <1>1 DEF PreparationsApart, Making, Preparations, Drafts
<1>3. ASSUME ClaimsKept PROVE ClaimsSpent' /\ NothingRevived
  <2>1. /\ handed' = handed /\ created' = created
        /\ \A i \in Making' : i \in Making /\ jobs'[i].draft = jobs[i].draft
    BY <1>3 DEF ClaimsKept
  <2>2. \A d \in handed : draft'[d] \notin {"preparing", "ready"}
    BY <1>1, <1>3 DEF ClaimsKept, ClaimsSpent
  <2>3. \A j \in Making : draft'[jobs[j].draft] \in {"preparing", "failed", "absent"}
    BY <1>1, <1>2, <1>3 DEF ClaimsKept, ClaimsSpent, Live
  <2>4. ClaimsSpent'
    BY <1>1, <2>1, <2>2, <2>3 DEF ClaimsSpent
  <2>5. NothingRevived
    BY <1>1, <1>3, <2>2 DEF ClaimsKept, NothingRevived, Live
  <2> QED
    BY <2>4, <2>5
<1>4. ASSUME UNCHANGED <<handed, created, draft>>,
             NEW i \in Slots, NEW job, jobs' = [jobs EXCEPT ![i] = job], job.op # "prepare"
      PROVE  ClaimsKept
  BY <1>1, <1>4 DEF ClaimsKept, Making, Preparations
<1>5. CASE RemoveRequest \/ ClientRequest \/ \E v \in Values : UpdateRequest(v)
  <2>1. PICK op \in JobOps \ {"prepare"}, b \in Values \union {"none"},
             st \in JobSteps : Started(Job(op, 0, b, st))
    BY <1>5 DEF RemoveRequest, ClientRequest, UpdateRequest, JobOps, JobSteps
  <2>2. Job(op, 0, b, st).op # "prepare"
    BY DEF Job, NoJob
  <2>3. ClaimsKept
    BY <1>4, <1>5, <2>1, <2>2 DEF Started, RemoveRequest, ClientRequest, UpdateRequest, rowVars
  <2> QED
    BY <1>3, <2>3
<1>6. ASSUME NEW c \in Calls, UploadCreates(c) PROVE ClaimsSpent' /\ NothingRevived
  <2>1. Job("upload", 0, "none", "writing").op # "prepare"
    BY DEF Job, NoJob
  <2>2. ClaimsKept
    BY <1>4, <1>6, <2>1 DEF Started, UploadCreates, rowVars
  <2> QED
    BY <1>3, <2>2
<1>7. ASSUME NEW j \in Slots,
             UpdateEnds(j) \/ UpdateSaves(j) \/ RemoveDeletes(j) \/ OtherEnds(j)
             \/ PrepareReturns(j) \/ PrepareThrows(j)
      PROVE  ClaimsSpent' /\ NothingRevived
  <2>1. jobs' = Ended(j) /\ UNCHANGED <<handed, created>>
    BY <1>7 DEF UpdateEnds, UpdateSaves, RemoveDeletes, OtherEnds, PrepareReturns,
                PrepareThrows, rowVars
  <2>2. \A d \in Drafts : draft'[d] = draft[d] \/ draft'[d] \in {"failed", "absent"}
    BY <1>1, <1>7 DEF UpdateEnds, UpdateSaves, RemoveDeletes, OtherEnds, PrepareReturns,
                      PrepareThrows, Invalidated, Written, rowVars
  <2>3. \A i \in Making' : i \in Making /\ jobs'[i].draft = jobs[i].draft
    BY <1>1, <2>1 DEF Ended, NoJob, Making, Preparations
  <2> QED
    BY <1>3, <2>1, <2>2, <2>3 DEF ClaimsKept
<1>8. ASSUME NEW j \in Slots, Cancel(j) \/ UpdateCompares(j) \/ PrepareReads(j)
      PROVE  ClaimsSpent' /\ NothingRevived
  <2>1. \A i \in Slots : /\ jobs'[i].op = jobs[i].op
                         /\ jobs'[i].draft = jobs[i].draft
    BY <1>1, <1>8 DEF Cancel, UpdateCompares, PrepareReads, JobRecords
  <2>2. \A i \in Slots : jobs'[i].op = "prepare" /\ jobs'[i].step \in {"reading", "working"}
          => jobs[i].step \in {"reading", "working"}
    BY <1>1, <1>8 DEF Cancel, UpdateCompares, PrepareReads, JobRecords
  <2>3. UNCHANGED <<draft, handed, created>>
    BY <1>8 DEF Cancel, UpdateCompares, PrepareReads, rowVars
  <2> QED
    BY <1>3, <2>1, <2>2, <2>3 DEF ClaimsKept, Making, Preparations
<1>9. ASSUME NEW j \in Slots, PrepareReady(j) PROVE ClaimsSpent' /\ NothingRevived
  <2> DEFINE d0 == jobs[j].draft
  <2>1. j \in Making /\ j \in Preparations
    BY <1>9 DEF PrepareReady, Making, Preparations
  <2>2. d0 \in Drafts /\ d0 \notin handed
    BY <1>1, <1>2, <2>1 DEF ClaimsSpent
  <2>3. /\ \A d \in Drafts : d # d0 => draft'[d] = draft[d]
        /\ handed' = handed /\ created' = created
    BY <1>1, <1>9 DEF PrepareReady, Written
  <2>4. \A i \in Slots : /\ jobs'[i].op = jobs[i].op /\ jobs'[i].draft = jobs[i].draft
                         /\ i # j => jobs'[i] = jobs[i]
    BY <1>1, <1>9 DEF PrepareReady, JobRecords
  <2>5. jobs'[j].step \notin {"reading", "working"}
    BY <1>1, <1>9 DEF PrepareReady, JobRecords
  <2>6. \A i \in Making' : i \in Making /\ jobs'[i].draft = jobs[i].draft /\ jobs[i].draft # d0
    BY <1>1, <2>1, <2>4, <2>5 DEF Making, Preparations, PreparationsApart
  <2>7. \A i \in Making' : /\ jobs'[i].draft \notin handed
                           /\ draft'[jobs'[i].draft] \in {"preparing", "failed", "absent"}
    BY <1>1, <1>2, <2>3, <2>6 DEF ClaimsSpent
  <2>8. \A d \in handed : draft'[d] = draft[d]
    BY <1>1, <2>2, <2>3
  <2>9. ClaimsSpent'
    BY <1>1, <2>3, <2>7, <2>8 DEF ClaimsSpent
  <2> QED
    BY <1>1, <2>8, <2>9 DEF ClaimsSpent, NothingRevived, Live
<1>10. ASSUME NEW c \in Calls, PrepareCreates(c) PROVE ClaimsSpent' /\ NothingRevived
  <2> DEFINE d0 == created + 1
             job == Job("prepare", d0, config, "reading")
  <2>1. job.draft = d0
    BY DEF Job, NoJob
  <2>2. /\ d0 \in Drafts /\ d0 \in Nat /\ created' = d0 /\ handed' = handed
        /\ draft' = [draft EXCEPT ![d0] = "preparing"]
    BY <1>1, <1>10 DEF PrepareCreates, Drafts
  <2>3. PICK i \in Slots : jobs[i] = NoJob /\ jobs' = [jobs EXCEPT ![i] = job]
    BY <1>10, <2>2 DEF PrepareCreates, Started
  <2> HIDE DEF job
  <2>4. jobs'[i] = job /\ \A k \in Slots : k # i => jobs'[k] = jobs[k]
    BY <1>1, <2>3
  <2>5. d0 \notin handed /\ d0 \notin 1..created
    BY <1>1 DEF ClaimsSpent
  <2>6. \A k \in Making' : k # i => k \in Making /\ jobs'[k].draft = jobs[k].draft
    BY <2>4 DEF Making, Preparations
  <2>7. \A k \in Making' : /\ jobs'[k].draft \notin handed
                           /\ draft'[jobs'[k].draft] \in {"preparing", "failed", "absent"}
    <3>1. ASSUME NEW k \in Making', k # i
          PROVE  /\ jobs'[k].draft \notin handed
                 /\ draft'[jobs'[k].draft] \in {"preparing", "failed", "absent"}
      BY <1>1, <1>2, <2>2, <2>5, <2>6, <3>1 DEF ClaimsSpent
    <3>2. /\ jobs'[i].draft \notin handed
          /\ draft'[jobs'[i].draft] \in {"preparing", "failed", "absent"}
      BY <1>1, <2>1, <2>2, <2>4, <2>5
    <3> QED
      BY <3>1, <3>2
  <2>8. \A d \in handed : draft'[d] = draft[d]
    BY <1>1, <2>2, <2>5
  <2>9. handed' \subseteq 1..created'
    BY <1>1, <2>2 DEF ClaimsSpent
  <2>10. ClaimsSpent'
    BY <1>1, <2>2, <2>7, <2>8, <2>9 DEF ClaimsSpent
  <2> QED
    BY <1>1, <2>8, <2>10 DEF ClaimsSpent, NothingRevived, Live
<1>11. ASSUME NEW c \in Calls, Issue(c) PROVE ClaimsSpent' /\ NothingRevived
  <2> DEFINE d0 == calls[c].draft
  <2>1. /\ d0 \in Drafts /\ draft[d0] = "ready"
        /\ draft' = [draft EXCEPT ![d0] = "issued"] /\ handed' = handed \union {d0}
        /\ created' = created /\ jobs' = jobs
    BY <1>1, <1>11 DEF Issue, CallsReady
  <2>2. d0 \in 1..created /\ d0 \notin handed
    BY <1>1, <2>1 DEF ClaimsSpent, PreparationsApart, Drafts
  <2>3. Making' = Making
    BY <2>1 DEF Making, Preparations
  <2>4. \A i \in Making : jobs[i].draft # d0
    BY <1>1, <2>1 DEF ClaimsSpent
  <2>5. /\ \A d \in handed : draft'[d] = draft[d]
        /\ draft'[d0] = "issued"
        /\ \A i \in Making : draft'[jobs[i].draft] = draft[jobs[i].draft]
    BY <1>1, <1>2, <2>1, <2>2, <2>4
  <2>6. ClaimsSpent'
    BY <1>1, <2>1, <2>2, <2>3, <2>4, <2>5 DEF ClaimsSpent
  <2> QED
    BY <1>1, <2>5, <2>6 DEF ClaimsSpent, NothingRevived, Live
<1>12. ASSUME UNCHANGED <<jobs, handed, created>>,
              \A d \in Drafts : \/ draft'[d] = draft[d] \/ draft'[d] = "failed"
                                \/ Live(d) /\ draft'[d] \in {"claimed", "installed"}
       PROVE  ClaimsSpent' /\ NothingRevived
  BY <1>3, <1>12 DEF ClaimsKept, Making, Preparations
<1>13. ASSUME NEW c \in Calls,
              CallFails(c) \/ CallReads(c) \/ CallInvalidates(c) \/ StartCompares(c)
              \/ StartServes(c)
       PROVE  ClaimsSpent' /\ NothingRevived
  BY <1>1, <1>12, <1>13 DEF CallFails, CallReads, CallInvalidates, StartCompares, StartServes,
                            Invalidated, rowVars
<1>14. ASSUME NEW d \in Drafts, StartRequest(d) \/ Revoke(d) \/ IssueRequest(d)
       PROVE  ClaimsSpent' /\ NothingRevived
  BY <1>1, <1>12, <1>14 DEF IssueRequest, StartRequest, Revoke, rowVars
<1>15. ASSUME NEW r \in DOMAIN runs, NEW s \in {"installed", "failed"}, MachineReports(r, s)
       PROVE  ClaimsSpent' /\ NothingRevived
  BY <1>1, <1>12, <1>15 DEF MachineReports, Report
<1>16. CASE ApiRestart
  <2>1. ClaimsKept
    BY <1>16 DEF ApiRestart, NoJob, ClaimsKept, Making, Preparations, rowVars
  <2> QED
    BY <1>3, <2>1
<1>17. CASE UNCHANGED bootstrapVars
  BY <1>12, <1>17 DEF bootstrapVars
<1>18. ASSUME NEW op \in {"prepare", "upload"}, JobRequest(op)
       PROVE  ClaimsSpent' /\ NothingRevived
  BY <1>12, <1>18 DEF JobRequest, rowVars
<1>19. CASE PanelStep
  BY <1>5, <1>6, <1>7, <1>8, <1>9, <1>10, <1>11, <1>13, <1>14, <1>16, <1>18, <1>19, ZenonT(90)
  DEF PanelStep
<1> QED
  BY <1>15, <1>17, <1>19 DEF BootstrapNext

\* The strengthening that a claim needs, also when jobs are cancelled.
THEOREM IssuedInvariant == BootstrapSpec => []IssuedInv
<1>1. BootstrapInit => IssuedInv
  <2> SUFFICES ASSUME BootstrapInit PROVE IssuedInv
    OBVIOUS
  <2>1. OneWriter /\ JobsReady /\ RemovalStands
    BY DEF BootstrapInit, RemovalStands, NoJob, OneWriter, Writers, WriterOps, JobsReady
  <2>2. CallsReady
    BY DEF BootstrapInit, NoCall, CallsReady
  <2>3. PreparationsApart /\ ClaimsSpent
    BY DEF BootstrapInit, NoJob, NoBundle, PreparationsApart, ClaimsSpent, Preparations, Making
  <2> QED
    BY <2>1, <2>2, <2>3, InitType DEF IssuedInv, TypeInv
<1>2. IssuedInv /\ [BootstrapNext]_bootstrapVars => IssuedInv'
  <2> SUFFICES ASSUME IssuedInv, [BootstrapNext]_bootstrapVars PROVE IssuedInv'
    OBVIOUS
  <2>1. TypeInv'
    BY TypeOKStep, OneWriterStep, JobsReadyStep, CallsReadyStep, RemovalStep DEF IssuedInv, TypeInv
  <2>2. PreparationsApart' /\ ClaimsSpent'
    BY <2>1, PreparationsApartStep, ClaimsStep DEF IssuedInv, TypeInv
  <2> QED
    BY <2>1, <2>2 DEF IssuedInv
<1> QED
  BY <1>1, <1>2, PTL DEF BootstrapSpec

\* A claim that was reported, revoked or invalidated is never accepted again,
\* whatever preparations, requests, cancellations and restarts are under way: a
\* preparation makes its draft ready at most once, and before it was issued.
THEOREM ClaimsStayDead == BootstrapSpec => NoClaimRevived
<1>1. IssuedInv /\ IssuedInv' /\ [BootstrapNext]_bootstrapVars => [NothingRevived]_bootstrapVars
  BY ClaimsStep DEF IssuedInv, TypeInv
<1>2. [][NothingRevived]_bootstrapVars => NoClaimRevived
  BY PTL DEF NoClaimRevived, NothingRevived
<1> QED
  BY <1>1, <1>2, IssuedInvariant, PTL DEF BootstrapSpec
=============================================================================
