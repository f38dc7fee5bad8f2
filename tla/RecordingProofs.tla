-------------------------- MODULE RecordingProofs --------------------------
(***************************************************************************)
(* The safety of the recording queue and its workers, for every number of  *)
(* queues, recordings and kills.                                           *)
(*                                                                         *)
(* A worker trusts that the head of its queue is what it peeked and that   *)
(* no other worker touches its files.  Both rest on every recording being  *)
(* in one place of one queue (OneEntry).                                   *)
(***************************************************************************)
EXTENDS Recording, TLAPS

(* What is in a queue was handed over, and is there once. *)
OneEntry ==
    /\ \A i \in Index : \A p \in 1 .. Len(queue[i]) : session[queue[i][p]] = "queued"
    /\ \A i, j \in Index : \A p \in 1 .. Len(queue[i]), q \in 1 .. Len(queue[j]) :
          queue[i][p] = queue[j][q] => i = j /\ p = q

(* What a worker has reached in its visit to a recording. *)
VisitOf(i) ==
    /\ pc[i] \in {"encode", "guacenc"} => tries[i] <= 3
    /\ pc[i] \in {"guacenc", "ffmpeg"} => mp4[job[i]] = "none"
    /\ pc[i] \in {"ffmpeg", "upload"} => m4v[job[i]] = "whole"
    /\ pc[i] = "upload" => mp4[job[i]] \in {"part", "whole"}
    /\ pc[i] \in {"rmMp4", "rmM4v", "rmRaw"} => "settled" \in verdict[job[i]]
    /\ pc[i] = "pop" => verdict[job[i]] # {}

VisitInv == \A i \in Index : VisitOf(i)

(* Only what was handed over is visited. *)
HandledInv == \A r \in Rec : verdict[r] # {} => session[r] = "queued"

RecordingInv ==
    /\ TypeOK
    /\ OneEntry
    /\ JobIsHead
    /\ VisitInv
    /\ HandledInv

-----------------------------------------------------------------------------
(* PushToQueue goes round the queues. *)
LEMMA NextIndex == ASSUME TypeOK PROVE (count + 1) % theNumberOfQueues \in Index
  BY RecAssumption DEF TypeOK, Index

(* What a worker looks at is a recording that was handed over, and no other *)
(* worker looks at it.                                                      *)
LEMMA JobFacts ==
    ASSUME TypeOK, OneEntry, JobIsHead, NEW i \in Index, pc[i] # "peek"
    PROVE  /\ job[i] \in Rec
           /\ session[job[i]] = "queued"
           /\ \A j \in Index : job[j] = job[i] => j = i
<1> USE RecAssumption DEF TypeOK, At
<1>1. \A j \in Index : pc[j] # "peek" =>
         /\ queue[j] \in Seq(Rec) /\ Len(queue[j]) \in Nat \ {0}
         /\ job[j] = queue[j][1]
  BY DEF JobIsHead
<1>2. job[i] \in Rec /\ session[job[i]] = "queued"
  BY <1>1 DEF OneEntry
<1>3. ASSUME NEW j \in Index, job[j] = job[i] PROVE j = i
  <2>1. pc[j] # "peek"
    BY <1>2, <1>3 DEF JobIsHead
  <2>2. /\ 1 \in 1 .. Len(queue[i]) /\ 1 \in 1 .. Len(queue[j])
        /\ queue[j][1] = queue[i][1]
    BY <1>1, <1>3, <2>1
  <2> QED
    BY <2>2 DEF OneEntry
<1> QED
  BY <1>2, <1>3

(* The types of what the steps of a worker write. *)
LEMMA JudgeType ==
    ASSUME TypeOK, NEW r \in Rec, verdict' = verdict \/ \E v \in Verdict : Judge(r, v)
    PROVE  verdict' \in [Rec -> SUBSET Verdict]
<1>1. verdict \in [Rec -> SUBSET Verdict]
  BY DEF TypeOK
<1>2. ASSUME NEW v \in Verdict, Judge(r, v) PROVE verdict' \in [Rec -> SUBSET Verdict]
  <2>1. verdict[r] \cup {v} \in SUBSET Verdict
    BY <1>1
  <2> QED
    BY <1>1, <1>2, <2>1 DEF Judge
<1> QED
  BY <1>1, <1>2

(* What a verdict of a visit does to the collected ones. *)
LEMMA JudgeEffect ==
    ASSUME TypeOK, NEW r \in Rec, NEW v, Judge(r, v)
    PROVE  v \in verdict'[r]
<1>1. verdict \in [Rec -> SUBSET Verdict]
  BY DEF TypeOK
<1>2. verdict'[r] = verdict[r] \cup {v}
  BY <1>1 DEF Judge
<1> QED
  BY <1>2

(* A file that a program leaves behind has its type. *)
LEMMA VideoType ==
    ASSUME NEW f \in [Rec -> Video], NEW g, NEW r \in Rec,
           g = f \/ \E v \in Video : g = [f EXCEPT ![r] = v]
    PROVE  g \in [Rec -> Video]
  OBVIOUS

(* The invariant holds at the start. *)
LEMMA RecordingInit == Init => RecordingInv
<1> SUFFICES ASSUME Init PROVE RecordingInv
  OBVIOUS
<1>1. TypeOK
  BY RecAssumption DEF Init, TypeOK, Place, Video
<1>2. OneEntry /\ JobIsHead /\ VisitInv /\ HandledInv
  BY DEF Init, OneEntry, JobIsHead, VisitInv, VisitOf, HandledInv, At
<1> QED
  BY <1>1, <1>2 DEF RecordingInv

(* Types; a recording is tried three times. *)
LEMMA TypeStep ==
    ASSUME TypeOK, OneEntry, JobIsHead, VisitInv, [Next]_vars
    PROVE  TypeOK'
<1> USE RecAssumption DEF TypeOK, At, Place, Video, Verdict, VisitInv, VisitOf
<1>1. ASSUME NEW r \in Rec, Open(r) PROVE TypeOK'
  BY <1>1 DEF Open, worker
<1>2. ASSUME NEW r \in Rec, PushToQueue(r) PROVE TypeOK'
  <2> DEFINE index == (count + 1) % theNumberOfQueues
  <2>1. index \in Index
    BY NextIndex
  <2>2. queue' = queue \/ queue' = [queue EXCEPT ![index] = Append(@, r)]
    BY <1>2 DEF PushToQueue
  <2> HIDE DEF index
  <2>3. Append(queue[index], r) \in Seq(Rec)
    BY <2>1
  <2>5. queue' \in [Index -> Seq(Rec)]
    BY <2>1, <2>2, <2>3
  <2>4. session' \in [Rec -> {"new", "open", "queued", "notQueued"}]
    BY <1>2 DEF PushToQueue
  <2> QED
    BY <1>2, <2>5, <2>4 DEF PushToQueue, files, worker
<1>3. ASSUME NEW r \in Rec, PushNothing(r) PROVE TypeOK'
  BY <1>3, JobFacts DEF PushNothing, files, worker
<1>4. ASSUME NEW r \in Rec, Expire(r) PROVE TypeOK'
  BY <1>4, JobFacts DEF Expire, gateway, worker
<1>5. ASSUME NEW i \in Index, PeekFromQueue(i) PROVE TypeOK'
  BY <1>5, JobFacts DEF PeekFromQueue, Move, gateway, files
<1>6. ASSUME NEW i \in Index, Stat(i) PROVE TypeOK'
  <2>1. job[i] \in Rec
    BY <1>6, JobFacts DEF Stat
  <2>2. PICK place \in Place : Move(i, place)
    BY <1>6 DEF Stat, GiveUp
  <2>3. verdict' = verdict \/ \E v \in Verdict : Judge(job[i], v)
    BY <1>6 DEF Stat, GiveUp
  <2>4. verdict' \in [Rec -> SUBSET Verdict]
    BY <2>1, <2>3, JudgeType
  <2>5. m4v' \in [Rec -> Video]
    BY <1>6, <2>1 DEF Stat
  <2>6. mp4' \in [Rec -> Video]
    BY <1>6, <2>1 DEF Stat
  <2>7. tries' \in [Index -> 0 .. 4]
    BY <1>6, <2>1 DEF Stat
  <2> QED
    BY <1>6, <2>2, <2>4, <2>5, <2>6, <2>7 DEF Stat, Move, gateway
<1>7. ASSUME NEW i \in Index, Attempt(i) PROVE TypeOK'
  <2>1. job[i] \in Rec
    BY <1>7, JobFacts DEF Attempt
  <2>2. PICK place \in Place : Move(i, place)
    BY <1>7 DEF Attempt, GiveUp
  <2>3. verdict' = verdict \/ \E v \in Verdict : Judge(job[i], v)
    BY <1>7 DEF Attempt, GiveUp
  <2>4. verdict' \in [Rec -> SUBSET Verdict]
    BY <2>1, <2>3, JudgeType
  <2>5. /\ m4v' = m4v \/ m4v' = [m4v EXCEPT ![job[i]] = "none"]
        /\ mp4' = mp4 \/ mp4' = [mp4 EXCEPT ![job[i]] = "none"]
    BY <1>7 DEF Attempt
  <2>6. m4v' \in [Rec -> Video] /\ mp4' \in [Rec -> Video]
    BY <2>1, <2>5, VideoType
  <2>7. tries[i] + 1 \in 0 .. 4
    <3>1. pc[i] = "encode" /\ tries[i] \in 0 .. 4
      BY <1>7 DEF Attempt
    <3>2. tries[i] <= 3
      BY <3>1
    <3> QED
      BY <3>1, <3>2
  <2>8. tries' \in [Index -> 0 .. 4]
    BY <1>7, <2>7 DEF Attempt
  <2>9. pc' \in [Index -> Place]
    BY <2>2 DEF Move
  <2> QED
    BY <1>7, <2>4, <2>6, <2>8, <2>9 DEF Attempt, gateway
<1>8. ASSUME NEW i \in Index, Guacenc(i) PROVE TypeOK'
  <2>1. job[i] \in Rec
    BY <1>8, JobFacts DEF Guacenc
  <2>2. PICK place \in Place : Move(i, place)
    BY <1>8 DEF Guacenc, GiveUp
  <2>3. verdict' = verdict \/ \E v \in Verdict : Judge(job[i], v)
    BY <1>8 DEF Guacenc, GiveUp
  <2>4. verdict' \in [Rec -> SUBSET Verdict]
    BY <2>1, <2>3, JudgeType
  <2>5. m4v' \in [Rec -> Video]
    BY <1>8, <2>1 DEF Guacenc
  <2> QED
    BY <1>8, <2>2, <2>4, <2>5 DEF Guacenc, Move, gateway
<1>9. ASSUME NEW i \in Index, Ffmpeg(i) PROVE TypeOK'
  <2>1. job[i] \in Rec
    BY <1>9, JobFacts DEF Ffmpeg
  <2>2. PICK place \in Place : Move(i, place)
    BY <1>9 DEF Ffmpeg, GiveUp
  <2>3. verdict' = verdict \/ \E v \in Verdict : Judge(job[i], v)
    BY <1>9 DEF Ffmpeg, GiveUp
  <2>4. verdict' \in [Rec -> SUBSET Verdict]
    BY <2>1, <2>3, JudgeType
  <2>5. mp4' = mp4 \/ \E v \in Video : mp4' = [mp4 EXCEPT ![job[i]] = v]
    BY <1>9, <2>1 DEF Ffmpeg
  <2>6. mp4' \in [Rec -> Video]
    BY <2>1, <2>5, VideoType
  <2> QED
    BY <1>9, <2>2, <2>4, <2>6 DEF Ffmpeg, Move, gateway
<1>10. ASSUME NEW i \in Index, Upload(i) PROVE TypeOK'
  BY <1>10, JobFacts DEF Upload, Move, Judge, gateway, files
<1>11. ASSUME NEW i \in Index, RemoveFiles(i) PROVE TypeOK'
  <2>1. job[i] \in Rec
    BY <1>11, JobFacts DEF RemoveFiles
  <2>2. PICK place \in Place : Move(i, place)
    BY <1>11 DEF RemoveFiles, GiveUp
  <2>3. m4v' = m4v \/ m4v' = [m4v EXCEPT ![job[i]] = "none"]
    BY <1>11, <2>1 DEF RemoveFiles
  <2>4. mp4' = mp4 \/ mp4' = [mp4 EXCEPT ![job[i]] = "none"]
    BY <1>11, <2>1 DEF RemoveFiles
  <2>5. raw' \subseteq Rec
    BY <1>11, <2>1 DEF RemoveFiles
  <2>6. m4v' \in [Rec -> Video] /\ mp4' \in [Rec -> Video]
    BY <2>1, <2>3, <2>4, VideoType
  <2> QED
    BY <1>11, <2>2, <2>5, <2>6 DEF RemoveFiles, Move, gateway
<1>12. ASSUME NEW i \in Index, PopFromQueue(i) PROVE TypeOK'
  <2>1. queue[i] # <<>>
    BY <1>12 DEF PopFromQueue, JobIsHead
  <2>2. Tail(queue[i]) \in Seq(Rec)
    BY <2>1
  <2> QED
    BY <1>12, <2>2 DEF PopFromQueue, Move, gateway, files
<1>13. ASSUME NEW i \in Index, PopError(i) PROVE TypeOK'
  BY <1>13, JobFacts DEF PopError, Move, gateway, files
<1>14. ASSUME NEW i \in Index, WorkerKilled(i) PROVE TypeOK'
  BY <1>14, JobFacts DEF WorkerKilled, Move, gateway
<1>15. CASE GatewayKilled
  BY <1>15 DEF GatewayKilled, files, worker
<1>16. CASE UNCHANGED vars
  BY <1>16 DEF vars, gateway, files, worker
<1> QED
  BY <1>1, <1>2, <1>3, <1>4, <1>5, <1>6, <1>7, <1>8, <1>9, <1>10, <1>11, <1>12,
     <1>13, <1>14, <1>15, <1>16
  DEF Next, EncodeStep, Polling

(* Steps that neither push nor pop keep the entries where they are. *)
LEMMA EntryFrame ==
    ASSUME TypeOK, OneEntry, queue' = queue,
           \A r \in Rec : session[r] = "queued" => session'[r] = "queued"
    PROVE  OneEntry'
<1>1. \A i \in Index : \A p \in 1 .. Len(queue[i]) : queue[i][p] \in Rec
  BY DEF TypeOK
<1> QED
  BY <1>1 DEF OneEntry

(* Every recording is handed over once. *)
LEMMA EntryStep ==
    ASSUME TypeOK, OneEntry, JobIsHead, [Next]_vars
    PROVE  OneEntry'
<1> USE RecAssumption DEF TypeOK, OneEntry, At
<1>1. ASSUME NEW r \in Rec, Open(r) PROVE OneEntry'
  BY <1>1, EntryFrame DEF Open
<1>2. ASSUME NEW r \in Rec, PushToQueue(r) PROVE OneEntry'
  <2> DEFINE index == (count + 1) % theNumberOfQueues
  <2>1. index \in Index
    BY NextIndex
  <2> HIDE DEF index
  <2>2. CASE UNCHANGED queue
    BY <1>2, <2>2, EntryFrame DEF PushToQueue
  <2>3. CASE /\ queue' = [queue EXCEPT ![index] = Append(@, r)]
             /\ session' = [session EXCEPT ![r] = "queued"]
    <3>1. \A i \in Index : \A p \in 1 .. Len(queue[i]) : queue[i][p] \in Rec \ {r}
      BY <1>2 DEF PushToQueue
    <3>2. \A i \in Index \ {index} : queue'[i] = queue[i]
      BY <2>3
    <3>3. /\ Len(queue'[index]) = Len(queue[index]) + 1
          /\ queue'[index][Len(queue[index]) + 1] = r
          /\ \A p \in 1 .. Len(queue[index]) : queue'[index][p] = queue[index][p]
      BY <2>1, <2>3
    <3>4. \A i \in Index : \A p \in 1 .. Len(queue'[i]) :
             \/ p \in 1 .. Len(queue[i]) /\ queue'[i][p] = queue[i][p]
             \/ i = index /\ p = Len(queue[index]) + 1 /\ queue'[i][p] = r
      BY <2>1, <3>2, <3>3
    <3> QED
      BY <2>3, <3>1, <3>4
  <2> QED
    BY <1>2, <2>2, <2>3 DEF PushToQueue, index
<1>3. ASSUME NEW r \in Rec, PushNothing(r) PROVE OneEntry'
  BY <1>3, EntryFrame DEF PushNothing
<1>4. ASSUME NEW r \in Rec, Expire(r) PROVE OneEntry'
  BY <1>4, EntryFrame DEF Expire, gateway
<1>5. ASSUME NEW i \in Index, PeekFromQueue(i) PROVE OneEntry'
  BY <1>5, EntryFrame DEF PeekFromQueue, gateway
<1>6. ASSUME NEW i \in Index, Stat(i) PROVE OneEntry'
  BY <1>6, EntryFrame DEF Stat, gateway
<1>7. ASSUME NEW i \in Index, Attempt(i) PROVE OneEntry'
  BY <1>7, EntryFrame DEF Attempt, gateway
<1>8. ASSUME NEW i \in Index, Guacenc(i) PROVE OneEntry'
  BY <1>8, EntryFrame DEF Guacenc, gateway
<1>9. ASSUME NEW i \in Index, Ffmpeg(i) PROVE OneEntry'
  BY <1>9, EntryFrame DEF Ffmpeg, gateway
<1>10. ASSUME NEW i \in Index, Upload(i) PROVE OneEntry'
  BY <1>10, EntryFrame DEF Upload, gateway
<1>11. ASSUME NEW i \in Index, RemoveFiles(i) PROVE OneEntry'
  BY <1>11, EntryFrame DEF RemoveFiles, gateway
<1>12. ASSUME NEW i \in Index, PopFromQueue(i) PROVE OneEntry'
  <2>1. queue[i] \in Seq(Rec) /\ queue[i] # <<>> /\ queue'[i] = Tail(queue[i])
    BY <1>12 DEF PopFromQueue, JobIsHead
  <2>2. /\ Len(queue[i]) \in Nat \ {0}
        /\ Len(queue'[i]) = Len(queue[i]) - 1
        /\ \A p \in 1 .. Len(queue'[i]) :
              p + 1 \in 1 .. Len(queue[i]) /\ queue'[i][p] = queue[i][p + 1]
    BY <2>1
  <2>3. \A j \in Index \ {i} : queue'[j] = queue[j]
    BY <1>12 DEF PopFromQueue
  <2>4. session' = session
    BY <1>12 DEF PopFromQueue, gateway
  <2>5. \A j \in Index : Len(queue[j]) \in Nat
    OBVIOUS
  <2>6. ASSUME NEW j \in Index, NEW k \in Index,
               NEW p \in 1 .. Len(queue'[j]), NEW q \in 1 .. Len(queue'[k])
        PROVE  /\ session'[queue'[j][p]] = "queued"
               /\ queue'[j][p] = queue'[k][q] => j = k /\ p = q
    <3>1. PICK pp \in 1 .. Len(queue[j]) :
             queue'[j][p] = queue[j][pp] /\ pp = IF j = i THEN p + 1 ELSE p
      BY <2>2, <2>3, <2>5
    <3>2. PICK qq \in 1 .. Len(queue[k]) :
             queue'[k][q] = queue[k][qq] /\ qq = IF k = i THEN q + 1 ELSE q
      BY <2>2, <2>3, <2>5
    <3> QED
      BY <2>4, <3>1, <3>2
  <2> QED
    BY <2>6
<1>13. ASSUME NEW i \in Index, PopError(i) PROVE OneEntry'
  BY <1>13, EntryFrame DEF PopError, gateway
<1>14. ASSUME NEW i \in Index, WorkerKilled(i) PROVE OneEntry'
  BY <1>14, EntryFrame DEF WorkerKilled, gateway
<1>15. CASE GatewayKilled
  BY <1>15, EntryFrame DEF GatewayKilled
<1>16. CASE UNCHANGED vars
  BY <1>16, EntryFrame DEF vars, gateway
<1> QED
  BY <1>1, <1>2, <1>3, <1>4, <1>5, <1>6, <1>7, <1>8, <1>9, <1>10, <1>11, <1>12,
     <1>13, <1>14, <1>15, <1>16
  DEF Next, EncodeStep, Polling

(* Only its worker takes from a queue. *)
LEMMA HeadStep ==
    ASSUME TypeOK, OneEntry, JobIsHead, [Next]_vars
    PROVE  JobIsHead'
<1> USE RecAssumption DEF TypeOK, JobIsHead, At
<1>1. ASSUME NEW r \in Rec, Open(r) PROVE JobIsHead'
  BY <1>1 DEF Open, worker
<1>2. ASSUME NEW r \in Rec, PushToQueue(r) PROVE JobIsHead'
  <2>1. \A i \in Index : queue[i] # <<>> => queue'[i] # <<>> /\ Head(queue'[i]) = Head(queue[i])
    <3> DEFINE index == (count + 1) % theNumberOfQueues
    <3>1. index \in Index
      BY NextIndex
    <3>2. queue' = queue \/ queue' = [queue EXCEPT ![index] = Append(@, r)]
      BY <1>2 DEF PushToQueue
    <3> HIDE DEF index
    <3>3. \A q \in Seq(Rec) : q # <<>> =>
             Append(q, r) # <<>> /\ Head(Append(q, r)) = Head(q)
      OBVIOUS
    <3> QED
      BY <3>1, <3>2, <3>3
  <2> QED
    BY <1>2, <2>1 DEF PushToQueue, worker
<1>3. ASSUME NEW r \in Rec, PushNothing(r) PROVE JobIsHead'
  BY <1>3 DEF PushNothing, files, worker
<1>4. ASSUME NEW r \in Rec, Expire(r) PROVE JobIsHead'
  BY <1>4 DEF Expire, gateway, worker
<1>5. ASSUME NEW i \in Index, PeekFromQueue(i) PROVE JobIsHead'
  BY <1>5 DEF PeekFromQueue, Move, gateway, files
<1>6. ASSUME NEW i \in Index, Stat(i) PROVE JobIsHead'
  BY <1>6 DEF Stat, Move, Judge, GiveUp, gateway
<1>7. ASSUME NEW i \in Index, Attempt(i) PROVE JobIsHead'
  BY <1>7 DEF Attempt, Move, Judge, GiveUp, gateway
<1>8. ASSUME NEW i \in Index, Guacenc(i) PROVE JobIsHead'
  BY <1>8 DEF Guacenc, Move, Judge, GiveUp, gateway
<1>9. ASSUME NEW i \in Index, Ffmpeg(i) PROVE JobIsHead'
  BY <1>9 DEF Ffmpeg, Move, Judge, GiveUp, gateway
<1>10. ASSUME NEW i \in Index, Upload(i) PROVE JobIsHead'
  BY <1>10 DEF Upload, Move, Judge, gateway, files
<1>11. ASSUME NEW i \in Index, RemoveFiles(i) PROVE JobIsHead'
  BY <1>11 DEF RemoveFiles, Move, gateway
<1>12. ASSUME NEW i \in Index, PopFromQueue(i) PROVE JobIsHead'
  BY <1>12 DEF PopFromQueue, Move, gateway, files
<1>13. ASSUME NEW i \in Index, PopError(i) PROVE JobIsHead'
  BY <1>13 DEF PopError, Move, gateway, files
<1>14. ASSUME NEW i \in Index, WorkerKilled(i) PROVE JobIsHead'
  BY <1>14 DEF WorkerKilled, Move, gateway
<1>15. CASE GatewayKilled
  BY <1>15 DEF GatewayKilled, files, worker
<1>16. CASE UNCHANGED vars
  BY <1>16 DEF vars, gateway, files, worker
<1> QED
  BY <1>1, <1>2, <1>3, <1>4, <1>5, <1>6, <1>7, <1>8, <1>9, <1>10, <1>11, <1>12,
     <1>13, <1>14, <1>15, <1>16
  DEF Next, EncodeStep, Polling

(* The files of a visit are the worker's own. *)
LEMMA VisitStep ==
    ASSUME TypeOK, OneEntry, JobIsHead, VisitInv, [Next]_vars
    PROVE  VisitInv'
<1> USE RecAssumption DEF TypeOK, VisitInv, VisitOf, At
<1>1. ASSUME NEW r \in Rec, Open(r) PROVE VisitInv'
  BY <1>1, JobFacts DEF Open, worker
<1>2. ASSUME NEW r \in Rec, PushToQueue(r) PROVE VisitInv'
  BY <1>2, JobFacts DEF PushToQueue, files, worker
<1>3. ASSUME NEW r \in Rec, PushNothing(r) PROVE VisitInv'
  BY <1>3, JobFacts DEF PushNothing, files, worker
<1>4. ASSUME NEW r \in Rec, Expire(r) PROVE VisitInv'
  BY <1>4, JobFacts DEF Expire, gateway, worker
<1>5. ASSUME NEW i \in Index, PeekFromQueue(i) PROVE VisitInv'
  BY <1>5, JobFacts DEF PeekFromQueue, Move, gateway, files
<1>6. ASSUME NEW i \in Index, Stat(i) PROVE VisitInv'
  <2>1. \A j \in Index \ {i} : pc[j] # "peek" => job[j] \in Rec /\ job[j] # job[i]
    BY <1>6, JobFacts DEF Stat
  <2>2. job[i] \in Rec /\ job' = job
    BY <1>6, JobFacts DEF Stat
  <2>3. \A j \in Index \ {i} : pc'[j] = pc[j] /\ tries'[j] = tries[j]
    BY <1>6 DEF Stat, Move, GiveUp
  <2>4. \A x \in Rec \ {job[i]} :
           m4v'[x] = m4v[x] /\ mp4'[x] = mp4[x] /\ verdict'[x] = verdict[x]
    BY <1>6, <2>2 DEF Stat, Judge, GiveUp
  <2>5. \/ pc'[i] = "encode" /\ tries'[i] = 0
        \/ pc'[i] = "pop" /\ verdict'[job[i]] # {}
    <3>1. CASE job[i] \in raw
      BY <1>6, <3>1 DEF Stat, Move
    <3>2. CASE job[i] \notin raw
      <4>1. pc'[i] = "pop" /\ Judge(job[i], "dropped")
        BY <1>6, <3>2 DEF Stat, Move, GiveUp
      <4> QED
        BY <2>2, <4>1, JudgeEffect
    <3> QED
      BY <3>1, <3>2
  <2>6. ASSUME NEW j \in Index \ {i}, pc[j] # "peek"
        PROVE  /\ m4v'[job[j]] = m4v[job[j]] /\ mp4'[job[j]] = mp4[job[j]]
               /\ verdict'[job[j]] = verdict[job[j]]
    BY <2>1, <2>4, <2>6
  <2>7. ASSUME NEW j \in Index \ {i} PROVE VisitOf(j)'
    BY <2>2, <2>3, <2>6
  <2>8. VisitOf(i)'
    BY <2>2, <2>5
  <2> QED
    BY <2>7, <2>8
<1>7. ASSUME NEW i \in Index, Attempt(i) PROVE VisitInv'
  <2>1. \A j \in Index \ {i} : pc[j] # "peek" => job[j] \in Rec /\ job[j] # job[i]
    BY <1>7, JobFacts DEF Attempt
  <2>2. job[i] \in Rec /\ job' = job
    BY <1>7, JobFacts DEF Attempt
  <2>3. \A j \in Index \ {i} : pc'[j] = pc[j] /\ tries'[j] = tries[j]
    BY <1>7 DEF Attempt, Move, GiveUp
  <2>4. \A x \in Rec \ {job[i]} :
           m4v'[x] = m4v[x] /\ mp4'[x] = mp4[x] /\ verdict'[x] = verdict[x]
    BY <1>7, <2>2 DEF Attempt, Judge, GiveUp
  <2>5. \/ pc'[i] = "guacenc" /\ tries'[i] <= 3 /\ mp4'[job[i]] = "none"
        \/ pc'[i] = "pop" /\ verdict'[job[i]] # {}
    <3>1. CASE tries[i] < 3
      <4>1. tries'[i] = tries[i] + 1 /\ tries[i] \in 0 .. 4
        BY <1>7 DEF Attempt
      <4>2. pc'[i] = "guacenc" /\ mp4'[job[i]] = "none"
        BY <1>7, <2>2, <3>1 DEF Attempt, Move
      <4> QED
        BY <3>1, <4>1, <4>2
    <3>2. CASE ~(tries[i] < 3)
      <4>1. pc'[i] = "pop" /\ Judge(job[i], "dropped")
        BY <1>7, <3>2 DEF Attempt, Move, GiveUp
      <4> QED
        BY <2>2, <4>1, JudgeEffect
    <3> QED
      BY <3>1, <3>2
  <2>6. ASSUME NEW j \in Index \ {i}, pc[j] # "peek"
        PROVE  /\ m4v'[job[j]] = m4v[job[j]] /\ mp4'[job[j]] = mp4[job[j]]
               /\ verdict'[job[j]] = verdict[job[j]]
    BY <2>1, <2>4, <2>6
  <2>7. ASSUME NEW j \in Index \ {i} PROVE VisitOf(j)'
    BY <2>2, <2>3, <2>6
  <2>8. VisitOf(i)'
    BY <2>2, <2>5
  <2> QED
    BY <2>7, <2>8
<1>8. ASSUME NEW i \in Index, Guacenc(i) PROVE VisitInv'
  <2>1. \A j \in Index \ {i} : pc[j] # "peek" => job[j] \in Rec /\ job[j] # job[i]
    BY <1>8, JobFacts DEF Guacenc
  <2>2. job[i] \in Rec
    BY <1>8, JobFacts DEF Guacenc
  <2>3. CASE GiveUp(i) /\ UNCHANGED m4v
    BY <1>8, <2>1, <2>2, <2>3 DEF Guacenc, Move, Judge, GiveUp
  <2>4. CASE /\ Move(i, "encode") /\ UNCHANGED verdict
             /\ m4v' = [m4v EXCEPT ![job[i]] = "part"] \/ UNCHANGED m4v
    BY <1>8, <2>1, <2>2, <2>4 DEF Guacenc, Move, Judge, GiveUp
  <2>5. CASE /\ Move(i, "ffmpeg") /\ UNCHANGED verdict
             /\ m4v' = [m4v EXCEPT ![job[i]] = "whole"]
    BY <1>8, <2>1, <2>2, <2>5 DEF Guacenc, Move, Judge, GiveUp
  <2> QED
    BY <1>8, <2>3, <2>4, <2>5 DEF Guacenc
<1>9. ASSUME NEW i \in Index, Ffmpeg(i) PROVE VisitInv'
  <2>1. \A j \in Index \ {i} : pc[j] # "peek" => job[j] \in Rec /\ job[j] # job[i]
    BY <1>9, JobFacts DEF Ffmpeg
  <2>2. job[i] \in Rec
    BY <1>9, JobFacts DEF Ffmpeg
  <2>3. CASE mp4[job[i]] # "none"
    BY <1>9, <2>1, <2>2, <2>3 DEF Ffmpeg, Move, Judge, GiveUp
  <2>4. CASE /\ \E v \in {"part", "whole"} : mp4' = [mp4 EXCEPT ![job[i]] = v]
             /\ Move(i, "upload") /\ UNCHANGED verdict
    BY <1>9, <2>1, <2>2, <2>4 DEF Ffmpeg, Move, Judge, GiveUp
  <2>5. CASE GiveUp(i) /\ UNCHANGED mp4
    BY <1>9, <2>1, <2>2, <2>5 DEF Ffmpeg, Move, Judge, GiveUp
  <2>6. CASE /\ mp4' = [mp4 EXCEPT ![job[i]] = "whole"]
             /\ Move(i, "rmMp4") /\ Judge(job[i], "settled")
    BY <1>9, <2>1, <2>2, <2>6 DEF Ffmpeg, Move, Judge, GiveUp
  <2> QED
    BY <1>9, <2>3, <2>4, <2>5, <2>6 DEF Ffmpeg
<1>10. ASSUME NEW i \in Index, Upload(i) PROVE VisitInv'
  BY <1>10, JobFacts DEF Upload, Move, Judge, gateway, files
<1>11. ASSUME NEW i \in Index, RemoveFiles(i) PROVE VisitInv'
  BY <1>11, JobFacts DEF RemoveFiles, Move, gateway
<1>12. ASSUME NEW i \in Index, PopFromQueue(i) PROVE VisitInv'
  BY <1>12, JobFacts DEF PopFromQueue, Move, gateway, files
<1>13. ASSUME NEW i \in Index, PopError(i) PROVE VisitInv'
  BY <1>13, JobFacts DEF PopError, Move, gateway, files
<1>14. ASSUME NEW i \in Index, WorkerKilled(i) PROVE VisitInv'
  BY <1>14, JobFacts DEF WorkerKilled, Move, gateway
<1>15. CASE GatewayKilled
  BY <1>15 DEF GatewayKilled, files, worker
<1>16. CASE UNCHANGED vars
  BY <1>16 DEF vars, gateway, files, worker
<1> QED
  BY <1>1, <1>2, <1>3, <1>4, <1>5, <1>6, <1>7, <1>8, <1>9, <1>10, <1>11, <1>12,
     <1>13, <1>14, <1>15, <1>16
  DEF Next, EncodeStep, Polling

(* Only what was handed over is visited. *)
LEMMA HandledStep ==
    ASSUME TypeOK, OneEntry, JobIsHead, HandledInv, [Next]_vars
    PROVE  HandledInv'
<1> USE RecAssumption DEF TypeOK, HandledInv, At
<1>1. ASSUME NEW r \in Rec, Open(r) PROVE HandledInv'
  BY <1>1, JobFacts DEF Open, worker
<1>2. ASSUME NEW r \in Rec, PushToQueue(r) PROVE HandledInv'
  BY <1>2, JobFacts DEF PushToQueue, files, worker
<1>3. ASSUME NEW r \in Rec, PushNothing(r) PROVE HandledInv'
  BY <1>3, JobFacts DEF PushNothing, files, worker
<1>4. ASSUME NEW r \in Rec, Expire(r) PROVE HandledInv'
  BY <1>4, JobFacts DEF Expire, gateway, worker
<1>5. ASSUME NEW i \in Index, PeekFromQueue(i) PROVE HandledInv'
  BY <1>5, JobFacts DEF PeekFromQueue, Move, gateway, files
<1>6. ASSUME NEW i \in Index, Stat(i) PROVE HandledInv'
  BY <1>6, JobFacts DEF Stat, Move, Judge, GiveUp, gateway
<1>7. ASSUME NEW i \in Index, Attempt(i) PROVE HandledInv'
  BY <1>7, JobFacts DEF Attempt, Move, Judge, GiveUp, gateway
<1>8. ASSUME NEW i \in Index, Guacenc(i) PROVE HandledInv'
  BY <1>8, JobFacts DEF Guacenc, Move, Judge, GiveUp, gateway
<1>9. ASSUME NEW i \in Index, Ffmpeg(i) PROVE HandledInv'
  BY <1>9, JobFacts DEF Ffmpeg, Move, Judge, GiveUp, gateway
<1>10. ASSUME NEW i \in Index, Upload(i) PROVE HandledInv'
  BY <1>10, JobFacts DEF Upload, Move, Judge, gateway, files
<1>11. ASSUME NEW i \in Index, RemoveFiles(i) PROVE HandledInv'
  BY <1>11, JobFacts DEF RemoveFiles, Move, gateway
<1>12. ASSUME NEW i \in Index, PopFromQueue(i) PROVE HandledInv'
  BY <1>12, JobFacts DEF PopFromQueue, Move, gateway, files
<1>13. ASSUME NEW i \in Index, PopError(i) PROVE HandledInv'
  BY <1>13, JobFacts DEF PopError, Move, gateway, files
<1>14. ASSUME NEW i \in Index, WorkerKilled(i) PROVE HandledInv'
  BY <1>14, JobFacts DEF WorkerKilled, Move, gateway
<1>15. CASE GatewayKilled
  BY <1>15 DEF GatewayKilled, files, worker
<1>16. CASE UNCHANGED vars
  BY <1>16 DEF vars, gateway, files, worker
<1> QED
  BY <1>1, <1>2, <1>3, <1>4, <1>5, <1>6, <1>7, <1>8, <1>9, <1>10, <1>11, <1>12,
     <1>13, <1>14, <1>15, <1>16
  DEF Next, EncodeStep, Polling

-----------------------------------------------------------------------------
(* Every step keeps the invariant. *)
LEMMA RecordingStep == RecordingInv /\ [Next]_vars => RecordingInv'
  BY TypeStep, EntryStep, HeadStep, VisitStep, HandledStep DEF RecordingInv

(* Everything below follows from this. *)
THEOREM RecordingCorrect == Spec => []RecordingInv
  BY RecordingInit, RecordingStep, PTL DEF Spec

(* The gateway's counter, the queues, the files and the workers keep their  *)
(* types; in particular Encode never counts past its fourth try.            *)
THEOREM RecordingTypeCorrect == Spec => []TypeOK
<1>1. RecordingInv => TypeOK
  BY DEF RecordingInv
<1> QED
  BY <1>1, RecordingCorrect, PTL

(* What PopFromQueue removes is what PeekFromQueue returned, however long   *)
(* the encoding took and whoever pushed or was killed meanwhile.            *)
THEOREM PopsWhatItPeeked == Spec => []JobIsHead
<1>1. RecordingInv => JobIsHead
  BY DEF RecordingInv
<1> QED
  BY <1>1, RecordingCorrect, PTL

(* UploadRdp sends a file this visit made, never one an earlier visit left  *)
(* behind and never one another worker is writing.                          *)
THEOREM UploadsItsOwn == Spec => []UploadsFresh
<1>1. RecordingInv => UploadsFresh
  BY DEF RecordingInv, VisitInv, VisitOf, UploadsFresh, At
<1> QED
  BY <1>1, RecordingCorrect, PTL

(* The os.Remove at the end of Encode takes only recordings whose video was *)
(* logged or found empty.                                                   *)
THEOREM DeletesOnlyLogged == Spec => DeletedIsLogged
<1> DEFINE A == \A i \in Index, r \in Rec :
                   (r \in raw \ raw' /\ pc'[i] # pc[i]) => "settled" \in verdict[r]
<1>1. ASSUME RecordingInv, [Next]_vars PROVE A
  <2> SUFFICES ASSUME NEW i \in Index, NEW r \in Rec,
                      r \in raw, r \notin raw', pc'[i] # pc[i]
               PROVE  "settled" \in verdict[r]
    OBVIOUS
  <2>1. \E j \in Index : RemoveFiles(j)
    <3>1. \A j \in Index : ~RemoveFiles(j) =>
             ~EncodeStep(j) /\ ~PopFromQueue(j) /\ ~PopError(j) /\ ~WorkerKilled(j)
      BY DEF EncodeStep, PeekFromQueue, Stat, Attempt, Guacenc, Ffmpeg, Upload,
             PopFromQueue, PopError, WorkerKilled, files
    <3>2. \A x \in Rec : ~Open(x) /\ ~PushToQueue(x) /\ ~PushNothing(x) /\ ~Expire(x)
      BY DEF Open, PushToQueue, PushNothing, Expire, files, worker
    <3>3. ~GatewayKilled /\ ~UNCHANGED vars
      BY DEF GatewayKilled, files, worker, vars
    <3> QED
      BY <1>1, <3>1, <3>2, <3>3 DEF Next, Polling
  <2>2. PICK j \in Index : RemoveFiles(j)
    BY <2>1
  <2>3. pc[j] = "rmRaw" /\ r = job[j]
    BY <2>2 DEF RemoveFiles, At
  <2> QED
    BY <1>1, <2>3 DEF RecordingInv, VisitInv, VisitOf
<1>2. RecordingInv /\ [Next]_vars => [A]_vars
  BY <1>1
<1> HIDE DEF A
<1>3. Spec => [][A]_vars
  BY <1>2, RecordingCorrect, PTL DEF Spec
<1> QED
  BY <1>3 DEF DeletedIsLogged, A

-----------------------------------------------------------------------------
(* The queues implement JobQueue. *)
LEMMA InQueues ==
    ASSUME NEW q \in [Index -> Seq(Rec)], NEW r
    PROVE  r \in UNION {Range(q[i]) : i \in Index}
             <=> \E i \in Index : \E p \in 1 .. Len(q[i]) : q[i][p] = r
<1>1. \A i \in Index : DOMAIN q[i] = 1 .. Len(q[i])
  OBVIOUS
<1> QED
  BY <1>1 DEF Range

(* What is pending is what is in a queue, ... *)
LEMMA InPending ==
    ASSUME TypeOK, NEW r
    PROVE  r \in Pending <=> \E i \in Index : \E p \in 1 .. Len(queue[i]) : queue[i][p] = r
  BY InQueues DEF Pending, TypeOK

(* ... in the next state too. *)
LEMMA InPendingNext ==
    ASSUME TypeOK', NEW r
    PROVE  r \in Pending' <=> \E i \in Index : \E p \in 1 .. Len(queue'[i]) : queue'[i][p] = r
  BY InQueues DEF Pending, TypeOK

(* A visit says how it came out while its recording is in the queue; no     *)
(* other step of a worker does, and none of the gateway.                    *)
LEMMA HandledChange ==
    ASSUME RecordingInv, NEW i \in Index, pc[i] # "peek", queue' = queue,
           NEW v, verdict' = verdict \/ Judge(job[i], v)
    PROVE  [Jobs!Next]_(Jobs!vars)
<1> USE DEF RecordingInv
<1>1. job[i] \in Rec /\ job[i] \in Pending
  <2>1. job[i] \in Rec
    BY JobFacts
  <2>2. queue[i] \in Seq(Rec) /\ queue[i] # <<>> /\ job[i] = queue[i][1]
    BY DEF TypeOK, JobIsHead, At
  <2>3. 1 \in 1 .. Len(queue[i])
    BY <2>2
  <2> QED
    BY <2>1, <2>2, <2>3, InPending
<1>2. Pending' = Pending
  BY DEF Pending
<1>3. CASE verdict' = verdict
  BY <1>2, <1>3 DEF Jobs!vars, Handled
<1>4. CASE Judge(job[i], v)
  <2>1. verdict \in [Rec -> SUBSET Verdict]
    BY DEF TypeOK
  <2>2. \A r \in Rec : verdict'[r] = IF r = job[i] THEN verdict[r] \cup {v} ELSE verdict[r]
    BY <1>4, <2>1 DEF Judge
  <2>3. Handled' = Handled \cup {job[i]}
    BY <1>1, <2>2 DEF Handled
  <2> QED
    BY <1>1, <1>2, <2>3 DEF Jobs!Next, Jobs!Handle
<1> QED
  BY <1>3, <1>4

(* A step that changes neither queues nor verdicts is a stutter of JobQueue, ... *)
LEMMA JobsStutter ==
    ASSUME queue' = queue, verdict' = verdict
    PROVE  [Jobs!Next]_(Jobs!vars)
  BY DEF Jobs!vars, Pending, Handled

(* ... and every other one is a step of it. *)
LEMMA JobsStep ==
    ASSUME RecordingInv, RecordingInv', [Next]_vars
    PROVE  [Jobs!Next]_(Jobs!vars)
<1>1. ASSUME NEW r \in Rec, Open(r) \/ PushNothing(r) \/ Expire(r)
      PROVE  [Jobs!Next]_(Jobs!vars)
  BY <1>1, JobsStutter DEF Open, PushNothing, Expire
<1>2. ASSUME NEW r \in Rec, PushToQueue(r) PROVE [Jobs!Next]_(Jobs!vars)
  <2> DEFINE index == (count + 1) % theNumberOfQueues
  <2>1. CASE queue' = queue
    BY <1>2, <2>1, JobsStutter DEF PushToQueue
  <2>2. CASE queue' = [queue EXCEPT ![index] = Append(@, r)]
    <3>1. index \in Index
      BY NextIndex DEF RecordingInv
    <3> HIDE DEF index
    <3>2. /\ queue \in [Index -> Seq(Rec)]
          /\ queue'[index] = Append(queue[index], r)
          /\ \A i \in Index \ {index} : queue'[i] = queue[i]
      BY <2>2, <3>1 DEF RecordingInv, TypeOK
    <3>3. /\ Len(queue'[index]) = Len(queue[index]) + 1
          /\ Len(queue[index]) \in Nat
          /\ queue'[index][Len(queue[index]) + 1] = r
          /\ \A p \in 1 .. Len(queue[index]) : queue'[index][p] = queue[index][p]
      BY <3>1, <3>2
    <3>4. \A x : x \in Pending' <=> x \in Pending \/ x = r
      <4>1. TypeOK /\ TypeOK'
        BY DEF RecordingInv
      <4>2. \A x : x \in Pending <=> \E i \in Index : \E p \in 1 .. Len(queue[i]) : queue[i][p] = x
        BY <4>1, InPending
      <4>3. \A x : x \in Pending' <=>
                  \E i \in Index : \E p \in 1 .. Len(queue'[i]) : queue'[i][p] = x
        BY <4>1, InPendingNext
      <4> QED
        BY <3>1, <3>2, <3>3, <4>2, <4>3
    <3>5. r \notin Pending /\ r \notin Handled
      BY <1>2, InPending DEF PushToQueue, RecordingInv, OneEntry, HandledInv, Handled
    <3>6. Handled' = Handled
      BY <1>2 DEF PushToQueue, Handled
    <3> QED
      BY <3>4, <3>5, <3>6 DEF Jobs!Next, Jobs!Submit
  <2> QED
    BY <1>2, <2>1, <2>2 DEF PushToQueue
<1>3. ASSUME NEW i \in Index, EncodeStep(i) PROVE [Jobs!Next]_(Jobs!vars)
  <2>1. CASE PeekFromQueue(i) \/ RemoveFiles(i)
    BY <2>1, JobsStutter DEF PeekFromQueue, RemoveFiles
  <2>2. CASE Stat(i) \/ Attempt(i) \/ Guacenc(i)
    <3>1. pc[i] # "peek" /\ queue' = queue /\ (verdict' = verdict \/ Judge(job[i], "dropped"))
      BY <2>2 DEF Stat, Attempt, Guacenc, GiveUp, At
    <3> QED
      BY <3>1, HandledChange
  <2>3. CASE Ffmpeg(i) \/ Upload(i)
    <3>1. PICK v : pc[i] # "peek" /\ queue' = queue /\ (verdict' = verdict \/ Judge(job[i], v))
      BY <2>3 DEF Ffmpeg, Upload, GiveUp, At
    <3> QED
      BY <3>1, HandledChange
  <2> QED
    BY <1>3, <2>1, <2>2, <2>3 DEF EncodeStep
<1>4. ASSUME NEW i \in Index, PopFromQueue(i) PROVE [Jobs!Next]_(Jobs!vars)
  <2>1. /\ queue \in [Index -> Seq(Rec)]
        /\ queue[i] # <<>>
        /\ job[i] = queue[i][1]
        /\ queue'[i] = Tail(queue[i])
        /\ \A j \in Index \ {i} : queue'[j] = queue[j]
    BY <1>4 DEF PopFromQueue, RecordingInv, TypeOK, JobIsHead, At
  <2>2. /\ Len(queue[i]) \in Nat \ {0}
        /\ Len(queue'[i]) = Len(queue[i]) - 1
        /\ \A p \in 1 .. Len(queue[i]) - 1 : queue'[i][p] = queue[i][p + 1]
    BY <2>1
  <2>3. \A x : x \in Pending <=> \E j \in Index : \E p \in 1 .. Len(queue[j]) : queue[j][p] = x
    BY InPending DEF RecordingInv
  <2>4. \A x : x \in Pending' <=> \E j \in Index : \E p \in 1 .. Len(queue'[j]) : queue'[j][p] = x
    BY InPendingNext DEF RecordingInv
  <2>5. \A x : x \in Pending' => x \in Pending /\ x # job[i]
    <3>1. ASSUME NEW j \in Index, NEW p \in 1 .. Len(queue'[j])
          PROVE  /\ queue'[j][p] \in Pending
                 /\ queue'[j][p] # job[i]
      <4>1. CASE j = i
        <5>1. p + 1 \in 1 .. Len(queue[i]) /\ queue'[j][p] = queue[i][p + 1] /\ p + 1 # 1
          BY <2>2, <4>1
        <5>2. queue[i][p + 1] # queue[i][1]
          BY <2>2, <5>1 DEF RecordingInv, OneEntry
        <5> QED
          BY <2>1, <2>3, <5>1, <5>2
      <4>2. CASE j # i
        <5>1. queue'[j] = queue[j]
          BY <2>1, <4>2
        <5>2. queue[j][p] # queue[i][1]
          BY <2>2, <4>2, <5>1 DEF RecordingInv, OneEntry
        <5> QED
          BY <2>1, <2>3, <5>1, <5>2
      <4> QED
        BY <4>1, <4>2
    <3> QED
      BY <2>4, <3>1
  <2>6. \A x : x \in Pending /\ x # job[i] => x \in Pending'
    <3>1. ASSUME NEW j \in Index, NEW p \in 1 .. Len(queue[j]), queue[j][p] # job[i]
          PROVE  queue[j][p] \in Pending'
      <4>1. CASE j = i
        <5>1. p # 1
          BY <2>1, <3>1, <4>1
        <5>2. p - 1 \in 1 .. Len(queue'[i]) /\ queue'[i][p - 1] = queue[i][p]
          BY <2>2, <4>1, <5>1
        <5> QED
          BY <2>4, <4>1, <5>2
      <4>2. CASE j # i
        BY <2>1, <2>4, <4>2
      <4> QED
        BY <4>1, <4>2
    <3> QED
      BY <2>3, <3>1
  <2>7. job[i] \in Rec /\ job[i] \in Pending /\ job[i] \in Handled
    <3>1. job[i] \in Rec
      BY <1>4, JobFacts DEF PopFromQueue, RecordingInv, At
    <3>2. verdict[job[i]] # {}
      BY <1>4 DEF PopFromQueue, RecordingInv, VisitInv, VisitOf, At
    <3>3. job[i] \in Pending
      BY <2>1, <2>2, <2>3
    <3> QED
      BY <3>1, <3>2, <3>3 DEF Handled
  <2>8. Handled' = Handled
    BY <1>4 DEF PopFromQueue, Handled
  <2>9. Pending' = Pending \ {job[i]}
    BY <2>5, <2>6
  <2> QED
    BY <2>7, <2>8, <2>9 DEF Jobs!Next, Jobs!Retire
<1>5. ASSUME NEW i \in Index, PopError(i) \/ WorkerKilled(i) PROVE [Jobs!Next]_(Jobs!vars)
  BY <1>5, JobsStutter DEF PopError, WorkerKilled
<1>6. CASE GatewayKilled
  BY <1>6, JobsStutter DEF GatewayKilled
<1>7. CASE UNCHANGED vars
  BY <1>7, JobsStutter DEF vars
<1> QED
  BY <1>1, <1>2, <1>3, <1>4, <1>5, <1>6, <1>7 DEF Next, Polling

(* However many workers, recordings and kills: an entry is submitted once,  *)
(* and leaves the queue only after some visit said how it came out.         *)
THEOREM ImplementsJobQueue == Spec => Jobs!Spec
<1>1. Init => Jobs!Init
  BY DEF Init, Jobs!Init, Pending, Handled, Range
<1>2. RecordingInv /\ RecordingInv' /\ [Next]_vars => [Jobs!Next]_(Jobs!vars)
  BY JobsStep
<1> QED
  BY <1>1, <1>2, RecordingCorrect, PTL DEF Spec, Jobs!Spec
=============================================================================
