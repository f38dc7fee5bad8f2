----------------------------- MODULE Recording -----------------------------
(***************************************************************************)
(* From the end of a recorded session to its video: AddEncodeRecoding and  *)
(* EncodeRecording of pkg/recording.go, the queues of pkg/redis.go, the    *)
(* workers of cmd/transcoding (one per queue) and cleanExpiredRdpFiles of  *)
(* cmd/guac/guac.go, with the files they share under /efs/rdp.             *)
(*                                                                         *)
(* A worker is killed at any step and started again, the gateway is killed *)
(* with sessions open, Redis refuses calls, and guacenc and ffmpeg fail in *)
(* every way the code tells apart.  A refused PeekFromQueue is a sleep and *)
(* another try, hence no step.                                             *)
(*                                                                         *)
(* A recording stands for its file: the sessions are taken to differ in    *)
(* user or in the second they began, which is what the name is made of.    *)
(***************************************************************************)
EXTENDS Integers, Sequences, Functions

CONSTANTS
    Rec,                \* the sessions, each with its recording
    EnableRecording,    \* the sessions of applications that are recorded
    theNumberOfQueues,
    MaxKills,           \* bound on WorkerKilled and on GatewayKilled
    None

ASSUME RecAssumption ==
    /\ EnableRecording \subseteq Rec
    /\ theNumberOfQueues \in Nat \ {0}
    /\ MaxKills \in Nat
    /\ None \notin Rec

VARIABLES
    session,   \* what became of a session and its hand-over to a queue
    count,     \* the gateway's counter of hand-overs
    queue,     \* the Redis list of each index, oldest entry first
    raw,       \* the recordings there is a file for
    m4v,       \* the output of guacenc, by recording
    mp4,       \* the output of ffmpeg, by recording
    pc,        \* the place of the worker of each index
    job,       \* its variable info
    tries,     \* its variable count (in Encode)
    verdict,   \* how the visits of the workers to a recording came out
    workerKills, gatewayKills

gateway == <<session, count, gatewayKills>>
files == <<raw, m4v, mp4>>
worker == <<pc, job, tries>>
vars == <<gateway, queue, files, worker, verdict, workerKills>>

Index == 0 .. theNumberOfQueues - 1

Place == {"peek", "stat", "encode", "guacenc", "ffmpeg", "upload",
          "rmMp4", "rmM4v", "rmRaw", "pop"}

(* How a visit of a worker came out: the video was logged or found empty,   *)
(* or the recording was not there or could not be encoded.                  *)
Verdict == {"settled", "dropped"}

(* "old" is a file of an earlier visit, "part" one that breaks off. *)
Video == {"none", "old", "part", "whole"}

TypeOK ==
    /\ session \in [Rec -> {"new", "open", "queued", "notQueued"}]
    /\ count \in Nat
    /\ queue \in [Index -> Seq(Rec)]
    /\ raw \subseteq Rec
    /\ m4v \in [Rec -> Video]
    /\ mp4 \in [Rec -> Video]
    /\ pc \in [Index -> Place]
    /\ job \in [Index -> Rec \cup {None}]
    /\ tries \in [Index -> 0 .. 4]
    /\ verdict \in [Rec -> SUBSET Verdict]
    /\ workerKills \in Nat
    /\ gatewayKills \in Nat

Init ==
    /\ session = [r \in Rec |-> "new"]
    /\ count = 0
    /\ queue = [i \in Index |-> <<>>]
    /\ raw = {}
    /\ m4v = [r \in Rec |-> "none"]
    /\ mp4 = [r \in Rec |-> "none"]
    /\ pc = [i \in Index |-> "peek"]
    /\ job = [i \in Index |-> None]
    /\ tries = [i \in Index |-> 0]
    /\ verdict = [r \in Rec |-> {}]
    /\ workerKills = 0
    /\ gatewayKills = 0

At(i, place) == pc[i] = place
Move(i, place) == pc' = [pc EXCEPT ![i] = place]
Judge(r, v) == verdict' = [verdict EXCEPT ![r] = @ \cup {v}]

(* Encode returns without a video. *)
GiveUp(i) ==
    /\ Move(i, "pop")
    /\ Judge(job[i], "dropped")

-----------------------------------------------------------------------------
(* Mutants: what a slip in the code would make of a definition below.       *)

Stat_PopsFirst(i) ==
    /\ At(i, "stat")
    /\ IF job[i] \in raw
       THEN /\ Move(i, "encode")
            /\ queue' = [queue EXCEPT ![i] = Tail(@)]
            /\ UNCHANGED verdict
       ELSE GiveUp(i) /\ UNCHANGED queue
    /\ tries' = [tries EXCEPT ![i] = 0]
    /\ m4v' = [m4v EXCEPT ![job[i]] = IF @ = "none" THEN @ ELSE "old"]
    /\ mp4' = [mp4 EXCEPT ![job[i]] = IF @ = "none" THEN @ ELSE "old"]
    /\ UNCHANGED <<gateway, raw, job, workerKills>>

Attempt_KeepsMp4(i) ==
    /\ At(i, "encode")
    /\ tries' = [tries EXCEPT ![i] = @ + 1]
    /\ IF tries[i] < 3
       THEN /\ m4v' = [m4v EXCEPT ![job[i]] = "none"]
            /\ Move(i, "guacenc")
            /\ UNCHANGED verdict
       ELSE GiveUp(i) /\ UNCHANGED m4v
    /\ UNCHANGED <<gateway, queue, raw, mp4, job, workerKills>>

Guacenc_ErrorRemoves(i) ==
    /\ At(i, "guacenc")
    /\ \/ Move(i, "rmMp4") /\ UNCHANGED <<m4v, verdict>>
       \/ /\ job[i] \in raw /\ m4v[job[i]] = "none"
          /\ m4v' = [m4v EXCEPT ![job[i]] = "whole"]
          /\ Move(i, "ffmpeg")
          /\ UNCHANGED verdict
    /\ UNCHANGED <<gateway, queue, raw, mp4, job, tries, workerKills>>

Attempt_RetriesForever(i) ==
    /\ At(i, "encode")
    /\ tries' = [tries EXCEPT ![i] = 1]       \* count declared inside the loop
    /\ m4v' = [m4v EXCEPT ![job[i]] = "none"]
    /\ mp4' = [mp4 EXCEPT ![job[i]] = "none"]
    /\ Move(i, "guacenc")
    /\ UNCHANGED <<gateway, queue, raw, job, verdict, workerKills>>

Expire_RawOnly(r) ==
    /\ session[r] \in {"queued", "notQueued"}
    /\ r \in raw
    /\ raw' = raw \ {r}
    /\ UNCHANGED <<gateway, queue, m4v, mp4, worker, verdict, workerKills>>

-----------------------------------------------------------------------------
(* The gateway. *)

(* DemoDoConnect names the recording after the user and the second; guacd   *)
(* writes it, if it gets so far.                                            *)
Open(r) ==
    /\ session[r] = "new"
    /\ session' = [session EXCEPT ![r] = "open"]
    /\ \E made \in SUBSET ({r} \cap EnableRecording) : raw' = raw \cup made
    /\ UNCHANGED <<count, queue, m4v, mp4, worker, verdict, workerKills, gatewayKills>>

(* closeRoom, AddEncodeRecoding, PushToQueue: the entry goes to the queue   *)
(* that is next in turn.  An error of Redis is logged and the recording     *)
(* forgotten.                                                               *)
PushToQueue(r) ==
    LET index == (count + 1) % theNumberOfQueues IN
    /\ session[r] = "open"
    /\ r \in EnableRecording
    /\ count' = count + 1
    /\ \/ /\ queue' = [queue EXCEPT ![index] = Append(@, r)]
          /\ session' = [session EXCEPT ![r] = "queued"]
       \/ /\ session' = [session EXCEPT ![r] = "notQueued"]
          /\ UNCHANGED queue
    /\ UNCHANGED <<files, worker, verdict, workerKills, gatewayKills>>

PushNothing(r) ==
    /\ session[r] = "open"
    /\ r \notin EnableRecording
    /\ session' = [session EXCEPT ![r] = "notQueued"]
    /\ UNCHANGED <<count, queue, files, worker, verdict, workerKills, gatewayKills>>

(* The open sessions end with the gateway; nobody hands them over later. *)
GatewayKilled ==
    /\ gatewayKills < MaxKills
    /\ gatewayKills' = gatewayKills + 1
    /\ session' = [r \in Rec |-> IF session[r] = "open" THEN "notQueued" ELSE session[r]]
    /\ count' = 0
    /\ UNCHANGED <<queue, files, worker, verdict, workerKills>>

(* utils.CleanExpiredFiles, which is not in the repository, is called with  *)
(* 24 hours and taken to do what its name says: to remove a file that       *)
(* nothing was written to for a day.  That is the recording of a session    *)
(* that is over, whether a worker has got to it or not, or a video no       *)
(* worker is making.                                                        *)
Expire(r) ==
    /\ session[r] \in {"queued", "notQueued"}
    /\ \/ /\ r \in raw
          /\ raw' = raw \ {r}
          /\ UNCHANGED <<m4v, mp4>>
       \/ /\ \A i \in Index : job[i] # r
          /\ m4v[r] # "none" \/ mp4[r] # "none"
          /\ m4v' = [m4v EXCEPT ![r] = "none"]
          /\ mp4' = [mp4 EXCEPT ![r] = "none"]
          /\ UNCHANGED raw
    /\ UNCHANGED <<gateway, queue, worker, verdict, workerKills>>

-----------------------------------------------------------------------------
(* EncodeRecording(i). *)

PeekFromQueue(i) ==
    /\ At(i, "peek")
    /\ queue[i] # <<>>
    /\ job' = [job EXCEPT ![i] = Head(queue[i])]
    /\ Move(i, "stat")
    /\ UNCHANGED <<gateway, queue, files, tries, verdict, workerKills>>

(* A recording without a file is skipped.  What lies beside the file is of  *)
(* an earlier visit.                                                        *)
Stat(i) ==
    /\ At(i, "stat")
    /\ IF job[i] \in raw
       THEN Move(i, "encode") /\ UNCHANGED verdict
       ELSE GiveUp(i)
    /\ tries' = [tries EXCEPT ![i] = 0]
    /\ m4v' = [m4v EXCEPT ![job[i]] = IF @ = "none" THEN @ ELSE "old"]
    /\ mp4' = [mp4 EXCEPT ![job[i]] = IF @ = "none" THEN @ ELSE "old"]
    /\ UNCHANGED <<gateway, queue, raw, job, workerKills>>

(* The head of Encode's loop: three attempts, each on a clean directory. *)
Attempt(i) ==
    /\ At(i, "encode")
    /\ tries' = [tries EXCEPT ![i] = @ + 1]
    /\ IF tries[i] < 3
       THEN /\ m4v' = [m4v EXCEPT ![job[i]] = "none"]
            /\ mp4' = [mp4 EXCEPT ![job[i]] = "none"]
            /\ Move(i, "guacenc")
            /\ UNCHANGED verdict
       ELSE GiveUp(i) /\ UNCHANGED <<m4v, mp4>>
    /\ UNCHANGED <<gateway, queue, raw, job, workerKills>>

(* guacenc exits with an error, reports no success (with part of a video or *)
(* none), or encodes a recording that is there to a file that is not.       *)
Guacenc(i) ==
    /\ At(i, "guacenc")
    /\ \/ /\ GiveUp(i)
          /\ UNCHANGED m4v
       \/ /\ Move(i, "encode")
          /\ m4v' = [m4v EXCEPT ![job[i]] = "part"] \/ UNCHANGED m4v
          /\ UNCHANGED verdict
       \/ /\ job[i] \in raw
          /\ m4v[job[i]] = "none"
          /\ m4v' = [m4v EXCEPT ![job[i]] = "whole"]
          /\ Move(i, "ffmpeg")
          /\ UNCHANGED verdict
    /\ UNCHANGED <<gateway, queue, raw, mp4, job, tries, workerKills>>

(* ffmpeg, whose exit code is dropped.  It refuses to overwrite a file;     *)
(* otherwise it writes a video, a part of one, none, or one it reports as   *)
(* "video:0kB".  Without a file to open Encode returns.                     *)
Ffmpeg(i) ==
    /\ At(i, "ffmpeg")
    /\ \/ /\ mp4[job[i]] # "none"
          /\ Move(i, "upload")
          /\ UNCHANGED <<mp4, verdict>>
       \/ /\ mp4[job[i]] = "none"
          /\ \/ /\ \E v \in {"part", "whole"} : mp4' = [mp4 EXCEPT ![job[i]] = v]
                /\ Move(i, "upload")
                /\ UNCHANGED verdict
             \/ /\ GiveUp(i)
                /\ UNCHANGED mp4
             \/ /\ mp4' = [mp4 EXCEPT ![job[i]] = "whole"]
                /\ Move(i, "rmMp4")
                /\ Judge(job[i], "settled")
    /\ UNCHANGED <<gateway, queue, raw, m4v, job, tries, workerKills>>

(* UploadRdp, whose error is dropped, and LogRecording. *)
Upload(i) ==
    /\ At(i, "upload")
    /\ Judge(job[i], "settled")
    /\ Move(i, "rmMp4")
    /\ UNCHANGED <<gateway, queue, files, job, tries, workerKills>>

(* The end of Encode. *)
RemoveFiles(i) ==
    /\ \/ /\ At(i, "rmMp4")
          /\ mp4' = [mp4 EXCEPT ![job[i]] = "none"]
          /\ Move(i, "rmM4v")
          /\ UNCHANGED <<raw, m4v>>
       \/ /\ At(i, "rmM4v")
          /\ m4v' = [m4v EXCEPT ![job[i]] = "none"]
          /\ Move(i, "rmRaw")
          /\ UNCHANGED <<raw, mp4>>
       \/ /\ At(i, "rmRaw")
          /\ raw' = raw \ {job[i]}
          /\ Move(i, "pop")
          /\ UNCHANGED <<m4v, mp4>>
    /\ UNCHANGED <<gateway, queue, job, tries, verdict, workerKills>>

PopFromQueue(i) ==
    /\ At(i, "pop")
    /\ queue' = [queue EXCEPT ![i] = Tail(@)]
    /\ Move(i, "peek")
    /\ job' = [job EXCEPT ![i] = None]
    /\ tries' = [tries EXCEPT ![i] = 0]
    /\ UNCHANGED <<gateway, files, verdict, workerKills>>

(* Redis refuses: the error is logged and the entry stays. *)
PopError(i) ==
    /\ At(i, "pop")
    /\ Move(i, "peek")
    /\ job' = [job EXCEPT ![i] = None]
    /\ tries' = [tries EXCEPT ![i] = 0]
    /\ UNCHANGED <<gateway, queue, files, verdict, workerKills>>

(* The worker is killed, with the command it waits for, and starts again. *)
WorkerKilled(i) ==
    /\ workerKills < MaxKills
    /\ pc[i] # "peek"
    /\ workerKills' = workerKills + 1
    /\ \/ At(i, "guacenc") /\ m4v[job[i]] = "none" /\ m4v' = [m4v EXCEPT ![job[i]] = "part"]
       \/ UNCHANGED m4v
    /\ \/ At(i, "ffmpeg") /\ mp4[job[i]] = "none" /\ mp4' = [mp4 EXCEPT ![job[i]] = "part"]
       \/ UNCHANGED mp4
    /\ Move(i, "peek")
    /\ job' = [job EXCEPT ![i] = None]
    /\ tries' = [tries EXCEPT ![i] = 0]
    /\ UNCHANGED <<gateway, queue, raw, verdict>>

EncodeStep(i) ==
    \/ PeekFromQueue(i)
    \/ Stat(i)
    \/ Attempt(i)
    \/ Guacenc(i)
    \/ Ffmpeg(i)
    \/ Upload(i)
    \/ RemoveFiles(i)

(* Nothing is left to do: the workers poll their queues. *)
Polling ==
    /\ \A r \in Rec : session[r] \in {"queued", "notQueued"}
    /\ \A i \in Index : At(i, "peek") /\ queue[i] = <<>>
    /\ UNCHANGED vars

Next ==
    \/ \E r \in Rec : Open(r) \/ PushToQueue(r) \/ PushNothing(r) \/ Expire(r)
    \/ \E i \in Index : EncodeStep(i) \/ PopFromQueue(i) \/ PopError(i) \/ WorkerKilled(i)
    \/ GatewayKilled
    \/ Polling

(* Workers are processes that keep running, Redis answers a pop now and     *)
(* again, and cleanExpiredRdpFiles is called every ten minutes.             *)
Fairness ==
    /\ \A i \in Index : WF_vars(EncodeStep(i)) /\ SF_vars(PopFromQueue(i))
    /\ \A i \in Index : WF_vars(PopFromQueue(i) \/ PopError(i))
    /\ \A r \in Rec : WF_vars(Expire(r))

Spec == Init /\ [][Next]_vars
FairSpec == Spec /\ Fairness

-----------------------------------------------------------------------------
(* The queues, seen as one set of jobs. *)
Pending == UNION {Range(queue[i]) : i \in Index}
Handled == {r \in Rec : verdict[r] # {}}

Jobs == INSTANCE JobQueue WITH Job <- Rec, pending <- Pending, handled <- Handled

(* EncodeRecording implements the queue's promise: although the entry is    *)
(* only looked at before the work and removed after it, workers are killed  *)
(* at any step and Redis refuses calls, an entry leaves only when it was    *)
(* handled, and every entry does.                                           *)
AtLeastOnce == Jobs!FairSpec

(* Pop takes no argument: what it removes must still be the entry that was  *)
(* peeked, after all the time the encoding took and every failure before.   *)
JobIsHead ==
    \A i \in Index :
       /\ At(i, "peek") <=> job[i] = None
       /\ ~At(i, "peek") => queue[i] # <<>> /\ Head(queue[i]) = job[i]

(* recording.go 55: "if guac process is stopped in the middle of            *)
(* transcoding we should delete the old temp file and do it again".  What   *)
(* is uploaded was made by this visit, from what guacenc wrote in it.       *)
UploadsFresh ==
    \A i \in Index :
       At(i, "upload") =>
          mp4[job[i]] \in {"part", "whole"} /\ m4v[job[i]] = "whole"

(* A worker deletes a recording only once its video is logged or was found  *)
(* to be empty; one that Encode gave up is kept until it expires.           *)
DeletedIsLogged ==
    [][\A i \in Index, r \in Rec :
          (r \in raw \ raw' /\ pc'[i] # pc[i]) => "settled" \in verdict[r]]_vars

(* Liveness: whatever was given up, killed or never handed over, no file of *)
(* a session that is over stays on the disk.                                *)
FilesReclaimed ==
    \A r \in Rec :
       session[r] \in {"queued", "notQueued"} ~>
          r \notin raw /\ m4v[r] = "none" /\ mp4[r] = "none"
=============================================================================
