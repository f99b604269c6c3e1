--------------------------- MODULE PipyRepoProofs ---------------------------
(***************************************************************************)
(* A version that a sidecar sees is whole, the ETag is true and codebases  *)
(* have their base, for any proxies, configurations and numbers of         *)
(* failures, restarts and crashes.                                         *)
(***************************************************************************)
EXTENDS PipyRepo, TLAPS

Jobs == [pc : Steps, conf : {0} \cup Configs]
Codebases == [version : Int, derived : BOOLEAN, staged : {0} \cup Configs, live : {0} \cup Configs]

(* What holds of a job and the codebase it works on: between a derive and    *)
(* its commit the codebase, if it is still there, has nothing uploaded, and  *)
(* when Batch commits it has the file of this job; the versions before the   *)
(* hash are no hashes.                                                       *)
Agree(j, c) ==
  /\ j \in Jobs /\ c \in Codebases
  /\ j.pc # "none" => j.conf \in Configs
  /\ j.pc \in {"derived", "commit_derived"} /\ c # NoCodebase =>
       c.version = 3 * j.conf - 2 /\ c.staged = 0
  /\ j.pc = "commit" /\ c # NoCodebase => c.staged = j.conf
  /\ \A d \in Configs : c.version = 3 * d => c.live = d

IInv ==
  /\ conf \in Configs
  /\ job \in [Proxies -> Jobs] /\ code \in [Proxies -> Codebases]
  /\ \A p \in Proxies : Agree(job[p], code[p])

(* A codebase that is not there is no version. *)
LEMMA NoneAgrees ==
  ASSUME NEW j \in Jobs, j.pc # "none" => j.conf \in Configs
  PROVE  Agree(j, NoCodebase)
<1>1. /\ NoCodebase \in Codebases /\ NoCodebase.version = -1
  BY DEF NoCodebase, Codebases
<1>2. \A d \in Configs : NoCodebase.version # 3 * d
  BY <1>1, RepoConstants
<1> QED
  BY <1>1, <1>2 DEF Agree

(* A job may end whatever its codebase is. *)
LEMMA NoJobAgrees ==
  ASSUME NEW j, NEW c, Agree(j, c)
  PROVE  NoJob \in Jobs /\ Agree(NoJob, c)
<1>1. NoJob \in Jobs /\ NoJob.pc = "none"
  BY DEF NoJob, Jobs, Steps
<1> QED
  BY <1>1 DEF Agree

(* At first there are no jobs and no codebases. *)
LEMMA InitIInv == Init => IInv
<1> SUFFICES ASSUME Init PROVE IInv
  OBVIOUS
<1>1. NoJob \in Jobs /\ NoJob.pc = "none"
  BY DEF NoJob, Jobs, Steps
<1>2. Agree(NoJob, NoCodebase) /\ NoCodebase \in Codebases
  BY <1>1, NoneAgrees DEF Agree
<1> QED
  BY <1>1, <1>2 DEF Init, IInv

(* A step of one proxy's job. *)
LEMMA OneProxy ==
  ASSUME IInv, conf' \in Configs, NEW p \in Proxies, NEW j, NEW c, Agree(j, c),
         job' = [job EXCEPT ![p] = j], code' = [code EXCEPT ![p] = c]
  PROVE  IInv'
<1>1. j \in Jobs /\ c \in Codebases
  BY DEF Agree
<1>2. job' \in [Proxies -> Jobs] /\ code' \in [Proxies -> Codebases]
  BY <1>1 DEF IInv
<1>3. \A q \in Proxies : q # p => job'[q] = job[q] /\ code'[q] = code[q]
  BY DEF IInv
<1>4. job'[p] = j /\ code'[p] = c
  BY DEF IInv
<1> QED
  BY <1>2, <1>3, <1>4 DEF IInv

(* A job that goes to a step which promises nothing of the codebase. *)
LEMMA PlainStep ==
  ASSUME NEW j, NEW c, Agree(j, c), j.pc # "none",
         NEW pc \in Steps \ {"none", "derived", "commit_derived", "commit"}
  PROVE  Agree([j EXCEPT !.pc = pc], c)
<1> DEFINE k == [j EXCEPT !.pc = pc]
<1>1. k \in Jobs /\ k.pc = pc /\ k.conf = j.conf
  BY DEF Agree, Jobs
<1> QED
  BY <1>1 DEF Agree

(* A job that gives up, whatever became of the codebase. *)
LEMMA GivesUp ==
  ASSUME NEW i, NEW b, Agree(i, b), i.pc # "none", NEW j, NEW c, Agree(j, c)
  PROVE  Agree([i EXCEPT !.pc = "delete"], c)
<1> DEFINE k == [i EXCEPT !.pc = "delete"]
<1>1. k \in Jobs /\ k.pc = "delete" /\ k.conf = i.conf
  BY DEF Agree, Jobs, Steps
<1> QED
  BY <1>1 DEF Agree

(* A job that goes on changes its place only. *)
LEMMA ToIs ==
  ASSUME IInv, NEW p \in Proxies, NEW pc
  PROVE  To(p, pc) = [job EXCEPT ![p] = [job[p] EXCEPT !.pc = pc]]
  BY DEF To, IInv

(* The three outcomes of a call. *)
LEMMA CallKeeps ==
  ASSUME IInv, conf' = conf, NEW p \in Proxies, job[p].pc # "none",
         NEW j, NEW c, Agree(j, c), Call(p, c, [job EXCEPT ![p] = j])
  PROVE  IInv'
<1> DEFINE k == [job[p] EXCEPT !.pc = "delete"]
<1>0. conf' \in Configs /\ Agree(job[p], code[p]) /\ code = [code EXCEPT ![p] = code[p]]
  BY DEF IInv
<1>1. Agree(k, c) /\ Agree(k, code[p])
  BY <1>0, GivesUp
<1>2. To(p, "delete") = [job EXCEPT ![p] = k]
  BY ToIs
<1> HIDE DEF k
<1>3. CASE code' = [code EXCEPT ![p] = c] /\ job' = [job EXCEPT ![p] = j]
  BY <1>0, <1>3, OneProxy
<1>4. CASE code' = [code EXCEPT ![p] = c] /\ job' = To(p, "delete")
  BY <1>0, <1>1, <1>2, <1>4, OneProxy
<1>5. CASE code' = code /\ job' = To(p, "delete")
  BY <1>0, <1>1, <1>2, <1>5, OneProxy
<1> QED
  BY <1>3, <1>4, <1>5 DEF Call

(* A call that reads and fails, or whose answer moves the job. *)
LEMMA ReadKeeps ==
  ASSUME IInv, conf' = conf, NEW p \in Proxies, job[p].pc # "none",
         NEW j, Agree(j, code[p]), Read(p, [job EXCEPT ![p] = j])
  PROVE  IInv'
<1> DEFINE k == [job[p] EXCEPT !.pc = "delete"]
<1>0. conf' \in Configs /\ Agree(job[p], code[p]) /\ code = [code EXCEPT ![p] = code[p]]
  BY DEF IInv
<1>1. Agree(k, code[p])
  BY <1>0, GivesUp
<1>2. To(p, "delete") = [job EXCEPT ![p] = k]
  BY ToIs
<1> HIDE DEF k
<1>3. CASE code' = code /\ job' = [job EXCEPT ![p] = j]
  BY <1>0, <1>3, OneProxy
<1>4. CASE code' = code /\ job' = To(p, "delete")
  BY <1>0, <1>1, <1>2, <1>4, OneProxy
<1> QED
  BY <1>3, <1>4 DEF Read

(* A job may go on to any place that says nothing of its codebase. *)
LEMMA PlainMove ==
  ASSUME IInv, conf' = conf, NEW p \in Proxies, job[p].pc # "none", code' = code,
         NEW pc \in Steps \ {"none", "derived", "commit_derived", "commit"}, job' = To(p, pc)
  PROVE  IInv'
<1>0. conf' \in Configs /\ Agree(job[p], code[p]) /\ code = [code EXCEPT ![p] = code[p]]
  BY DEF IInv
<1>1. Agree([job[p] EXCEPT !.pc = pc], code[p])
  BY <1>0, PlainStep
<1> QED
  BY <1>0, <1>1, ToIs, OneProxy

(* The steps that look and decide. *)
LEMMA ChecksKeep ==
  ASSUME IInv, NEW p \in Proxies,
         CheckBase(p) \/ Restore(p) \/ CheckCodebase(p) \/ CheckBatch(p)
  PROVE  IInv'
<1>0. Agree(job[p], code[p])
  BY DEF IInv
<1>1. CASE CheckBase(p)
  <2>1. job' = To(p, "exists") \/ job' = To(p, "restore")
    BY <1>1 DEF CheckBase
  <2> QED
    BY <1>1, <2>1, PlainMove DEF CheckBase, Steps
<1>2. CASE Restore(p)
  BY <1>2, PlainMove DEF Restore, Steps
<1>3. CASE CheckCodebase(p)
  <2>1. PICK pc \in {"batch", "derive"} : Read(p, To(p, pc))
    BY <1>3 DEF CheckCodebase, DeriveUnlessExists
  <2>2. Agree([job[p] EXCEPT !.pc = pc], code[p])
    BY <1>0, <1>3, PlainStep DEF CheckCodebase, Steps
  <2> QED
    BY <1>3, <2>1, <2>2, ToIs, ReadKeeps DEF CheckCodebase
<1>4. CASE CheckBatch(p)
  <2>1. PICK pc \in {"upsert", "create"} : Read(p, To(p, pc))
    BY <1>4 DEF CheckBatch
  <2>2. Agree([job[p] EXCEPT !.pc = pc], code[p])
    BY <1>0, <1>4, PlainStep DEF CheckBatch, Steps
  <2> QED
    BY <1>4, <2>1, <2>2, ToIs, ReadKeeps DEF CheckBatch
<1> QED
  BY <1>1, <1>2, <1>3, <1>4

(* A job whose call is refused gives up. *)
LEMMA RefusedKeeps ==
  ASSUME IInv, conf' = conf, NEW p \in Proxies, job[p].pc # "none", Refused(p)
  PROVE  IInv'
  BY PlainMove DEF Refused, Steps

(* Derive, read back, commit: the version two before the hash and then the   *)
(* one before, with no file.                                                 *)
LEMMA DerivesKeep ==
  ASSUME IInv, NEW p \in Proxies, Derive(p) \/ GetDerived(p) \/ CommitDerived(p)
  PROVE  IInv'
<1> DEFINE n == job[p].conf
<1>0. Agree(job[p], code[p]) /\ conf' = conf
  BY DEF IInv, Derive, GetDerived, CommitDerived
<1>1. CASE Derive(p)
  <2> DEFINE j == [job[p] EXCEPT !.pc = "derived"]
             c == Derived(3 * n - 2)
  <2>1. job[p].pc = "derive" /\ n \in Configs
    BY <1>0, <1>1 DEF Derive, Agree
  <2>2. j \in Jobs /\ j.pc = "derived" /\ j.conf = n
    BY <1>0 DEF Agree, Jobs, Steps
  <2>3. n \in Nat /\ 3 * n - 2 \in Int
    <3> HIDE DEF n
    <3>1. n \in Nat
      BY <2>1, RepoConstants
    <3> QED
      BY <3>1
  <2>4. c \in Codebases /\ c.version = 3 * n - 2 /\ c.staged = 0
    BY <2>3 DEF Derived, Codebases
  <2>5. \A d \in Configs : c.version # 3 * d
    <3> SUFFICES ASSUME NEW d \in Configs PROVE 3 * n - 2 # 3 * d
      BY <2>4
    <3>1. d \in Nat
      BY RepoConstants
    <3> QED
      BY <2>3, <3>1
  <2>6. Agree(j, c)
    BY <2>1, <2>2, <2>4, <2>5 DEF Agree
  <2>7. CASE Refused(p)
    BY <1>0, <2>1, <2>7, RefusedKeeps
  <2>8. CASE Call(p, c, To(p, "derived"))
    <3>1. Call(p, c, [job EXCEPT ![p] = j])
      BY <2>8, ToIs
    <3> HIDE DEF c, j
    <3> QED
      BY <1>0, <2>1, <2>6, <3>1, CallKeeps
  <2> QED
    BY <1>1, <2>7, <2>8 DEF Derive, hash
<1>2. CASE GetDerived(p)
  <2> DEFINE j == [job[p] EXCEPT !.pc = "commit_derived"]
  <2>1. job[p].pc = "derived"
    BY <1>2 DEF GetDerived
  <2>2. j \in Jobs /\ j.pc = "commit_derived" /\ j.conf = n
    BY <1>0 DEF Agree, Jobs, Steps
  <2>3. Agree(j, code[p])
    BY <1>0, <2>1, <2>2 DEF Agree
  <2>4. Read(p, [job EXCEPT ![p] = j])
    BY <1>2, ToIs DEF GetDerived
  <2> HIDE DEF j
  <2> QED
    BY <1>0, <2>1, <2>3, <2>4, ReadKeeps
<1>3. CASE CommitDerived(p)
  <2> DEFINE j == [job[p] EXCEPT !.pc = "batch"]
             c == Commit(code[p], code[p].version + 1)
  <2>1. job[p].pc = "commit_derived" /\ n \in Configs
    BY <1>0, <1>3 DEF CommitDerived, Agree
  <2>2. CASE Refused(p)
    BY <1>0, <2>1, <2>2, RefusedKeeps
  <2>3. CASE Exists(p) /\ Call(p, c, To(p, "batch"))
    <3>1. code[p].version = 3 * n - 2 /\ code[p].staged = 0 /\ code[p] \in Codebases
      BY <1>0, <2>1, <2>3 DEF Agree, Exists
    <3>2. n \in Nat
      BY <2>1, RepoConstants
    <3>3. c \in Codebases /\ c.version = code[p].version + 1
      <4> DEFINE v == code[p].version + 1
      <4>1. v \in Int
        BY <3>1 DEF Codebases
      <4> HIDE DEF v
      <4>2. Commit(code[p], v) \in Codebases /\ Commit(code[p], v).version = v
        BY <3>1, <4>1 DEF Commit, Codebases
      <4> QED
        BY <4>2 DEF v
    <3>4. \A d \in Configs : c.version # 3 * d
      <4> SUFFICES ASSUME NEW d \in Configs PROVE 3 * n - 2 + 1 # 3 * d
        BY <3>1, <3>3
      <4>1. d \in Nat
        BY RepoConstants
      <4> QED
        BY <3>2, <4>1
    <3>5. j \in Jobs /\ j.pc = "batch" /\ j.conf = n
      BY <1>0 DEF Agree, Jobs, Steps
    <3>6. Agree(j, c)
      BY <2>1, <3>3, <3>4, <3>5 DEF Agree
    <3>7. Call(p, c, [job EXCEPT ![p] = j])
      BY <2>3, ToIs
    <3> HIDE DEF c, j
    <3> QED
      BY <1>0, <2>1, <3>6, <3>7, CallKeeps
  <2> QED
    BY <1>3, <2>2, <2>3 DEF CommitDerived
<1> QED
  BY <1>1, <1>2, <1>3

(* Batch: an upload is not visible, and the commit makes the file of this    *)
(* job visible together with its hash.                                       *)
LEMMA CreatesKeep ==
  ASSUME IInv, NEW p \in Proxies, Create(p) \/ GetCreated(p)
  PROVE  IInv'
<1> DEFINE n == job[p].conf
<1>0. Agree(job[p], code[p]) /\ conf' = conf
  BY DEF IInv, Create, GetCreated
<1>1. CASE Create(p)
  <2> DEFINE j == [job[p] EXCEPT !.pc = "created"]
             c == [NoCodebase EXCEPT !.version = 3 * n - 1]
  <2>1. job[p].pc = "create" /\ n \in Configs
    BY <1>0, <1>1 DEF Create, Agree
  <2>2. n \in Nat /\ 3 * n - 1 \in Int
    <3> HIDE DEF n
    <3>1. n \in Nat
      BY <2>1, RepoConstants
    <3> QED
      BY <3>1
  <2>3. c \in Codebases /\ c.version = 3 * n - 1
    BY <2>2 DEF NoCodebase, Codebases
  <2>4. \A d \in Configs : c.version # 3 * d
    <3> SUFFICES ASSUME NEW d \in Configs PROVE 3 * n - 1 # 3 * d
      BY <2>3
    <3>1. d \in Nat
      BY RepoConstants
    <3> QED
      BY <2>2, <3>1
  <2>5. j \in Jobs /\ j.pc = "created" /\ j.conf = n
    BY <1>0 DEF Agree, Jobs, Steps
  <2>6. Agree(j, c)
    BY <2>1, <2>3, <2>4, <2>5 DEF Agree
  <2>7. Call(p, c, [job EXCEPT ![p] = j])
    BY <1>1, ToIs DEF Create, hash
  <2> HIDE DEF c, j
  <2> QED
    BY <1>0, <2>1, <2>6, <2>7, CallKeeps
<1>2. CASE GetCreated(p)
  <2>1. job[p].pc = "created"
    BY <1>2 DEF GetCreated
  <2>2. CASE Read(p, To(p, "upsert"))
    <3>1. Agree([job[p] EXCEPT !.pc = "upsert"], code[p])
      BY <1>0, <2>1, PlainStep DEF Steps
    <3> QED
      BY <1>0, <2>1, <2>2, <3>1, ToIs, ReadKeeps
  <2>3. CASE Read(p, Finished(p))
    <3>1. Agree(NoJob, code[p])
      BY <1>0, NoJobAgrees
    <3> QED
      BY <1>0, <2>1, <2>3, <3>1, ReadKeeps DEF Finished
  <2> QED
    BY <1>2, <2>2, <2>3 DEF GetCreated
<1> QED
  BY <1>1, <1>2

(* The upload of Batch and its commit. *)
LEMMA CommitsKeep ==
  ASSUME IInv, NEW p \in Proxies, Upsert(p) \/ CommitBatch(p)
  PROVE  IInv'
<1> DEFINE n == job[p].conf
<1>0. Agree(job[p], code[p]) /\ conf' = conf /\ code[p] \in Codebases
  BY DEF IInv, Upsert, CommitBatch
<1>1. CASE Upsert(p)
  <2> DEFINE j == [job[p] EXCEPT !.pc = "commit"]
             c == Upload(code[p], n)
  <2>1. job[p].pc = "upsert" /\ n \in Configs
    BY <1>0, <1>1 DEF Upsert, Agree
  <2>2. CASE Refused(p)
    BY <1>0, <2>1, <2>2, RefusedKeeps
  <2>3. CASE Call(p, c, To(p, "commit"))
    <3>1. /\ c \in Codebases /\ c.staged = n
          /\ c.version = code[p].version /\ c.live = code[p].live
      BY <1>0, <2>1 DEF Upload, Codebases
    <3>2. j \in Jobs /\ j.pc = "commit" /\ j.conf = n
      BY <1>0 DEF Agree, Jobs, Steps
    <3>3. Agree(j, c)
      BY <1>0, <2>1, <3>1, <3>2 DEF Agree
    <3>4. Call(p, c, [job EXCEPT ![p] = j])
      BY <2>3, ToIs
    <3> HIDE DEF c, j
    <3> QED
      BY <1>0, <2>1, <3>3, <3>4, CallKeeps
  <2> QED
    BY <1>1, <2>2, <2>3 DEF Upsert
<1>2. CASE CommitBatch(p)
  <2> DEFINE c == Commit(code[p], VersionCommitted(n))
  <2>1. job[p].pc = "commit" /\ n \in Configs
    BY <1>0, <1>2 DEF CommitBatch, Agree
  <2>2. CASE Refused(p)
    BY <1>0, <2>1, <2>2, RefusedKeeps
  <2>3. CASE Exists(p) /\ Call(p, c, Finished(p))
    <3>1. code[p].staged = n
      BY <1>0, <2>1, <2>3 DEF Agree, Exists
    <3>2. n \in Nat /\ VersionCommitted(n) = 3 * n /\ 3 * n \in Int
      <4> HIDE DEF n
      <4>1. n \in Nat
        BY <2>1, RepoConstants
      <4> QED
        BY <4>1 DEF VersionCommitted, hash
    <3>3. c \in Codebases /\ c.version = 3 * n /\ c.live = n
      <4> DEFINE v == VersionCommitted(n)
      <4>1. v \in Int /\ v = 3 * n
        BY <3>2
      <4> HIDE DEF v
      <4>2. Commit(code[p], v) \in Codebases /\ Commit(code[p], v).version = v
            /\ Commit(code[p], v).live = code[p].staged
        BY <1>0, <4>1 DEF Commit, Codebases
      <4> QED
        BY <3>1, <4>1, <4>2 DEF v
    <3>4. \A d \in Configs : c.version = 3 * d => c.live = d
      <4> SUFFICES ASSUME NEW d \in Configs, 3 * n = 3 * d PROVE n = d
        BY <3>3
      <4>1. d \in Nat
        BY RepoConstants
      <4> QED
        BY <3>2, <4>1
    <3>5. Agree(NoJob, c)
      <4>1. NoJob \in Jobs /\ NoJob.pc = "none"
        BY DEF NoJob, Jobs, Steps
      <4> HIDE DEF c
      <4> QED
        BY <4>1, <3>3, <3>4 DEF Agree
    <3>6. Call(p, c, [job EXCEPT ![p] = NoJob])
      BY <2>3 DEF Finished
    <3> HIDE DEF c
    <3> QED
      BY <1>0, <2>1, <3>5, <3>6, CallKeeps
  <2> QED
    BY <1>2, <2>2, <2>3 DEF CommitBatch
<1> QED
  BY <1>1, <1>2

(* Steps that start or end jobs, or remove codebases. *)
LEMMA JobEndsKeep ==
  ASSUME IInv, NEW p \in Proxies, StartJob(p) \/ DeleteFailed(p)
  PROVE  IInv'
<1>0. /\ Agree(job[p], code[p]) /\ conf \in Configs /\ conf' \in Configs
      /\ code = [code EXCEPT ![p] = code[p]]
  BY DEF IInv, StartJob, DeleteFailed
<1>1. CASE StartJob(p)
  <2> DEFINE j == [pc |-> "base", conf |-> conf]
  <2>1. j \in Jobs /\ j.pc = "base" /\ j.conf = conf
    BY <1>0 DEF Jobs, Steps
  <2>2. Agree(j, code[p])
    BY <1>0, <2>1 DEF Agree
  <2>3. job' = [job EXCEPT ![p] = j] /\ code' = code
    BY <1>1 DEF StartJob
  <2> HIDE DEF j
  <2> QED
    BY <1>0, <2>2, <2>3, OneProxy
<1>2. CASE DeleteFailed(p)
  <2>1. Agree(NoJob, code[p]) /\ Agree(NoJob, NoCodebase)
    <3>1. NoJob \in Jobs /\ NoJob.pc = "none"
      BY DEF NoJob, Jobs, Steps
    <3> QED
      BY <1>0, <3>1, NoJobAgrees, NoneAgrees
  <2>2. /\ job' = [job EXCEPT ![p] = NoJob]
        /\ code' = code \/ code' = [code EXCEPT ![p] = NoCodebase]
    BY <1>2 DEF DeleteFailed, Finished
  <2> QED
    BY <1>0, <2>1, <2>2, OneProxy
<1> QED
  BY <1>1, <1>2

(* A cleanup that deletes the codebase of a former registration. *)
LEMMA CleanUpKeeps ==
  ASSUME IInv, NEW p \in Proxies, CleanUp(p)
  PROVE  IInv'
<1>0. /\ Agree(job[p], code[p]) /\ conf' \in Configs /\ job' = job
      /\ job = [job EXCEPT ![p] = job[p]] /\ code = [code EXCEPT ![p] = code[p]]
  BY DEF IInv, CleanUp
<1>1. Agree(job[p], NoCodebase)
  BY <1>0, NoneAgrees DEF Agree
<1>2. code' = code \/ code' = [code EXCEPT ![p] = NoCodebase]
  BY DEF CleanUp
<1> QED
  BY <1>0, <1>1, <1>2, OneProxy

(* A repo that has lost everything, a controller that starts again. *)
LEMMA RestartsKeep ==
  ASSUME IInv, RepoRestarts \/ StartsAgain
  PROVE  IInv'
<1>1. CASE RepoRestarts
  <2>1. code' = [p \in Proxies |-> NoCodebase] /\ job' = job /\ conf' = conf
    BY <1>1 DEF RepoRestarts
  <2>2. \A p \in Proxies : job[p] \in Jobs /\ Agree(job[p], NoCodebase)
    BY NoneAgrees DEF IInv, Agree
  <2>3. NoCodebase \in Codebases
    BY DEF NoCodebase, Codebases
  <2> QED
    BY <2>1, <2>2, <2>3 DEF IInv
<1>2. CASE StartsAgain
  <2>1. job' = [p \in Proxies |-> NoJob] /\ code' = code /\ conf' = conf
    BY <1>2 DEF StartsAgain
  <2>2. NoJob \in Jobs
    BY DEF NoJob, Jobs, Steps
  <2>3. \A p \in Proxies : Agree(NoJob, code[p])
    BY NoJobAgrees DEF IInv
  <2> QED
    BY <2>1, <2>2, <2>3 DEF IInv
<1> QED
  BY <1>1, <1>2

(* Every step keeps the inductive invariant. *)
LEMMA NextIInv == IInv /\ [Next]_vars => IInv'
<1> SUFFICES ASSUME IInv, [Next]_vars PROVE IInv'
  OBVIOUS
<1>1. CASE conf' \in Configs /\ UNCHANGED <<job, code>>
  BY <1>1 DEF IInv
<1>2. ASSUME NEW p \in Proxies, JobStep(p) PROVE IInv'
  <2>1. CASE GetDerivedPanics(p)
    BY <2>1, RestartsKeep DEF GetDerivedPanics
  <2> QED
    BY <1>2, <2>1, ChecksKeep, DerivesKeep, CreatesKeep, CommitsKeep, JobEndsKeep DEF JobStep
<1>3. ASSUME NEW p \in Proxies, Reregister(p) PROVE IInv'
  BY <1>1, <1>3 DEF Reregister, IInv
<1>4. ASSUME NEW p \in Proxies, CleanUp(p) PROVE IInv'
  BY <1>4, CleanUpKeeps
<1>5. ASSUME NEW c \in Configs, ChangeConf(c) PROVE IInv'
  BY <1>1, <1>5 DEF ChangeConf
<1>6. CASE RepoRestarts \/ Crash
  BY <1>6, RestartsKeep DEF Crash
<1>7. CASE UNCHANGED vars
  BY <1>1, <1>7 DEF vars, IInv
<1> QED
  BY <1>2, <1>3, <1>4, <1>5, <1>6, <1>7 DEF Next

(* Jobs and their codebases agree throughout. *)
LEMMA JobsSound == Spec => []IInv
  BY InitIInv, NextIInv, PTL DEF Spec

(* Whatever calls of Batch and DeriveCodebase fail or lose their answers and *)
(* whenever repo and controller restart, a codebase whose version is a hash  *)
(* shows the configuration with that hash.                                   *)
THEOREM VersionsAreWhole == Spec => []CommittedIsWhole
<1>1. IInv => CommittedIsWhole
  BY DEF IInv, Agree, CommittedIsWhole, hash
<1> QED
  BY <1>1, JobsSound, PTL
-----------------------------------------------------------------------------
(* Between jobs the ETag is the version in the repo, unless that was lost;   *)
(* a codebase that Batch created is there when it is read back, unless it    *)
(* was lost.                                                                 *)
ETagAgrees(j, c, e, gone) ==
  /\ j = NoJob /\ e # 0 /\ ~gone => c.version = e
  /\ j.pc = "created" => c # NoCodebase \/ gone

(* While nothing takes codebases away, a job that has derived one, or found  *)
(* one, still has it, and Batch has nothing to create.                       *)
BaseAgrees(j, c) ==
  /\ c # NoCodebase => c.derived
  /\ j.pc \in {"derived", "commit_derived", "batch", "upsert", "commit"} => c # NoCodebase
  /\ j.pc \notin {"create", "created"}

Undisturbed == restarts = 0 /\ reregistrations = 0

PInv ==
  /\ etag \in [Proxies -> Int] /\ restarts \in Nat /\ reregistrations \in Nat
  /\ \A p \in Proxies : ETagAgrees(job[p], code[p], etag[p], p \in lost)
  /\ Undisturbed => /\ deleting = {} /\ base = "whole"
                    /\ \A p \in Proxies : BaseAgrees(job[p], code[p])

(* A step of one proxy: it is enough to look at what becomes of that one. *)
LEMMA OnePublication ==
  ASSUME IInv, PInv, NEW p \in Proxies, NEW j, NEW c, NEW e \in Int,
         job' = [job EXCEPT ![p] = j], code' = [code EXCEPT ![p] = c],
         etag' = [etag EXCEPT ![p] = e], ETagAgrees(j, c, e, p \in lost'),
         \A q \in Proxies \ {p} : q \in lost' <=> q \in lost,
         restarts' = restarts, reregistrations' = reregistrations,
         Undisturbed => deleting' = {} /\ base' = "whole" /\ BaseAgrees(j, c)
  PROVE  PInv'
<1>1. job'[p] = j /\ code'[p] = c /\ etag'[p] = e /\ etag' \in [Proxies -> Int]
  BY DEF IInv, PInv
<1>2. ASSUME NEW q \in Proxies, q # p
      PROVE  job'[q] = job[q] /\ code'[q] = code[q] /\ etag'[q] = etag[q]
  BY <1>2 DEF IInv, PInv
<1>3. ASSUME NEW q \in Proxies PROVE ETagAgrees(job'[q], code'[q], etag'[q], q \in lost')
  <2>1. CASE q = p
    BY <1>1, <2>1
  <2>2. CASE q # p
    BY <1>2, <2>2 DEF PInv, ETagAgrees
  <2> QED
    BY <2>1, <2>2
<1>4. ASSUME Undisturbed, NEW q \in Proxies PROVE BaseAgrees(job'[q], code'[q])
  <2>1. CASE q = p
    BY <1>1, <1>4, <2>1
  <2>2. CASE q # p
    BY <1>2, <1>4, <2>2 DEF PInv
  <2> QED
    BY <2>1, <2>2
<1> QED
  BY <1>1, <1>3, <1>4 DEF PInv, Undisturbed

(* A step of a job that goes on: only what a created codebase and the base   *)
(* need is to be looked at.                                                  *)
LEMMA JobGoesOn ==
  ASSUME IInv, PInv, NEW p \in Proxies, NEW j, NEW c,
         job' = [job EXCEPT ![p] = j], code' = [code EXCEPT ![p] = c],
         j.pc # "none", j.pc = "created" => c # NoCodebase,
         UNCHANGED <<etag, lost, restarts, reregistrations>>,
         Undisturbed => deleting' = deleting /\ base' = "whole" /\ BaseAgrees(j, c)
  PROVE  PInv'
<1>1. NoJob.pc = "none"
  BY DEF NoJob
<1>2. ETagAgrees(j, c, etag[p], p \in lost')
  BY <1>1 DEF ETagAgrees
<1>3. etag' = [etag EXCEPT ![p] = etag[p]] /\ etag[p] \in Int
  BY DEF PInv
<1>4. Undisturbed => deleting' = {}
  BY DEF PInv
<1> QED
  BY <1>2, <1>3, <1>4, OnePublication

(* The three outcomes of a call and the two of a read. *)
LEMMA CallGoesOn ==
  ASSUME IInv, PInv, NEW p \in Proxies, NEW pc \in Steps \ {"none"}, NEW c,
         Call(p, c, To(p, pc)), UNCHANGED <<etag, lost, base, deleting>>,
         pc = "created" => c # NoCodebase,
         Undisturbed => \A j \in Jobs : j.pc \in {pc, "delete"} => BaseAgrees(j, c)
  PROVE  PInv'
<1> DEFINE k(q) == [job[p] EXCEPT !.pc = q]
<1>1. /\ job[p] \in Jobs /\ code = [code EXCEPT ![p] = code[p]]
      /\ Undisturbed => base = "whole" /\ BaseAgrees(job[p], code[p])
  BY DEF IInv, PInv
<1>2. \A q \in Steps : k(q) \in Jobs /\ k(q).pc = q /\ To(p, q) = [job EXCEPT ![p] = k(q)]
  BY <1>1, ToIs DEF Jobs
<1>3. pc \in Steps /\ "delete" \in Steps
  BY DEF Steps
<1>4. Undisturbed => BaseAgrees(k("delete"), code[p])
  BY <1>1, <1>2, <1>3 DEF BaseAgrees
<1>5. UNCHANGED <<restarts, reregistrations>>
  BY DEF Call, KeepCounts
<1> HIDE DEF k
<1>6. CASE code' = [code EXCEPT ![p] = c] /\ job' = To(p, pc)
  BY <1>1, <1>2, <1>3, <1>5, <1>6, JobGoesOn
<1>7. CASE code' = [code EXCEPT ![p] = c] /\ job' = To(p, "delete")
  BY <1>1, <1>2, <1>3, <1>5, <1>7, JobGoesOn
<1>8. CASE code' = code /\ job' = To(p, "delete")
  BY <1>1, <1>2, <1>3, <1>4, <1>5, <1>8, JobGoesOn
<1> QED
  BY <1>6, <1>7, <1>8 DEF Call

(* A job that changes its step and nothing else. *)
LEMMA JobMoves ==
  ASSUME IInv, PInv, NEW p \in Proxies, NEW pc \in Steps \ {"none", "created"},
         job' = To(p, pc), UNCHANGED <<code, etag, lost, restarts, reregistrations, deleting>>,
         Undisturbed => base' = "whole",
         Undisturbed => pc # "create",
         Undisturbed /\ pc \in {"derived", "commit_derived", "batch", "upsert", "commit"} =>
           Exists(p)
  PROVE  PInv'
<1> DEFINE k == [job[p] EXCEPT !.pc = pc]
<1>1. /\ job[p] \in Jobs /\ code' = [code EXCEPT ![p] = code[p]]
      /\ Undisturbed => BaseAgrees(job[p], code[p])
  BY DEF IInv, PInv
<1>2. k.pc = pc /\ job' = [job EXCEPT ![p] = k]
  BY <1>1, ToIs DEF Jobs
<1>3. Undisturbed => BaseAgrees(k, code[p])
  BY <1>1, <1>2 DEF BaseAgrees, Exists
<1> HIDE DEF k
<1>4. k.pc # "none" /\ k.pc # "created" /\ UNCHANGED <<etag, lost, restarts, reregistrations>>
  BY <1>2
<1> DEFINE c == code[p]
<1>5. code' = [code EXCEPT ![p] = c] /\ (Undisturbed => BaseAgrees(k, c))
  BY <1>1, <1>3
<1> HIDE DEF c
<1> QED
  BY <1>2, <1>4, <1>5, JobGoesOn

(* A job whose call is refused gives up, and the repo is as it was. *)
LEMMA RefusedPublishes ==
  ASSUME IInv, PInv, NEW p \in Proxies, Refused(p), UNCHANGED <<etag, lost, base, deleting>>
  PROVE  PInv'
  BY JobMoves DEF Refused, counts, Steps, PInv

(* The steps that look and decide. *)
LEMMA ChecksPublish ==
  ASSUME IInv, PInv, NEW p \in Proxies,
         CheckBase(p) \/ Restore(p) \/ CheckCodebase(p) \/ CheckBatch(p) \/ GetDerived(p)
  PROVE  PInv'
<1>1. Undisturbed => base = "whole" /\ BaseAgrees(job[p], code[p])
  BY DEF PInv
<1>2. CASE CheckBase(p)
  <2>1. job' = To(p, "exists") \/ job' = To(p, "restore")
    BY <1>2 DEF CheckBase
  <2> QED
    BY <1>1, <1>2, <2>1, JobMoves DEF CheckBase, KeepCounts, Steps
<1>3. CASE Restore(p)
  <2>1. Undisturbed => base' = "whole"
    BY <1>1, <1>3 DEF Restore, Restored
  <2> QED
    BY <1>3, <2>1, JobMoves DEF Restore, KeepCounts, Steps
<1>4. CASE CheckCodebase(p)
  <2>1. \/ job' = To(p, "batch") /\ Exists(p)
        \/ job' = To(p, "derive") \/ job' = To(p, "delete")
    BY <1>4 DEF CheckCodebase, Read, DeriveUnlessExists
  <2> QED
    BY <1>1, <1>4, <2>1, JobMoves DEF CheckCodebase, Read, KeepCounts, Steps
<1>5. CASE CheckBatch(p)
  <2>1. Undisturbed => Exists(p)
    BY <1>1, <1>5 DEF CheckBatch, BaseAgrees, Exists
  <2>2. \/ job' = To(p, "upsert") /\ Exists(p)
        \/ job' = To(p, "create") /\ ~Exists(p)
        \/ job' = To(p, "delete")
    BY <1>5 DEF CheckBatch, Read
  <2> QED
    BY <1>1, <1>5, <2>1, <2>2, JobMoves DEF CheckBatch, Read, KeepCounts, Steps
<1>6. CASE GetDerived(p)
  <2>1. Exists(p) /\ (job' = To(p, "commit_derived") \/ job' = To(p, "delete"))
    BY <1>6 DEF GetDerived, Read
  <2> QED
    BY <1>1, <1>6, <2>1, JobMoves DEF GetDerived, Read, KeepCounts, Steps
<1> QED
  BY <1>2, <1>3, <1>4, <1>5, <1>6

(* Commits and uploads leave a derived codebase derived. *)
LEMMA StaysDerived ==
  ASSUME NEW c \in Codebases, c # NoCodebase => c.derived, c # NoCodebase, NEW v, NEW f
  PROVE  /\ Commit(c, v).derived /\ Commit(c, v) # NoCodebase
         /\ Upload(c, f).derived /\ Upload(c, f) # NoCodebase
<1>1. Commit(c, v).derived = c.derived /\ Upload(c, f).derived = c.derived
  BY DEF Commit, Upload, Codebases
<1>2. NoCodebase.derived = FALSE
  BY DEF NoCodebase
<1> QED
  BY <1>1, <1>2

(* Derive, commit, create and upload. *)
LEMMA CallsPublish ==
  ASSUME IInv, PInv, NEW p \in Proxies,
         Derive(p) \/ CommitDerived(p) \/ Create(p) \/ Upsert(p)
  PROVE  PInv'
<1>0. /\ Undisturbed => base = "whole" /\ BaseAgrees(job[p], code[p])
      /\ Agree(job[p], code[p]) /\ code[p] \in Codebases
  BY DEF PInv, IInv
<1>1. CASE Derive(p)
  <2> DEFINE c == Derived(hash(job[p].conf) - 2)
  <2>1. c.derived /\ c # NoCodebase
    <3>1. c.derived = TRUE /\ NoCodebase.derived = FALSE
      BY DEF Derived, NoCodebase
    <3> QED
      BY <3>1
  <2>2. CASE Refused(p)
    BY <1>1, <2>2, RefusedPublishes DEF Derive
  <2>3. CASE Call(p, c, To(p, "derived"))
    <3> HIDE DEF c
    <3>1. \A j \in Jobs : j.pc \in {"derived", "delete"} => BaseAgrees(j, c)
      BY <2>1 DEF BaseAgrees
    <3> QED
      BY <1>1, <2>3, <3>1, CallGoesOn DEF Derive, Steps
  <2> QED
    BY <1>1, <2>2, <2>3 DEF Derive
<1>2. CASE CommitDerived(p)
  <2> DEFINE c == Commit(code[p], code[p].version + 1)
  <2>1. CASE Refused(p)
    BY <1>2, <2>1, RefusedPublishes DEF CommitDerived
  <2>2. CASE Exists(p) /\ Call(p, c, To(p, "batch"))
    <3>1. Undisturbed => c.derived /\ c # NoCodebase
      BY <1>0, <2>2, StaysDerived DEF Exists, BaseAgrees
    <3> HIDE DEF c
    <3>2. Undisturbed => \A j \in Jobs : j.pc \in {"batch", "delete"} => BaseAgrees(j, c)
      BY <3>1 DEF BaseAgrees
    <3> QED
      BY <1>2, <2>2, <3>2, CallGoesOn DEF CommitDerived, Steps
  <2> QED
    BY <1>2, <2>1, <2>2 DEF CommitDerived
<1>3. CASE Create(p)
  <2> DEFINE n == job[p].conf
             c == [NoCodebase EXCEPT !.version = 3 * n - 1]
  <2>1. job[p].pc = "create" /\ n \in Configs
    BY <1>0, <1>3 DEF Create, Agree
  <2>2. c # NoCodebase
    <3>1. c.version = 3 * n - 1 /\ NoCodebase.version = -1
      BY DEF NoCodebase
    <3> HIDE DEF n, c
    <3>2. n \in Nat \ {0}
      BY <2>1, RepoConstants
    <3>3. 3 * n - 1 # -1
      BY <3>2
    <3> QED
      BY <3>1, <3>3
  <2>3. ~Undisturbed
    BY <1>0, <2>1 DEF BaseAgrees
  <2>4. Call(p, c, To(p, "created")) /\ UNCHANGED <<etag, lost, base, deleting>>
    BY <1>3 DEF Create, hash
  <2> HIDE DEF c
  <2> QED
    BY <2>2, <2>3, <2>4, CallGoesOn DEF Steps
<1>4. CASE Upsert(p)
  <2> DEFINE c == Upload(code[p], job[p].conf)
  <2>1. CASE Refused(p)
    BY <1>4, <2>1, RefusedPublishes DEF Upsert
  <2>2. CASE Exists(p) /\ Call(p, c, To(p, "commit"))
    <3>1. Undisturbed => c.derived /\ c # NoCodebase
      BY <1>0, <2>2, StaysDerived DEF Exists, BaseAgrees
    <3> HIDE DEF c
    <3>2. Undisturbed => \A j \in Jobs : j.pc \in {"commit", "delete"} => BaseAgrees(j, c)
      BY <3>1 DEF BaseAgrees
    <3> QED
      BY <1>4, <2>2, <3>2, CallGoesOn DEF Upsert, Steps
  <2> QED
    BY <1>4, <2>1, <2>2 DEF Upsert
<1> QED
  BY <1>1, <1>2, <1>3, <1>4

(* A job that ends leaves the version it is the ETag of, or a lost codebase. *)
LEMMA EndsPublish ==
  ASSUME IInv, PInv, NEW p \in Proxies, GetCreated(p) \/ CommitBatch(p) \/ DeleteFailed(p)
  PROVE  PInv'
<1> DEFINE n == job[p].conf
<1>0. /\ Undisturbed => base = "whole" /\ deleting = {} /\ BaseAgrees(job[p], code[p])
      /\ Agree(job[p], code[p]) /\ code[p] \in Codebases /\ job[p] \in Jobs
      /\ code = [code EXCEPT ![p] = code[p]] /\ job \in [Proxies -> Jobs]
      /\ ETagAgrees(job[p], code[p], etag[p], p \in lost)
      /\ etag = [etag EXCEPT ![p] = etag[p]] /\ etag[p] \in Int
  BY DEF PInv, IInv
<1>1. NoJob.pc = "none" /\ Finished(p) = [job EXCEPT ![p] = NoJob] /\ Finished(p)[p] = NoJob
  BY <1>0 DEF NoJob, Finished
<1>2. To(p, "delete")[p] # NoJob /\ To(p, "upsert")[p] # NoJob
  <2>1. To(p, "delete")[p].pc = "delete" /\ To(p, "upsert")[p].pc = "upsert"
    BY <1>0 DEF To, Jobs
  <2> QED
    BY <1>1, <2>1
<1>3. ASSUME job[p].pc # "none" PROVE hash(n) \in Int /\ VersionCommitted(n) = hash(n)
  <2>1. n \in Nat
    BY <1>0, <1>3, RepoConstants DEF Agree
  <2> HIDE DEF n
  <2> QED
    BY <2>1 DEF hash, VersionCommitted
<1>4. CASE GetCreated(p)
  <2>1. job[p].pc = "created" /\ ~Undisturbed /\ (Exists(p) \/ p \in lost)
    BY <1>0, <1>4 DEF GetCreated, BaseAgrees, ETagAgrees, Exists
  <2>2. CASE job' = To(p, "upsert") \/ job' = To(p, "delete")
    <3>1. UNCHANGED <<code, etag, lost, restarts, reregistrations, deleting>>
      BY <1>1, <1>2, <1>4, <2>2 DEF GetCreated, Read, KeepCounts
    <3> QED
      BY <2>1, <2>2, <3>1, JobMoves DEF Steps
  <2>3. CASE job' = Finished(p) /\ ~Exists(p)
    <3>1. /\ etag' = [etag EXCEPT ![p] = hash(n)] /\ p \in lost' /\ lost' = lost
          /\ code' = code /\ UNCHANGED <<restarts, reregistrations>>
      BY <1>1, <1>4, <2>1, <2>3 DEF GetCreated, Read, KeepCounts, SetETag, Exists
    <3>2. ETagAgrees(NoJob, code[p], hash(n), p \in lost')
      BY <1>1, <3>1 DEF ETagAgrees
    <3> HIDE DEF n
    <3>3. /\ job' = [job EXCEPT ![p] = NoJob] /\ code' = [code EXCEPT ![p] = code[p]]
          /\ hash(n) \in Int
      BY <1>0, <1>1, <1>3, <2>1, <2>3, <3>1
    <3> QED
      BY <2>1, <3>1, <3>2, <3>3, OnePublication
  <2> QED
    BY <1>4, <2>2, <2>3 DEF GetCreated, Read
<1>5. CASE CommitBatch(p)
  <2> DEFINE c == Commit(code[p], VersionCommitted(n))
  <2>1. job[p].pc = "commit"
    BY <1>5, SMTT(30) DEF CommitBatch
  <2>2. ASSUME Exists(p)
        PROVE  /\ Undisturbed => c.derived
               /\ c.version = hash(n)
    <3>1. Undisturbed => c.derived
      BY <1>0, <2>2, StaysDerived DEF Exists, BaseAgrees
    <3>2. c.version = VersionCommitted(n)
      BY <1>0, Zenon DEF Commit, Codebases
    <3> QED
      BY <1>3, <2>1, <3>1, <3>2
  <2>3. CASE Exists(p) /\ job' = Finished(p) /\ code' = [code EXCEPT ![p] = c]
    <3>1. /\ etag' = [etag EXCEPT ![p] = hash(n)] /\ lost' = lost \ {p}
          /\ UNCHANGED <<restarts, reregistrations, base, deleting>>
      BY <1>1, <1>5, <2>3 DEF CommitBatch, Call, KeepCounts, SetETag
    <3> HIDE DEF c, n
    <3>2. ETagAgrees(NoJob, c, hash(n), p \in lost')
      BY <1>1, <2>2, <2>3 DEF ETagAgrees
    <3>3. Undisturbed => BaseAgrees(NoJob, c)
      BY <1>1, <2>2, <2>3 DEF BaseAgrees
    <3>4. job' = [job EXCEPT ![p] = NoJob] /\ hash(n) \in Int
      BY <1>1, <1>3, <2>1, <2>3
    <3>5. Undisturbed => deleting' = {} /\ base' = "whole" /\ BaseAgrees(NoJob, c)
      BY <1>0, <3>1, <3>3
    <3>6. code' = [code EXCEPT ![p] = c] /\ \A q \in Proxies \ {p} : q \in lost' <=> q \in lost
      BY <2>3, <3>1
    <3> QED
      BY <3>1, <3>2, <3>4, <3>5, <3>6, OnePublication
  <2>4. CASE job' = To(p, "delete")
    <3>1. UNCHANGED <<etag, lost, base, deleting, restarts, reregistrations>>
      BY <1>2, <1>5, <2>4, SMTT(30) DEF CommitBatch, Call, KeepCounts, Refused, counts
    <3>2. CASE code' = code
      BY <1>0, <2>4, <3>1, <3>2, JobMoves DEF Steps
    <3>3. CASE Exists(p) /\ code' = [code EXCEPT ![p] = c]
      <4> DEFINE k == [job[p] EXCEPT !.pc = "delete"]
      <4>1. job' = [job EXCEPT ![p] = k] /\ k.pc = "delete"
        BY <1>0, <2>4, ToIs DEF Jobs
      <4> HIDE DEF c, k
      <4>2. Undisturbed => BaseAgrees(k, c)
        BY <2>2, <3>3, <4>1 DEF BaseAgrees
      <4> QED
        BY <1>0, <3>1, <3>3, <4>1, <4>2, JobGoesOn
    <3> QED
      BY <1>5, <2>4, <3>2, <3>3, SMTT(30) DEF CommitBatch, Call, Refused
  <2> QED
    BY <1>5, <2>3, <2>4, SMTT(30) DEF CommitBatch, Call, Refused
<1>6. CASE DeleteFailed(p)
  <2>1. /\ job' = [job EXCEPT ![p] = NoJob] /\ etag' = etag /\ lost' = lost \cup {p}
        /\ UNCHANGED <<restarts, reregistrations, base, deleting>>
        /\ code' = code \/ code' = [code EXCEPT ![p] = NoCodebase]
    BY <1>1, <1>6 DEF DeleteFailed, KeepCounts
  <2>2. \A c : ETagAgrees(NoJob, c, etag[p], p \in lost')
    BY <1>1, <2>1 DEF ETagAgrees
  <2>3. Undisturbed => BaseAgrees(NoJob, code[p]) /\ BaseAgrees(NoJob, NoCodebase)
    BY <1>0, <1>1 DEF BaseAgrees
  <2> QED
    BY <1>0, <2>1, <2>2, <2>3, OnePublication
<1> QED
  BY <1>4, <1>5, <1>6

(* A job starts, a proxy is registered anew, its codebase is removed late. *)
LEMMA ProxyPublishes ==
  ASSUME IInv, PInv, NEW p \in Proxies, StartJob(p) \/ Reregister(p) \/ CleanUp(p)
  PROVE  PInv'
<1>0. /\ Undisturbed => base = "whole" /\ deleting = {} /\ BaseAgrees(job[p], code[p])
      /\ job = [job EXCEPT ![p] = job[p]] /\ code = [code EXCEPT ![p] = code[p]]
      /\ etag = [etag EXCEPT ![p] = etag[p]] /\ etag[p] \in Int
      /\ ETagAgrees(job[p], code[p], etag[p], p \in lost)
      /\ restarts \in Nat /\ reregistrations \in Nat
  BY DEF PInv, IInv
<1>1. CASE StartJob(p)
  <2> DEFINE j == [pc |-> "base", conf |-> conf]
             c == code[p]
  <2>1. job' = [job EXCEPT ![p] = j] /\ j.pc = "base" /\ code' = [code EXCEPT ![p] = c]
    BY <1>0, <1>1 DEF StartJob
  <2>2. Undisturbed => BaseAgrees(j, c)
    BY <1>0 DEF BaseAgrees
  <2>3. UNCHANGED <<etag, lost, base, deleting, restarts, reregistrations>>
    BY <1>1 DEF StartJob, counts
  <2> HIDE DEF j, c
  <2> QED
    BY <1>0, <2>1, <2>2, <2>3, JobGoesOn
<1>2. CASE Reregister(p)
  <2>1. ~Undisturbed'
    BY <1>0, <1>2 DEF Reregister, Undisturbed
  <2>2. etag' = [etag EXCEPT ![p] = 0] /\ UNCHANGED <<job, code, lost, restarts>>
    BY <1>2 DEF Reregister
  <2>3. etag' \in [Proxies -> Int] /\ reregistrations' \in Nat
    BY <1>0, <1>2, <2>2 DEF PInv, Reregister
  <2>4. ASSUME NEW q \in Proxies
        PROVE  ETagAgrees(job'[q], code'[q], etag'[q], q \in lost')
    <3>1. etag'[q] = IF q = p THEN 0 ELSE etag[q]
      BY <2>2 DEF PInv
    <3> QED
      BY <2>2, <3>1 DEF PInv, ETagAgrees
  <2> QED
    BY <1>0, <2>1, <2>2, <2>3, <2>4 DEF PInv
<1>3. CASE CleanUp(p)
  <2>1. ~Undisturbed
    BY <1>0, <1>3 DEF CleanUp
  <2>2. /\ UNCHANGED <<job, etag, restarts, reregistrations>> /\ lost' = lost \cup {p}
        /\ code' = code \/ code' = [code EXCEPT ![p] = NoCodebase]
    BY <1>3 DEF CleanUp, KeepCounts
  <2>3. \A c : ETagAgrees(job[p], c, etag[p], p \in lost')
    BY <2>2 DEF ETagAgrees
  <2> QED
    BY <1>0, <2>1, <2>2, <2>3, OnePublication
<1> QED
  BY <1>1, <1>2, <1>3

(* The repo or the controller starts again. *)
LEMMA RestartsPublish ==
  ASSUME IInv, PInv, RepoRestarts \/ (StartsAgain /\ UNCHANGED <<restarts, reregistrations>>)
  PROVE  PInv'
<1>1. CASE RepoRestarts
  <2>1. ~Undisturbed' /\ restarts' \in Nat /\ UNCHANGED <<etag, job, reregistrations>>
    BY <1>1 DEF RepoRestarts, Undisturbed, PInv
  <2>2. \A q \in Proxies : q \in lost'
    BY <1>1 DEF RepoRestarts
  <2>3. \A q \in Proxies : ETagAgrees(job'[q], code'[q], etag'[q], q \in lost')
    BY <2>2 DEF ETagAgrees
  <2> QED
    BY <2>1, <2>3 DEF PInv
<1>2. CASE StartsAgain /\ UNCHANGED <<restarts, reregistrations>>
  <2>1. /\ etag' = [q \in Proxies |-> 0] /\ job' = [q \in Proxies |-> NoJob]
        /\ base' = "whole" /\ deleting' = {} /\ UNCHANGED <<code, lost>>
    BY <1>2 DEF StartsAgain
  <2>2. NoJob.pc = "none"
    BY DEF NoJob
  <2>3. \A q \in Proxies : ETagAgrees(job'[q], code'[q], etag'[q], q \in lost')
    BY <2>1, <2>2 DEF ETagAgrees
  <2>4. Undisturbed => \A q \in Proxies : BaseAgrees(job'[q], code'[q])
    BY <2>1, <2>2 DEF PInv, BaseAgrees
  <2>5. etag' \in [Proxies -> Int]
    BY <2>1
  <2> QED
    BY <1>2, <2>1, <2>3, <2>4, <2>5 DEF PInv, Undisturbed
<1> QED
  BY <1>1, <1>2

(* ETags and bases agree with the repo throughout. *)
LEMMA PublicationsSound == Spec => []PInv
<1>1. Init => PInv
  <2> SUFFICES ASSUME Init PROVE PInv
    OBVIOUS
  <2>1. NoJob.pc = "none"
    BY DEF NoJob
  <2>2. BaseAgrees(NoJob, NoCodebase) /\ \A gone : ETagAgrees(NoJob, NoCodebase, 0, gone)
    BY <2>1 DEF BaseAgrees, ETagAgrees
  <2> QED
    BY <2>2 DEF Init, PInv
<1>2. IInv /\ PInv /\ [Next]_vars => PInv'
  <2> SUFFICES ASSUME IInv, PInv, [Next]_vars PROVE PInv'
    OBVIOUS
  <2>1. CASE UNCHANGED <<etag, job, code, lost, base, deleting, restarts, reregistrations>>
    BY <2>1 DEF PInv, Undisturbed
  <2>2. ASSUME NEW p \in Proxies, JobStep(p) PROVE PInv'
    <3>1. CASE GetDerivedPanics(p)
      BY <3>1, RestartsPublish DEF GetDerivedPanics, counts
    <3> QED
      BY <2>2, <3>1, ChecksPublish, CallsPublish, EndsPublish, ProxyPublishes DEF JobStep
  <2>3. ASSUME NEW p \in Proxies, Reregister(p) \/ CleanUp(p) PROVE PInv'
    BY <2>3, ProxyPublishes
  <2>4. ASSUME NEW c \in Configs, ChangeConf(c) PROVE PInv'
    BY <2>1, <2>4 DEF ChangeConf
  <2>5. CASE RepoRestarts \/ Crash
    BY <2>5, RestartsPublish DEF Crash
  <2>6. CASE UNCHANGED vars
    BY <2>1, <2>6 DEF vars, counts
  <2> QED
    BY <2>2, <2>3, <2>4, <2>5, <2>6 DEF Next
<1> QED
  BY <1>1, <1>2, JobsSound, PTL DEF Spec

(* Between jobs the ETag, which publishSidecarConf compares with, is the     *)
(* version in the repo unless that was lost, for any proxies, failures and   *)
(* restarts: also where Batch takes not finding its codebase for success.    *)
THEOREM ETagIsAlwaysTrue == Spec => []ETagIsTrue
<1>1. PInv => ETagIsTrue
  BY DEF PInv, ETagAgrees, ETagIsTrue
<1> QED
  BY <1>1, PublicationsSound, PTL

(* While the repo does not restart and no cleanup comes late, every codebase *)
(* is derived from a whole base (DeriveCodebase, Batch, Restore), whatever   *)
(* calls fail and however often the controller crashes.                      *)
THEOREM PublishedAlwaysHasBase == Spec => []PublishedHasBase
<1>1. PInv => PublishedHasBase
  BY DEF PInv, Undisturbed, BaseAgrees, Exists, PublishedHasBase
<1> QED
  BY <1>1, PublicationsSound, PTL
=============================================================================
