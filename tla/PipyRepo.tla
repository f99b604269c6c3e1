------------------------------ MODULE PipyRepo ------------------------------
(***************************************************************************)
(* How a sidecar's configuration gets into the Pipy repo                   *)
(* (pkg/sidecar/providers/pipy: repo/jobs.go and client/client.go).  A job *)
(* makes the configuration, compares its hash with the ETag of the last    *)
(* one published, derives the sidecar's codebase from the base codebase if *)
(* there is none, uploads the file and commits.  Each of these is an HTTP  *)
(* call that may fail, with or without effect; the repo may restart empty, *)
(* the controller may crash, and the cleanup of an earlier registration of *)
(* the same sidecar may delete the codebase late.                          *)
(*                                                                         *)
(* A configuration is a number and its hash three times that, so that the  *)
(* hash V and the versions V-1 and V-2 of the commits before are distinct. *)
(* proxy.Mutex allows one job per proxy at a time.                         *)
(***************************************************************************)
EXTENDS Integers, FiniteSets

CONSTANTS
  Proxies,
  Configs,           \* configurations the mesh may ask for
  MaxChanges, MaxFailures, MaxRestarts, MaxCrashes, MaxReregistrations   \* bounds

ASSUME RepoConstants ==
  /\ Configs \subseteq Nat \ {0}
  /\ MaxChanges \in Nat /\ MaxFailures \in Nat /\ MaxRestarts \in Nat
  /\ MaxCrashes \in Nat /\ MaxReregistrations \in Nat

VARIABLES
  conf,        \* the configuration the mesh asks for
  etag,        \* Proxy.ETag
  job,         \* proxy -> the step of its job and the configuration it works on
  base,        \* the base codebase in the repo: none, created but partial, or whole
  code,        \* proxy -> its codebase in the repo
  deleting,    \* proxies whose earlier registration is still being cleaned up
  lost,        \* history: proxies whose codebase was removed, or left by a failed job,
               \* after the last publication
  changes, failures, restarts, crashes, reregistrations   \* bounded event counts

counts == <<changes, failures, restarts, crashes, reregistrations>>
vars == <<conf, etag, job, base, code, deleting, lost, counts>>

hash(c) == 3 * c

NoCodebase == [version |-> -1, derived |-> FALSE, staged |-> 0, live |-> 0]
Exists(p) == code[p] # NoCodebase

NoJob == [pc |-> "none", conf |-> 0]
To(p, pc) == [job EXCEPT ![p].pc = pc]

(* The job is over. *)
Finished(p) == [job EXCEPT ![p] = NoJob]

Init ==
  /\ conf \in Configs
  /\ etag = [p \in Proxies |-> 0] /\ job = [p \in Proxies |-> NoJob]
  /\ base = "whole" /\ code = [p \in Proxies |-> NoCodebase]
  /\ deleting = {} /\ lost = {}
  /\ changes = 0 /\ failures = 0 /\ restarts = 0 /\ crashes = 0 /\ reregistrations = 0
-----------------------------------------------------------------------------
(* The HTTP calls.  A call that should leave codebase c is answered and the  *)
(* job goes on; or the answer is lost; or the call never gets there.         *)
Fail == failures < MaxFailures /\ failures' = failures + 1
KeepCounts == UNCHANGED <<changes, restarts, crashes, reregistrations>>

Call(p, c, next) ==
  /\ \/ /\ code' = [code EXCEPT ![p] = c] /\ job' = next /\ UNCHANGED failures
     \/ /\ code' = [code EXCEPT ![p] = c] /\ job' = To(p, "delete") /\ Fail
     \/ /\ UNCHANGED code /\ job' = To(p, "delete") /\ Fail
  /\ KeepCounts

(* A call that only reads. *)
Read(p, next) ==
  /\ \/ job' = next /\ UNCHANGED failures
     \/ job' = To(p, "delete") /\ Fail
  /\ UNCHANGED code
  /\ KeepCounts

(* A call on a codebase that is gone is refused. *)
Refused(p) == job' = To(p, "delete") /\ UNCHANGED <<code, counts>>
-----------------------------------------------------------------------------
(* Run: the configuration is made and compared with the last one published. *)
StartJob(p) ==
  /\ job[p] = NoJob
  /\ etag[p] # hash(conf)
  /\ job' = [job EXCEPT ![p] = [pc |-> "base", conf |-> conf]]
  /\ UNCHANGED <<conf, etag, base, code, deleting, lost, counts>>

(* DeriveCodebase looks for the base codebase... *)
CheckBase(p) ==
  /\ job[p].pc = "base"
  /\ \/ job' = To(p, IF base # "none" THEN "exists" ELSE "restore") /\ UNCHANGED failures
     \/ job' = To(p, "restore") /\ Fail
  /\ KeepCounts
  /\ UNCHANGED <<conf, etag, base, code, deleting, lost>>

(* What is in the repo after Restore.  Mutant: nothing new. *)
NotRestored == base
Restored == "whole"

(* ...and restores it, under the client's lock and unless it is back, for    *)
(* the next job.  Restore is a Batch of many files: when it fails, the base  *)
(* may have been created and not filled.                                     *)
Restore(p) ==
  /\ job[p].pc = "restore"
  /\ \/ base # "none" /\ UNCHANGED <<base, failures>>
     \/ base = "none" /\ base' = Restored /\ UNCHANGED failures
     \/ base' \in {base, "whole"} \cup (IF base = "none" THEN {"partial"} ELSE {}) /\ Fail
  /\ job' = To(p, "delete")
  /\ KeepCounts
  /\ UNCHANGED <<conf, etag, code, deleting, lost>>

(* A codebase that is there is not derived again.  Mutant: none is. *)
NeverDerive(p) == "batch"
DeriveUnlessExists(p) == IF Exists(p) THEN "batch" ELSE "derive"

CheckCodebase(p) ==
  /\ job[p].pc = "exists"
  /\ Read(p, To(p, DeriveUnlessExists(p)))
  /\ UNCHANGED <<conf, etag, base, deleting, lost>>

Derived(v) == [version |-> v, derived |-> TRUE, staged |-> 0, live |-> 0]

Derive(p) ==
  /\ job[p].pc = "derive"
  /\ IF base # "none" THEN Call(p, Derived(hash(job[p].conf) - 2), To(p, "derived"))
     ELSE Refused(p)
  /\ UNCHANGED <<conf, etag, base, deleting, lost>>

(* What a commit makes of a codebase: uploaded files take effect.            *)
Commit(c, v) == [c EXCEPT !.version = v, !.live = c.staged]

(* The derived codebase is read back, which finds it, and committed. *)
GetDerived(p) ==
  /\ job[p].pc = "derived"
  /\ Exists(p)
  /\ Read(p, To(p, "commit_derived"))
  /\ UNCHANGED <<conf, etag, base, deleting, lost>>

CommitDerived(p) ==
  /\ job[p].pc = "commit_derived"
  /\ IF Exists(p) THEN Call(p, Commit(code[p], code[p].version + 1), To(p, "batch"))
     ELSE Refused(p)
  /\ UNCHANGED <<conf, etag, base, deleting, lost>>
-----------------------------------------------------------------------------
(* Batch creates the codebase if it has gone, without a base... *)
CheckBatch(p) ==
  /\ job[p].pc = "batch"
  /\ Read(p, To(p, IF Exists(p) THEN "upsert" ELSE "create"))
  /\ UNCHANGED <<conf, etag, base, deleting, lost>>

Create(p) ==
  /\ job[p].pc = "create"
  /\ Call(p, [NoCodebase EXCEPT !.version = hash(job[p].conf) - 1], To(p, "created"))
  /\ UNCHANGED <<conf, etag, base, deleting, lost>>

SetETag(p) == etag' = [etag EXCEPT ![p] = hash(job[p].conf)]

(* ...reads it back, and takes not finding it for success... *)
GetCreated(p) ==
  /\ job[p].pc = "created"
  /\ \/ Exists(p) /\ Read(p, To(p, "upsert")) /\ UNCHANGED <<etag, lost>>
     \/ /\ ~Exists(p) /\ Read(p, Finished(p))
        /\ IF job'[p] = NoJob THEN SetETag(p) ELSE UNCHANGED etag
        /\ UNCHANGED lost
  /\ UNCHANGED <<conf, base, deleting>>

(* ...uploads the file...  Mutant: it is uploaded after the commit. *)
UploadLate(c, file) == c
Upload(c, file) == [c EXCEPT !.staged = file]

Upsert(p) ==
  /\ job[p].pc = "upsert"
  /\ IF Exists(p) THEN Call(p, Upload(code[p], job[p].conf), To(p, "commit")) ELSE Refused(p)
  /\ UNCHANGED <<conf, etag, base, deleting, lost>>

(* ...and commits it, as the version after the one Batch is given.  Mutant:  *)
(* as that one.                                                              *)
VersionGiven(c) == hash(c) - 1
VersionCommitted(c) == hash(c) - 1 + 1

(* The hash becomes the ETag. *)
CommitBatch(p) ==
  /\ job[p].pc = "commit"
  /\ IF Exists(p)
     THEN Call(p, Commit(code[p], VersionCommitted(job[p].conf)), Finished(p))
     ELSE Refused(p)
  /\ IF job'[p] = NoJob THEN SetETag(p) /\ lost' = lost \ {p}
     ELSE UNCHANGED <<etag, lost>>
  /\ UNCHANGED <<conf, base, deleting>>

(* publishSidecarConf deletes the codebase after any error; whether that     *)
(* works is not looked at.  The ETag stays.                                  *)
DeleteFailed(p) ==
  /\ job[p].pc = "delete"
  /\ job' = Finished(p)
  /\ lost' = lost \cup {p}
  /\ \/ code' = [code EXCEPT ![p] = NoCodebase] /\ UNCHANGED failures
     \/ code' = [code EXCEPT ![p] = NoCodebase] /\ Fail
     \/ UNCHANGED code /\ Fail
  /\ KeepCounts
  /\ UNCHANGED <<conf, etag, base, deleting>>
-----------------------------------------------------------------------------
ChangeConf(c) ==
  /\ changes < MaxChanges
  /\ c # conf
  /\ conf' = c
  /\ changes' = changes + 1
  /\ UNCHANGED <<etag, job, base, code, deleting, lost, failures, restarts, crashes,
                 reregistrations>>

(* The repo keeps its codebases in memory. *)
RepoRestarts ==
  /\ restarts < MaxRestarts
  /\ restarts' = restarts + 1
  /\ base' = "none" /\ code' = [p \in Proxies |-> NoCodebase]
  /\ lost' = Proxies
  /\ UNCHANGED <<conf, etag, job, deleting, changes, failures, crashes, reregistrations>>

(* The listener unregisters a proxy and registers its sidecar again: a new   *)
(* Proxy, and the goroutine that deletes the old one's codebase.             *)
Reregister(p) ==
  /\ reregistrations < MaxReregistrations
  /\ reregistrations' = reregistrations + 1
  /\ p \notin deleting /\ job[p] = NoJob
  /\ etag' = [etag EXCEPT ![p] = 0]
  /\ deleting' = deleting \cup {p}
  /\ UNCHANGED <<conf, job, base, code, lost, changes, failures, restarts, crashes>>

CleanUp(p) ==
  /\ p \in deleting
  /\ deleting' = deleting \ {p}
  /\ lost' = lost \cup {p}
  /\ \/ code' = [code EXCEPT ![p] = NoCodebase] /\ UNCHANGED failures
     \/ UNCHANGED code /\ Fail
  /\ KeepCounts
  /\ UNCHANGED <<conf, etag, job, base>>

(* The controller starts again: no proxies, no jobs, and Start restores the  *)
(* base.                                                                     *)
StartsAgain ==
  /\ etag' = [p \in Proxies |-> 0] /\ job' = [p \in Proxies |-> NoJob]
  /\ base' = "whole" /\ deleting' = {}
  /\ UNCHANGED <<conf, code, lost>>

Crash ==
  /\ crashes < MaxCrashes
  /\ crashes' = crashes + 1
  /\ StartsAgain
  /\ UNCHANGED <<changes, failures, restarts, reregistrations>>

(* A derived codebase that is gone when it is read back: DeriveCodebase      *)
(* dereferences a nil pointer.                                               *)
GetDerivedPanics(p) ==
  /\ job[p].pc = "derived"
  /\ ~Exists(p)
  /\ StartsAgain
  /\ UNCHANGED counts

JobStep(p) ==
  \/ StartJob(p) \/ CheckBase(p) \/ Restore(p) \/ CheckCodebase(p)
  \/ Derive(p) \/ GetDerived(p) \/ GetDerivedPanics(p) \/ CommitDerived(p)
  \/ CheckBatch(p) \/ Create(p) \/ GetCreated(p) \/ Upsert(p) \/ CommitBatch(p)
  \/ DeleteFailed(p)

Next ==
  \/ \E p \in Proxies : JobStep(p) \/ Reregister(p) \/ CleanUp(p)
  \/ \E c \in Configs : ChangeConf(c)
  \/ RepoRestarts \/ Crash

Spec == Init /\ [][Next]_vars

(* Jobs come again and again (the resync ticker broadcasts every 90 s unless *)
(* it is switched off) and run to their end; failures are up to the          *)
(* environment.                                                              *)
FairSpec == Spec /\ \A p \in Proxies : WF_vars(JobStep(p))
-----------------------------------------------------------------------------
Steps == {"none", "base", "restore", "exists", "derive", "derived", "commit_derived",
          "batch", "create", "created", "upsert", "commit", "delete"}

(* A sidecar that sees version V of its codebase has the configuration with  *)
(* hash V: no version is visible before its file, or with the file of        *)
(* another one, whatever fails or restarts between the calls of Batch and    *)
(* DeriveCodebase.                                                           *)
CommittedIsWhole ==
  \A p \in Proxies, c \in Configs : code[p].version = hash(c) => code[p].live = c

(* The ETag, which keeps publishSidecarConf from publishing the same again,  *)
(* is the version in the repo between jobs, unless a job failed since or the *)
(* codebase was removed by a restart of the repo or a late cleanup.          *)
ETagIsTrue ==
  \A p \in Proxies \ lost :
    job[p] = NoJob /\ etag[p] # 0 => code[p].version = etag[p]

(* Every codebase is derived from the base codebase, and that one is whole,  *)
(* whatever calls fail, while the repo does not restart and no cleanup comes *)
(* late: then Batch has nothing to create, and Restore nothing to leave half *)
(* done.                                                                     *)
PublishedHasBase ==
  restarts = 0 /\ reregistrations = 0 =>
    \A p \in Proxies : Exists(p) => code[p].derived /\ base = "whole"

(* Once the mesh, the repo and the controller settle, the controller comes   *)
(* to regard every proxy as published with the current configuration: failed *)
(* jobs are tried again, and a base codebase that a restart took away is     *)
(* restored.  (Whether the repo has it then is the matter of ETagIsTrue.)    *)
EventuallyPublishes ==
  \A p \in Proxies : <>[](etag[p] = hash(conf))
=============================================================================
