-------------------------- MODULE PortalPublication --------------------------
(***************************************************************************)
(* Publication of the public portal's snapshot.                            *)
(*                                                                         *)
(* The office generates a snapshot and hands it to the website in three    *)
(* requests (frontend/lib/portalPublication.ts): prepare returns a ticket  *)
(* that carries the storage version of the snapshot being served, a signed *)
(* URL takes the bytes to a staging file, and commit checks the ticket,    *)
(* the staging file and the version, and replaces the served file by a     *)
(* conditional write.  Commit is a chain of awaited storage calls; any     *)
(* number of invocations, of one ticket or of several, may be under way,   *)
(* their answers may be lost, and the office's child process may be killed *)
(* by its timeout at any point.  Each website instance serves visitors     *)
(* from its own thirty-second cache of the file                            *)
(* (frontend/lib/portalSnapshot.ts).                                       *)
(*                                                                         *)
(* Abstractions.  A snapshot is the number of the office run that made it, *)
(* so numbers are ordered as published_at; 0 was being served at the       *)
(* start.  Hashes and lengths say which snapshot some bytes are, or that   *)
(* they are damaged.  The storage service gives each write a new version:  *)
(* the length of `posts'.  An instance has one commit and one load under   *)
(* way at a time.  A ticket is in force or past expires_at_ms.  inspect    *)
(* writes nothing and has no action.                                       *)
(***************************************************************************)
EXTENDS Integers, Sequences

CONSTANTS
    Instances,   \* website instances
    NoSnapshot,  \* an empty cache, no load under way
    MaxRun       \* bound: office runs

ASSUME PortalAssumption ==
    /\ MaxRun \in Nat
    /\ NoSnapshot \notin Nat

VARIABLES
    phase,     \* how far each office run got
    ticket,    \* each run's ticket: "none", "valid" or "expired"
    baseline,  \* the version in the ticket; 0 without a ticket
    staging,   \* each run's staging file
    posts,     \* the snapshots written to the served file, oldest first
    at,        \* program counter of the commit under way on each instance
    of,        \* the run whose ticket that commit carries
    cache,     \* each instance's cached snapshot
    loading    \* the snapshot read by the load under way on each instance

portalVars == <<phase, ticket, baseline, staging, posts, at, of, cache, loading>>
office == <<phase, ticket, baseline, staging>>
commits == <<at, of>>
readers == <<cache, loading>>

Runs == 1..MaxRun
Snapshots == 0..MaxRun
Version == Len(posts)
Served == posts[Version]
Posted == {posts[k] : k \in 1..Version}
ActiveRuns == {n \in Runs : phase[n] \in {"generated", "prepared"}}

PortalInit ==
    /\ phase = [n \in Runs |-> "new"]
    /\ ticket = [n \in Runs |-> "none"]
    /\ baseline = [n \in Runs |-> 0]
    /\ staging = [n \in Runs |-> "none"]
    /\ posts = <<0>>
    /\ at = [i \in Instances |-> "idle"]
    /\ of = [i \in Instances |-> 0]
    /\ cache = [i \in Instances |-> NoSnapshot]
    /\ loading = [i \in Instances |-> NoSnapshot]

-----------------------------------------------------------------------------
(* The office.                                                             *)

(* Mutant: the publication lock is not taken.                            *)
GenerateUnlocked(n) ==
    /\ phase[n] = "new"
    /\ \A m \in Runs : m < n => phase[m] # "new"
    /\ phase' = [phase EXCEPT ![n] = "generated"]
    /\ UNCHANGED <<ticket, baseline, staging, posts, commits, readers>>

(* A run takes the publication lock and generates its snapshot.            *)
Generate(n) ==
    /\ phase[n] = "new"
    /\ ActiveRuns = {}
    /\ \A m \in Runs : m < n => phase[m] # "new"
    /\ phase' = [phase EXCEPT ![n] = "generated"]
    /\ UNCHANGED <<ticket, baseline, staging, posts, commits, readers>>

(* preparePublication: the ticket carries the version head() reports.      *)
Prepare(n) ==
    /\ phase[n] = "generated"
    /\ phase' = [phase EXCEPT ![n] = "prepared"]
    /\ ticket' = [ticket EXCEPT ![n] = "valid"]
    /\ baseline' = [baseline EXCEPT ![n] = Version]
    /\ UNCHANGED <<staging, posts, commits, readers>>

(* decodeTicket: signed here, fresh, and not past expires_at_ms.           *)
TicketAccepted(n) == ticket[n] = "valid"

(* The signed URL accepts the bytes once; they may arrive damaged, or      *)
(* after the run is gone.                                                  *)
Upload(n) ==
    /\ TicketAccepted(n) /\ staging[n] = "none"
    /\ \E bytes \in {"whole", "damaged"} :
           staging' = [staging EXCEPT ![n] = bytes]
    /\ UNCHANGED <<phase, ticket, baseline, posts, commits, readers>>

Expire(n) ==
    /\ TicketAccepted(n)
    /\ ticket' = [ticket EXCEPT ![n] = "expired"]
    /\ UNCHANGED <<phase, baseline, staging, posts, commits, readers>>

(* Mutant: the read-back only asks whether the website answers.           *)
VerifyHealthOnly(n, i) ==
    /\ phase[n] = "prepared"
    /\ cache[i] # NoSnapshot
    /\ phase' = [phase EXCEPT ![n] = "verified"]
    /\ UNCHANGED <<ticket, baseline, staging, posts, commits, readers>>

(* The run reads back the hash of what an instance serves, and the job is  *)
(* COMPLETED or FAILED by it.                                              *)
Verify(n, i) ==
    /\ phase[n] = "prepared"
    /\ cache[i] # NoSnapshot
    /\ phase' = [phase EXCEPT
                     ![n] = IF cache[i] = n THEN "verified" ELSE "blocked"]
    /\ UNCHANGED <<ticket, baseline, staging, posts, commits, readers>>

(* The run is refused, fails, or its child is killed by the timeout: the   *)
(* lock is free again and its requests go on.                              *)
GiveUp(n) ==
    /\ n \in ActiveRuns
    /\ phase' = [phase EXCEPT ![n] = "blocked"]
    /\ UNCHANGED <<ticket, baseline, staging, posts, commits, readers>>

-----------------------------------------------------------------------------
(* commitPublication, one action per awaited storage call.                 *)

Goto(i, label) == at' = [at EXCEPT ![i] = label]

(* decodeTicket, then get() of the served file: the candidate is already   *)
(* there, or it has to be written.                                         *)
StartCommit(i, n) ==
    /\ at[i] = "idle"
    /\ TicketAccepted(n)
    /\ of' = [of EXCEPT ![i] = n]
    /\ Goto(i, IF Served = n THEN "remove" ELSE "head")
    /\ UNCHANGED <<office, posts, readers>>

(* head(): the version must be the ticket's baseline.                      *)
CheckHead(i) ==
    /\ at[i] = "head"
    /\ Goto(i, IF Version = baseline[of[i]] THEN "staged" ELSE "idle")
    /\ UNCHANGED <<office, posts, of, readers>>

(* validatePayload: the bytes are those the ticket was issued for.         *)
PayloadAccepted(n) == staging[n] = "whole"

(* get() of the staging file and validatePayload.                          *)
ReadStaged(i) ==
    /\ at[i] = "staged"
    /\ Goto(i, IF PayloadAccepted(of[i]) THEN "store" ELSE "idle")
    /\ UNCHANGED <<office, posts, of, readers>>

(* Mutant: the write is not conditional: only head() was compared.       *)
StoreAnyway(i) ==
    /\ at[i] = "store"
    /\ posts' = Append(posts, of[i])
    /\ Goto(i, "remove")
    /\ cache' = [cache EXCEPT ![i] = NoSnapshot]
    /\ UNCHANGED <<office, of, loading>>

(* storePortalSnapshot with ifMatch.  The write may land and its answer be *)
(* lost: then the commit fails and the cache is not emptied.               *)
Store(i) ==
    /\ at[i] = "store"
    /\ Version = baseline[of[i]]
    /\ posts' = Append(posts, of[i])
    /\ \/ /\ Goto(i, "remove")
          /\ cache' = [cache EXCEPT ![i] = NoSnapshot]
       \/ /\ Goto(i, "idle")
          /\ UNCHANGED cache
    /\ UNCHANGED <<office, of, loading>>

(* BlobPreconditionFailedError: another version is there.                  *)
Refuse(i) ==
    /\ at[i] = "store"
    /\ Version # baseline[of[i]]
    /\ Goto(i, "idle")
    /\ UNCHANGED <<office, posts, of, readers>>

(* del() of the staging file; its failure is reported, not raised.         *)
Remove(i) ==
    /\ at[i] = "remove"
    /\ Goto(i, "idle")
    /\ staging' \in {staging, [staging EXCEPT ![of[i]] = "removed"]}
    /\ UNCHANGED <<phase, ticket, baseline, posts, of, readers>>

(* A storage call throws before it took effect, or the platform ends the   *)
(* invocation.                                                             *)
Break(i) ==
    /\ at[i] # "idle"
    /\ Goto(i, "idle")
    /\ UNCHANGED <<office, posts, of, readers>>

-----------------------------------------------------------------------------
(* loadPortalSnapshot on behalf of visitors and of the health check.       *)

Load(i) ==
    /\ cache[i] = NoSnapshot /\ loading[i] = NoSnapshot
    /\ loading' = [loading EXCEPT ![i] = Served]
    /\ UNCHANGED <<office, posts, commits, cache>>

(* The bytes read are parsed and cached, or the load fails.                *)
Loaded(i) ==
    /\ loading[i] # NoSnapshot
    /\ cache' \in {cache, [cache EXCEPT ![i] = loading[i]]}
    /\ loading' = [loading EXCEPT ![i] = NoSnapshot]
    /\ UNCHANGED <<office, posts, commits>>

(* Mutant: every visit pushes the expiry out.                              *)
ExpireCacheSliding(i) ==
    /\ cache[i] # NoSnapshot
    /\ UNCHANGED portalVars

(* BLOB_CACHE_TTL_MS has passed.                                           *)
ExpireCache(i) ==
    /\ cache[i] # NoSnapshot
    /\ cache' = [cache EXCEPT ![i] = NoSnapshot]
    /\ UNCHANGED <<office, posts, commits, loading>>

-----------------------------------------------------------------------------
RunStep(n) ==
    \/ Generate(n) \/ Prepare(n) \/ Upload(n) \/ Expire(n) \/ GiveUp(n)
    \/ \E i \in Instances : Verify(n, i) \/ StartCommit(i, n)

InstanceStep(i) ==
    \/ CheckHead(i) \/ ReadStaged(i) \/ Store(i) \/ Refuse(i) \/ Remove(i)
    \/ Break(i) \/ Load(i) \/ Loaded(i) \/ ExpireCache(i)

PortalNext == (\E n \in Runs : RunStep(n)) \/ (\E i \in Instances : InstanceStep(i))

PortalSpec == PortalInit /\ [][PortalNext]_portalVars

(* Loads end and caches run out; nothing obliges the office or a visitor.  *)
PortalFairSpec ==
    PortalSpec /\ \A i \in Instances : WF_portalVars(Loaded(i)) /\ WF_portalVars(ExpireCache(i))

-----------------------------------------------------------------------------
PortalTypeOK ==
    /\ phase \in [Runs -> {"new", "generated", "prepared", "verified", "blocked"}]
    /\ ticket \in [Runs -> {"none", "valid", "expired"}]
    /\ baseline \in [Runs -> 0..Version]
    /\ staging \in [Runs -> {"none", "whole", "damaged", "removed"}]
    /\ posts \in Seq(Snapshots) /\ Version > 0
    /\ at \in [Instances -> {"idle", "head", "staged", "store", "remove"}]
    /\ of \in [Instances -> Snapshots]
    /\ cache \in [Instances -> Snapshots \union {NoSnapshot}]
    /\ loading \in [Instances -> Snapshots \union {NoSnapshot}]

(* The served snapshot never goes back in time, and no snapshot is written *)
(* twice, however late or often a commit request arrives: the conditional  *)
(* write of commitPublication is there to prevent exactly that.            *)
NeverBackInTime ==
    \A j, k \in 1..Version : j < k => posts[j] < posts[k]

(* What a commit overwrites is what was being served when its ticket was   *)
(* issued: no publication in between is lost unseen.                       *)
CommitReplacesItsBaseline ==
    \A k \in 2..Version : baseline[posts[k]] = k - 1

(* The facts the two properties above rest on: a ticket is issued once and *)
(* under the lock, when every snapshot posted is of an earlier run; only   *)
(* its run is written on its version.                                      *)
OrderInv ==
    /\ \A m, n \in Runs :
           phase[m] \in {"new", "generated"} /\ m < n => phase[n] = "new"
    /\ \A n \in Runs : phase[n] \in {"new", "generated"} => baseline[n] = 0
    /\ \A n \in Runs : ticket[n] = "none" <=> baseline[n] = 0
    /\ posts[1] = 0
    /\ \A k \in 2..Version : posts[k] \in Runs
    /\ CommitReplacesItsBaseline
    /\ \A n \in Runs : \A k \in 1..baseline[n] : posts[k] < n
    /\ \A i \in Instances : at[i] # "idle" =>
           of[i] \in Runs /\ ticket[of[i]] # "none"

(* A candidate's staging file is only deleted once the candidate is        *)
(* published; a conflict or a failure keeps it for review.                 *)
CandidateKept ==
    \A n \in Runs : staging[n] = "removed" => n \in Posted

(* A run that reports VERIFIED, and a job that is COMPLETED by it, did put *)
(* its whole snapshot in place, whatever caches it was read back through.  *)
VerifiedMeansPublished ==
    \A n \in Runs : phase[n] = "verified" =>
        n \in Posted /\ staging[n] \in {"whole", "removed"}

(* What is written has arrived whole; what is removed, cached or being     *)
(* loaded has been written.                                                *)
ContentInv ==
    /\ \A n \in Runs : n \in Posted => staging[n] \in {"whole", "removed"}
    /\ \A i \in Instances :
        /\ at[i] = "store" => staging[of[i]] \in {"whole", "removed"}
        /\ at[i] = "remove" => of[i] \in Posted
        /\ cache[i] # NoSnapshot => cache[i] \in Posted
        /\ loading[i] # NoSnapshot => loading[i] \in Posted
    /\ CandidateKept
    /\ VerifiedMeansPublished

PortalInv == PortalTypeOK /\ OrderInv /\ ContentInv

(* Once publications cease every instance stops serving anything but the   *)
(* last one, a load that read the file before a commit and cached it after *)
(* included.                                                               *)
EveryInstanceCatchesUp ==
    <>[](\A i \in Instances : cache[i] \in {NoSnapshot, Served})

=============================================================================
