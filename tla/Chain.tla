------------------------------- MODULE Chain -------------------------------
(***************************************************************************)
(* The hash chain under the ledger, the checkpoints that sign it and the   *)
(* archive that moves its oldest part away (src/src/chain.ts,              *)
(* worker/checkpoint.ts, worker/archive.ts, the ledger and checkpoint      *)
(* stores of engines/postgres.ts).                                         *)
(*                                                                         *)
(* Postings commit while one worker runs its sweeps one after the other.   *)
(* A sweep is many statements, each its own transaction: it may stop       *)
(* between any two of them, by a crash or by a statement that fails.       *)
(*                                                                         *)
(* Digests do not collide and signatures are not forged: the hash of a     *)
(* link is the seq of its posting (genesis is 0), a Merkle root is the     *)
(* set of leaves under it.  Nobody edits a stored row, so what a sweep     *)
(* refuses here, it refuses on an honest ledger.  A posting moves one unit *)
(* between two accounts; postings are whole, so every sum nets to zero and *)
(* the LEDGER_UNBALANCED refusals cannot happen.                           *)
(***************************************************************************)
EXTENDS Integers, Sequences, FiniteSets, FiniteSetsExt, SequencesExt

CONSTANTS
    Accounts,
    Transfers,            \* the <<debit, credit>> pairs clients post
    Limit,                \* postings per archive page
    CheckpointOlderThan,  \* the age a checkpoint needs to archive under it
    MaxPostings,          \* bounds on postings, time, sweeps and crashes
    MaxTime,
    MaxSweeps,
    MaxCrashes

ASSUME ChainAssumption ==
    /\ Transfers \subseteq {t \in Accounts \X Accounts : t[1] # t[2]}
    /\ Limit \in Nat \ {0}
    /\ CheckpointOlderThan \in Nat \ {0}
    /\ {MaxPostings, MaxTime, MaxSweeps, MaxCrashes} \subseteq Nat

VARIABLES
    postings,     \* by seq, as allocated: stored, pruned, open or rolled back
    now,
    checkpoints,  \* the signed checkpoints, oldest first
    sealHeads,    \* the seal_heads table: leaves of the latest checkpoint
    boundary,     \* archive_state and archive_heads
    sink,         \* seqs of the postings copied to the cold store
    job,          \* the sweep under way
    refused,      \* the last finished sweep refused with CHAIN_BROKEN
    sweeps,
    crashes

vars == <<postings, now, checkpoints, sealHeads, boundary, sink, job, refused,
          sweeps, crashes>>

Genesis == 0
NoRows == [a \in {} |-> 0]
NoBoundary == [heads |-> NoRows, through |-> 0]
Idle == [pc |-> "idle"]

-----------------------------------------------------------------------------
(* The ledger tables. *)

In(states) == {i \in DOMAIN postings : postings[i].state \in states}
Stored == In({"stored"})
Committed == In({"stored", "pruned"})
Touched(i) == {postings[i].debit, postings[i].credit}
Of(S, a) == {i \in S : a \in Touched(i)}
Tip(S) == Max(S \cup {Genesis})

(* The raw leg sum of an account: debits count up, credits down. *)
Raw(S, a) ==
    Cardinality({i \in S : postings[i].debit = a})
        - Cardinality({i \in S : postings[i].credit = a})

Leaf(S, a) == [head |-> Tip(Of(S, a)), sum |-> Raw(S, a)]

(* headSums: one statement, over the rows still in hot storage. *)
HeadSums == [a \in {b \in Accounts : Of(Stored, b) # {}} |-> Leaf(Stored, a)]

-----------------------------------------------------------------------------
(* Postings. *)

(* A posting chains each account it touches onto that account's head       *)
(* (account_balances.head_hash, which pruning leaves alone), under the     *)
(* locks of both accounts; its seq and time are taken before it commits.   *)
Post(t) ==
    /\ Len(postings) < MaxPostings
    /\ \A a \in {t[1], t[2]} : Of(In({"open"}), a) = {}
    /\ postings' = Append(postings,
            [debit |-> t[1], credit |-> t[2], at |-> now, state |-> "open",
             prev |-> [a \in {t[1], t[2]} |-> Tip(Of(Committed, a))]])
    /\ UNCHANGED <<now, checkpoints, sealHeads, boundary, sink, job, refused,
                   sweeps, crashes>>

Ends(i, state) ==
    /\ i \in In({"open"})
    /\ postings' = [postings EXCEPT ![i].state = state]
    /\ UNCHANGED <<now, checkpoints, sealHeads, boundary, sink, job, refused,
                   sweeps, crashes>>

Commit(i) == Ends(i, "stored")

RollBack(i) == Ends(i, "void")

(* A database transaction is short beside the archive's age bound: time    *)
(* passes only between transactions.                                       *)
Tick ==
    /\ now < MaxTime
    /\ In({"open"}) = {}
    /\ now' = now + 1
    /\ UNCHANGED <<postings, checkpoints, sealHeads, boundary, sink, job,
                   refused, sweeps, crashes>>

-----------------------------------------------------------------------------
(* Proving a chain. *)

(* Mutant: an account's archived sum is not folded back. *)
MergeArchiveSums_live(live) == live

(* Archived sums folded into the live leaves; an account archived whole    *)
(* comes back with its archived leaf.                                      *)
MergeArchiveSums(live) ==
    [a \in DOMAIN live \cup DOMAIN boundary.heads |->
        IF a \notin DOMAIN live THEN boundary.heads[a]
        ELSE IF a \notin DOMAIN boundary.heads THEN live[a]
        ELSE [live[a] EXCEPT !.sum = @ + boundary.heads[a].sum]]

(* The links L of account a, in seq order, each on the one before it and   *)
(* the first on the given hash.                                            *)
Continuous(L, a, first) ==
    \A j \in L : postings[j].prev[a]
                    = IF j = Min(L) THEN first
                      ELSE Max({i \in L : i < j})

(* The walk of one account's stored links.  An account the archive boundary *)
(* names starts at its signed head, or anywhere below it if that head      *)
(* appears in the walk.                                                    *)
RecomputeAccount(a) ==
    LET L == Of(Stored, a)
    IN  \/ L = {}
        \/ a \notin DOMAIN boundary.heads /\ Continuous(L, a, Genesis)
        \/ /\ a \in DOMAIN boundary.heads
           /\ LET anchor == boundary.heads[a].head
                  start  == postings[Min(L)].prev[a]
              IN  (start = anchor \/ anchor \in L) /\ Continuous(L, a, start)

ProveChain == \A a \in DOMAIN HeadSums : RecomputeAccount(a)

(* The links after the one that carries hash since; a hash no stored link  *)
(* carries streams nothing.                                                *)
LineageSince(a, since) ==
    IF since = Genesis THEN Of(Stored, a)
    ELSE IF since \in Stored THEN {j \in Of(Stored, a) : j > since}
    ELSE {}

SealedHead(a) ==
    IF a \in DOMAIN sealHeads THEN sealHeads[a].head ELSE Genesis

(* Mutant: the walk has to end at the head being sealed. *)
ProveTail_to_the_end(a, head) ==
    LET L == LineageSince(a, SealedHead(a))
    IN  head = Tip(L) /\ Continuous(L, a, SealedHead(a))

(* One account's tail, from its sealed head through the head being sealed. *)
ProveTail(a, head) ==
    LET L == LineageSince(a, SealedHead(a))
    IN  head \in L /\ Continuous(L, a, SealedHead(a))
-----------------------------------------------------------------------------
(* The seal. *)

(* The snapshot is trusted when it is what the latest checkpoint signed. *)
AuthenticSnapshot ==
    /\ checkpoints # <<>>
    /\ sealHeads # NoRows
    /\ sealHeads = Last(checkpoints).leaves

Dirty(leaves) == {a \in DOMAIN leaves : SealedHead(a) # leaves[a].head}

(* What planSeal and the proof it chooses accept: dirty tails onto an      *)
(* authentic snapshot no account of which has vanished, or everything.     *)
SealProves(leaves) ==
    IF AuthenticSnapshot
    THEN /\ DOMAIN sealHeads \subseteq DOMAIN leaves
         /\ \A a \in Dirty(leaves) : ProveTail(a, leaves[a].head)
    ELSE ProveChain

Start(first) ==
    /\ job = Idle
    /\ sweeps < MaxSweeps
    /\ sweeps' = sweeps + 1
    /\ job' = first

Finish(verdict) == job' = Idle /\ refused' = verdict

(* recordCheckpoint reads the boundary and the leaves it will sign; a      *)
(* ledger with no stored link is skipped.                                  *)
SealStart ==
    /\ Stored # {}
    /\ Start([pc |-> "prove", leaves |-> MergeArchiveSums(HeadSums)])
    /\ UNCHANGED <<postings, now, checkpoints, sealHeads, boundary, sink,
                   refused, crashes>>

(* The proof, over the links stored by now. *)
SealProve ==
    /\ job.pc = "prove"
    /\ IF SealProves(job.leaves)
       THEN /\ job' = [pc |-> "sign", leaves |-> job.leaves,
                       full |-> ~AuthenticSnapshot]
            /\ UNCHANGED refused
       ELSE Finish("seal")
    /\ UNCHANGED <<postings, now, checkpoints, sealHeads, boundary, sink,
                   sweeps, crashes>>

(* The checkpoint is stamped and stored; its leaves follow. *)
SealPut ==
    /\ job.pc = "sign"
    /\ checkpoints' = Append(checkpoints, [leaves |-> job.leaves, at |-> now])
    /\ job' = [pc |-> "snapshot", leaves |-> job.leaves, full |-> job.full,
               rows |-> IF job.full THEN DOMAIN job.leaves
                        ELSE Dirty(job.leaves)]
    /\ UNCHANGED <<postings, now, sealHeads, boundary, sink, refused, sweeps,
                   crashes>>

(* putSealHeads: a full seal empties the table first, then rows are        *)
(* upserted one statement at a time.                                       *)
PutSealHeads ==
    /\ job.pc = "snapshot"
    /\ \/ /\ job.full
          /\ sealHeads' = NoRows
          /\ job' = [job EXCEPT !.full = FALSE]
          /\ UNCHANGED refused
       \/ \E a \in job.rows :
            /\ ~job.full
            /\ sealHeads' = [b \in DOMAIN sealHeads \cup {a} |->
                    IF b = a THEN job.leaves[a] ELSE sealHeads[b]]
            /\ job' = [job EXCEPT !.rows = @ \ {a}]
            /\ UNCHANGED refused
       \/ /\ ~job.full /\ job.rows = {}
          /\ Finish("none")
          /\ UNCHANGED sealHeads
    /\ UNCHANGED <<postings, now, checkpoints, boundary, sink, sweeps, crashes>>

-----------------------------------------------------------------------------
(* The archive. *)

(* archiveSealedPrefix up to its loop: the latest checkpoint is old        *)
(* enough, the snapshot is what it signed, and the boundary of the last    *)
(* run is where this one resumes (its cursor is null or its throughSeq).   *)
ArchiveStart ==
    /\ checkpoints # <<>>
    /\ now - Last(checkpoints).at >= CheckpointOlderThan
    /\ IF sealHeads = Last(checkpoints).leaves
       THEN /\ Start([pc |-> "page", at |-> Last(checkpoints).at,
                      heads |-> boundary.heads, through |-> boundary.through])
            /\ UNCHANGED refused
       ELSE Start(Idle) /\ refused' = "archive"
    /\ UNCHANGED <<postings, now, checkpoints, sealHeads, boundary, sink,
                   crashes>>

(* The first Limit stored postings past the cursor, in seq order. *)
PageAfter(through) ==
    LET rest == {i \in Stored : i > through}
    IN  {i \in rest : Cardinality({j \in rest : j < i}) < Limit}

(* The page up to its first posting later than the checkpoint. *)
SealedPrefix(page, at) ==
    {i \in page : \A j \in page : j <= i => postings[j].at <= at}

(* verifyPage: every link of the page extends the boundary's head of its   *)
(* account, or the link before it in the page.                             *)
VerifyPage(page, heads) ==
    \A a \in Accounts :
        Continuous(Of(page, a), a,
                   IF a \in DOMAIN heads THEN heads[a].head ELSE Genesis)

(* Mutant: the boundary's sums restart at each page. *)
Advanced_sums_of_page(page, heads) ==
    [a \in {b \in Accounts : b \in DOMAIN heads \/ Of(page, b) # {}} |->
        IF Of(page, a) = {} THEN heads[a] ELSE Leaf(page, a)]

(* The boundary's rows after the page: new heads, sums added up. *)
Advanced(page, heads) ==
    [a \in {b \in Accounts : b \in DOMAIN heads \/ Of(page, b) # {}} |->
        IF Of(page, a) = {} THEN heads[a]
        ELSE [head |-> Tip(Of(page, a)),
              sum  |-> Raw(page, a)
                        + (IF a \in DOMAIN heads THEN heads[a].sum ELSE 0)]]

ArchivePage ==
    /\ job.pc = "page"
    /\ LET page     == PageAfter(job.through)
           eligible == SealedPrefix(page, job.at)
           extends  == VerifyPage(eligible, job.heads)
       IN  \/ eligible = {} /\ Finish("none")
           \/ /\ eligible # {}
              /\ refused' = IF extends THEN refused ELSE "page"
              /\ job' = IF ~extends THEN Idle ELSE
                    [pc |-> "copy", at |-> job.at, page |-> eligible,
                     heads |-> Advanced(eligible, job.heads),
                     last |-> Tip(page) = Tip(Stored) \/ eligible # page]
    /\ UNCHANGED <<postings, now, checkpoints, sealHeads, boundary, sink,
                   sweeps, crashes>>

(* Copy before delete. *)
ArchiveCopy ==
    /\ job.pc = "copy"
    /\ sink' = sink \cup job.page
    /\ job' = [job EXCEPT !.pc = "boundary"]
    /\ UNCHANGED <<postings, now, checkpoints, sealHeads, boundary, refused,
                   sweeps, crashes>>

(* The advanced boundary is signed and stored in a transaction of its own. *)
PutArchiveBoundary ==
    /\ job.pc = "boundary"
    /\ boundary' = [heads |-> job.heads, through |-> Tip(job.page)]
    /\ job' = [job EXCEPT !.pc = "prune"]
    /\ UNCHANGED <<postings, now, checkpoints, sealHeads, sink, refused, sweeps,
                   crashes>>

(* Mutant: the delete goes by date, not by the page that was copied. *)
Prune_by_date ==
    /\ job.pc = "prune"
    /\ postings' = [i \in DOMAIN postings |->
            IF i \in Stored /\ postings[i].at <= job.at
            THEN [postings[i] EXCEPT !.state = "pruned"] ELSE postings[i]]
    /\ Finish("none")
    /\ UNCHANGED <<now, checkpoints, sealHeads, boundary, sink, sweeps, crashes>>

(* The page leaves hot storage; the run ends, or turns to the next page. *)
Prune ==
    /\ job.pc = "prune"
    /\ postings' = [i \in DOMAIN postings |->
            IF i \in job.page THEN [postings[i] EXCEPT !.state = "pruned"]
            ELSE postings[i]]
    /\ IF job.last THEN Finish("none")
       ELSE /\ job' = [pc |-> "page", at |-> job.at, heads |-> job.heads,
                       through |-> Tip(job.page)]
            /\ UNCHANGED refused
    /\ UNCHANGED <<now, checkpoints, sealHeads, boundary, sink, sweeps, crashes>>

(* The worker dies, or a statement of the sweep fails; nothing is undone. *)
SweepDies ==
    /\ job # Idle
    /\ crashes < MaxCrashes
    /\ crashes' = crashes + 1
    /\ job' = Idle
    /\ UNCHANGED <<postings, now, checkpoints, sealHeads, boundary, sink,
                   refused, sweeps>>

-----------------------------------------------------------------------------
Init ==
    /\ postings = <<>>
    /\ now = 0
    /\ checkpoints = <<>>
    /\ sealHeads = NoRows
    /\ boundary = NoBoundary
    /\ sink = {}
    /\ job = Idle
    /\ refused = "none"
    /\ sweeps = 0
    /\ crashes = 0

Next ==
    \/ \E t \in Transfers : Post(t)
    \/ \E i \in DOMAIN postings : Commit(i) \/ RollBack(i)
    \/ Tick
    \/ SealStart \/ SealProve \/ SealPut \/ PutSealHeads
    \/ ArchiveStart \/ ArchivePage \/ ArchiveCopy \/ PutArchiveBoundary \/ Prune
    \/ SweepDies

Spec == Init /\ [][Next]_vars

-----------------------------------------------------------------------------
(* Properties. *)

(* Postings a signed boundary covers that a stopped sweep left behind. *)
Stranded == {i \in Stored : i <= boundary.through}

IsLeaf(r) == r.head \in DOMAIN postings /\ r.sum \in -2 * MaxPostings..2 * MaxPostings

(* Types of all variables; tables name only accounts and real postings. *)
TypeOK ==
    /\ \A i \in DOMAIN postings :
        /\ <<postings[i].debit, postings[i].credit>> \in Transfers
        /\ postings[i].at \in 0..now
        /\ postings[i].state \in {"open", "stored", "pruned", "void"}
        /\ \A a \in Touched(i) : postings[i].prev[a] \in 0..(i - 1)
    /\ now \in 0..MaxTime
    /\ \A c \in ToSet(checkpoints) :
        c.at \in 0..now /\ \A a \in DOMAIN c.leaves : IsLeaf(c.leaves[a])
    /\ DOMAIN sealHeads \subseteq Accounts
    /\ \A a \in DOMAIN sealHeads : IsLeaf(sealHeads[a])
    /\ \A a \in DOMAIN boundary.heads : IsLeaf(boundary.heads[a])
    /\ sink \subseteq DOMAIN postings
    /\ job.pc \in {"idle", "prove", "sign", "snapshot", "page", "copy",
                   "boundary", "prune"}
    /\ refused \in {"none", "seal", "archive", "page"}
    /\ sweeps \in 0..MaxSweeps /\ crashes \in 0..MaxCrashes

(* No posting is lost, whatever sweep stops where: every committed posting *)
(* is in hot storage or in the cold store (copy before delete).            *)
NothingLost == Committed \subseteq Stored \cup sink

(* The archive moves a strict prefix in commit order, never a gap: the     *)
(* signed boundary is, account by account, the head and the sum of exactly *)
(* the committed postings up to its watermark, over any number of pages,   *)
(* runs, crashes and postings still committing; nothing beyond it is gone. *)
BoundaryIsPrefix ==
    LET prefix == {i \in Committed : i <= boundary.through}
    IN  /\ boundary.heads = [a \in {b \in Accounts : Of(prefix, b) # {}}
                                |-> Leaf(prefix, a)]
        /\ In({"pruned"}) \subseteq prefix

(* The prover accepts the pruned ledger, with a page half moved too, as    *)
(* long as no later page was moved past postings a stopped sweep left; and *)
(* with nothing left behind the leaves a seal signs carry the head and the *)
(* full-history sum of every account ever posted to.                       *)
ProvableUnlessSkipped ==
    /\ (\A i \in In({"pruned"}), j \in Stranded : i < j) => ProveChain
    /\ Stranded = {} =>
        MergeArchiveSums(HeadSums)
            = [a \in {b \in Accounts : Of(Committed, b) # {}}
                |-> Leaf(Committed, a)]

(* What an honest ledger is refused for.  A seal refuses only when the     *)
(* sealed head of an account, or a link of the account after it, has been  *)
(* pruned, or a stopped archive run left a gap: postings that commit while *)
(* it proves, and a snapshot left half written, never make it.  The        *)
(* archive refuses its seal only after a sweep stopped, and never a page   *)
(* as discontinuous.                                                       *)
RefusalsExplained ==
    [][/\ job.pc = "prove" /\ job' = Idle /\ refused' = "seal"
          /\ crashes' = crashes =>
            \/ \E i \in In({"pruned"}) : \E a \in Touched(i) : SealedHead(a) <= i
            \/ \E i \in In({"pruned"}), j \in Stranded : j < i
       /\ refused' = "archive" => crashes > 0
       /\ refused' # "page"]_vars

(* The history that leaves hot storage does so without weakening a proof:  *)
(* the seals after it still succeed on an honest ledger.                   *)
HonestLedgerSeals == refused # "seal"
=============================================================================
