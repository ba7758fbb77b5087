---------------------------- MODULE Chain_proofs ----------------------------
(***************************************************************************)
(* What an honest ledger may count on, for any accounts, transfers and     *)
(* limits, wherever a sweep stops: the archive loses no posting            *)
(* (NothingEverLost), its boundary is the head of a settled prefix         *)
(* (ArchiveIsPrefix), what is left proves (Provable), and a seal is        *)
(* refused only for what the archive took or left (Refusals).  The first   *)
(* needs only that a page is copied before it is deleted (IInv); the       *)
(* others need the history of the chain (HInv).                            *)
(***************************************************************************)
EXTENDS Chain, Sums_proofs, TLAPS

Moving == {"copy", "boundary", "prune"}

(* The posting table is a sequence, and the sweep under way has a step; a   *)
(* sweep that is moving a page knows the page.                              *)
Shape ==
    /\ postings \in Seq({postings[i] : i \in DOMAIN postings})
    /\ \A i \in DOMAIN postings : "state" \in DOMAIN postings[i]
    /\ "pc" \in DOMAIN job
    /\ job.pc \in Moving => "page" \in DOMAIN job

(* Between the copy and the delete, the page under way is in the sink. *)
CopiedFirst == job.pc \in {"boundary", "prune"} => job.page \subseteq sink

IInv == Shape /\ CopiedFirst /\ NothingLost

-----------------------------------------------------------------------------
(* A posting appended to the table leaves the others as they were. *)
LEMMA AppendedPosting ==
  ASSUME NEW p, NEW e, p \in Seq({p[i] : i \in DOMAIN p})
  PROVE  /\ Append(p, e) \in Seq({Append(p, e)[i] : i \in DOMAIN Append(p, e)})
         /\ DOMAIN Append(p, e) = DOMAIN p \cup {Len(p) + 1}
         /\ Len(p) + 1 \notin DOMAIN p
         /\ \A i \in DOMAIN p : Append(p, e)[i] = p[i]
         /\ Append(p, e)[Len(p) + 1] = e
<1> DEFINE S == {p[i] : i \in DOMAIN p} \cup {e}
<1>1. p \in Seq(S)
  OBVIOUS
<1>2. /\ Append(p, e) \in Seq(S)
      /\ Len(p) \in Nat /\ DOMAIN p = 1..Len(p)
      /\ Len(Append(p, e)) = Len(p) + 1 /\ DOMAIN Append(p, e) = 1..(Len(p) + 1)
      /\ \A i \in 1..Len(p) : Append(p, e)[i] = p[i]
      /\ Append(p, e)[Len(p) + 1] = e
  BY <1>1
<1>3. Append(p, e) \in Seq({Append(p, e)[i] : i \in DOMAIN Append(p, e)})
  BY <1>2
<1> QED BY <1>2, <1>3

(* Rewriting entries of the table leaves it a sequence. *)
LEMMA RewrittenPostings ==
  ASSUME NEW p, NEW q, p \in Seq({p[i] : i \in DOMAIN p}),
         q = [i \in DOMAIN p |-> q[i]]
  PROVE  q \in Seq({q[i] : i \in DOMAIN q})
<1>1. Len(p) \in Nat /\ DOMAIN p = 1..Len(p)
  OBVIOUS
<1>2. q \in [1..Len(p) -> {q[i] : i \in DOMAIN q}]
  BY <1>1
<1> QED BY <1>1, <1>2

-----------------------------------------------------------------------------
(* Steps that touch neither the tables nor the page under way. *)
LEMMA SameTables ==
  ASSUME IInv, postings' = postings, sink' = sink,
         "pc" \in DOMAIN job', job'.pc \notin Moving
  PROVE  IInv'
<1>1. Shape'
  BY DEF IInv, Shape
<1>2. CopiedFirst'
  BY DEF CopiedFirst, Moving
<1>3. NothingLost'
  BY DEF IInv, NothingLost, Committed, Stored, In
<1> QED BY <1>1, <1>2, <1>3 DEF IInv

(* A client's transaction moves no page. *)
LEMMA PostKeeps ==
  ASSUME IInv, NEW t, Post(t)
  PROVE  IInv'
<1> DEFINE e == [debit |-> t[1], credit |-> t[2], at |-> now, state |-> "open",
                 prev |-> [a \in {t[1], t[2]} |-> Tip(Of(Committed, a))]]
<1>1. /\ postings' = Append(postings, e)
      /\ sink' = sink /\ job' = job
  BY DEF Post
<1>2. e.state = "open" /\ "state" \in DOMAIN e
  OBVIOUS
<1> HIDE DEF e
<1>3. postings \in Seq({postings[i] : i \in DOMAIN postings})
  BY DEF IInv, Shape
<1>4. /\ postings' \in Seq({postings'[i] : i \in DOMAIN postings'})
      /\ DOMAIN postings' = DOMAIN postings \cup {Len(postings) + 1}
      /\ \A i \in DOMAIN postings : postings'[i] = postings[i]
      /\ postings'[Len(postings) + 1] = e
  BY <1>1, <1>3, AppendedPosting
<1>5. Shape'
  BY <1>1, <1>2, <1>4 DEF IInv, Shape
<1>6. CopiedFirst'
  BY <1>1 DEF IInv, CopiedFirst
<1>7. NothingLost'
  BY <1>1, <1>2, <1>4 DEF IInv, NothingLost, Committed, Stored, In
<1> QED BY <1>5, <1>6, <1>7 DEF IInv

(* A transaction that ends keeps the invariant. *)
LEMMA EndsKeeps ==
  ASSUME IInv, NEW i, NEW state, state \in {"stored", "void"}, Ends(i, state)
  PROVE  IInv'
<1>1. /\ i \in DOMAIN postings
      /\ postings' = [postings EXCEPT ![i].state = state]
      /\ sink' = sink /\ job' = job
  BY DEF Ends, In
<1>2. /\ DOMAIN postings' = DOMAIN postings
      /\ \A j \in DOMAIN postings : j # i => postings'[j] = postings[j]
      /\ postings'[i] = [postings[i] EXCEPT !.state = state]
  BY <1>1
<1>3. "state" \in DOMAIN postings'[i] /\ postings'[i].state = state
  BY <1>1, <1>2 DEF IInv, Shape
<1>4. postings' = [j \in DOMAIN postings |-> postings'[j]]
  BY <1>1
<1>5. Shape'
  <2>1. postings' \in Seq({postings'[j] : j \in DOMAIN postings'})
    BY <1>4, RewrittenPostings DEF IInv, Shape
  <2>2. \A j \in DOMAIN postings' : "state" \in DOMAIN postings'[j]
    BY <1>2, <1>3 DEF IInv, Shape
  <2>3. "pc" \in DOMAIN job' /\ (job'.pc \in Moving => "page" \in DOMAIN job')
    BY <1>1 DEF IInv, Shape
  <2> QED BY <2>1, <2>2, <2>3 DEF Shape
<1>6. CopiedFirst'
  BY <1>1 DEF IInv, CopiedFirst
<1>7. NothingLost'
  BY <1>1, <1>2, <1>3 DEF IInv, NothingLost, Committed, Stored, In
<1> QED BY <1>5, <1>6, <1>7 DEF IInv

(* Copy before delete: what the boundary and the delete take from here is  *)
(* in the sink.                                                            *)
LEMMA ArchiveCopyKeeps ==
  ASSUME IInv, ArchiveCopy
  PROVE  IInv'
<1>1. /\ job.pc \in Moving /\ postings' = postings
      /\ sink' = sink \cup job.page
      /\ job' = [job EXCEPT !.pc = "boundary"]
  BY DEF ArchiveCopy, Moving
<1>2. "pc" \in DOMAIN job /\ "page" \in DOMAIN job
  BY <1>1 DEF IInv, Shape
<1>3. DOMAIN job' = DOMAIN job /\ job'.page = job.page
  BY <1>1, <1>2
<1>4. Shape'
  BY <1>1, <1>2, <1>3 DEF IInv, Shape
<1>5. CopiedFirst'
  BY <1>1, <1>3 DEF CopiedFirst
<1>6. NothingLost'
  BY <1>1 DEF IInv, NothingLost, Committed, Stored, In
<1> QED BY <1>4, <1>5, <1>6 DEF IInv

(* Storing the boundary keeps it. *)
LEMMA PutArchiveBoundaryKeeps ==
  ASSUME IInv, PutArchiveBoundary
  PROVE  IInv'
<1>1. /\ job.pc = "boundary" /\ postings' = postings /\ sink' = sink
      /\ job' = [job EXCEPT !.pc = "prune"]
  BY DEF PutArchiveBoundary
<1>2. "pc" \in DOMAIN job /\ "page" \in DOMAIN job
  BY <1>1 DEF IInv, Shape, Moving
<1>3. DOMAIN job' = DOMAIN job /\ job'.page = job.page
  BY <1>1, <1>2
<1>4. Shape'
  BY <1>1, <1>2, <1>3 DEF IInv, Shape
<1>5. CopiedFirst'
  BY <1>1, <1>3 DEF IInv, CopiedFirst
<1>6. NothingLost'
  BY <1>1 DEF IInv, NothingLost, Committed, Stored, In
<1> QED BY <1>4, <1>5, <1>6 DEF IInv

(* The delete takes the copied page and nothing else. *)
LEMMA PruneKeeps ==
  ASSUME IInv, Prune
  PROVE  IInv'
<1>1. /\ job.pc = "prune" /\ sink' = sink
      /\ postings' = [i \in DOMAIN postings |->
            IF i \in job.page THEN [postings[i] EXCEPT !.state = "pruned"]
            ELSE postings[i]]
  BY DEF Prune
<1>2. "pc" \in DOMAIN job' /\ job'.pc \notin Moving
  BY DEF Prune, Finish, Idle, Moving
<1>3. job.page \subseteq sink
  BY <1>1 DEF IInv, CopiedFirst
<1>4. DOMAIN postings' = DOMAIN postings
  BY <1>1
<1>5. \A i \in DOMAIN postings : i \notin job.page => postings'[i] = postings[i]
  BY <1>1
<1>6. \A i \in DOMAIN postings : "state" \in DOMAIN postings'[i]
  BY <1>1 DEF IInv, Shape
<1>7. postings' = [i \in DOMAIN postings |-> postings'[i]]
  BY <1>1
<1>8. Shape'
  BY <1>2, <1>4, <1>6, <1>7, RewrittenPostings DEF IInv, Shape
<1>9. CopiedFirst'
  BY <1>2 DEF CopiedFirst, Moving
<1>10. NothingLost'
  BY <1>1, <1>3, <1>4, <1>5 DEF IInv, NothingLost, Committed, Stored, In
<1> QED BY <1>8, <1>9, <1>10 DEF IInv

(* Choosing and verifying a page: it is not copied yet. *)
LEMMA ArchivePageKeeps ==
  ASSUME IInv, ArchivePage
  PROVE  IInv'
<1>1. postings' = postings /\ sink' = sink
  BY DEF ArchivePage
<1>2. \/ job' = Idle
      \/ \E page, heads, last, at :
            job' = [pc |-> "copy", at |-> at, page |-> page, heads |-> heads,
                    last |-> last]
  BY DEF ArchivePage, Finish
<1>3. /\ "pc" \in DOMAIN job' /\ job'.pc \in {"idle", "copy"}
      /\ job'.pc \in Moving => "page" \in DOMAIN job'
  BY <1>2 DEF Idle, Moving
<1>4. Shape'
  BY <1>1, <1>3 DEF IInv, Shape
<1>5. CopiedFirst'
  BY <1>3 DEF CopiedFirst
<1>6. NothingLost'
  BY <1>1 DEF IInv, NothingLost, Committed, Stored, In
<1> QED BY <1>4, <1>5, <1>6 DEF IInv

-----------------------------------------------------------------------------
(* The starting, sealing and stopping steps leave the tables and any page. *)
LEMMA SweepKeeps ==
  ASSUME IInv,
         \/ SealStart \/ SealProve \/ SealPut \/ PutSealHeads
         \/ ArchiveStart \/ SweepDies
  PROVE  IInv'
<1>1. postings' = postings /\ sink' = sink
  BY DEF SealStart, SealProve, SealPut, PutSealHeads, ArchiveStart, SweepDies
<1>2. "pc" \in DOMAIN job' /\ job'.pc \notin Moving
  <2>1. CASE SealStart \/ SealProve \/ SealPut \/ ArchiveStart \/ SweepDies
    BY <2>1 DEF SealStart, SealProve, SealPut, ArchiveStart, SweepDies, Start,
                Finish, Idle, Moving
  <2>2. CASE PutSealHeads
    <3>1. /\ job.pc = "snapshot"
          /\ \/ job' = [job EXCEPT !.full = FALSE]
             \/ \E a \in job.rows : job' = [job EXCEPT !.rows = @ \ {a}]
             \/ job' = Idle
      BY <2>2 DEF PutSealHeads, Finish
    <3>2. "pc" \in DOMAIN job
      BY DEF IInv, Shape
    <3>3. CASE job' = Idle
      BY <3>3 DEF Idle, Moving
    <3>4. CASE job' # Idle
      <4>1. "pc" \in DOMAIN job' /\ job'.pc = "snapshot"
        BY <3>1, <3>2, <3>4
      <4> QED BY <4>1 DEF Moving
    <3> QED BY <3>3, <3>4
  <2> QED BY <2>1, <2>2
<1> QED BY <1>1, <1>2, SameTables

(* Every step keeps the invariant. *)
LEMMA StepKeeps ==
  ASSUME IInv, [Next]_vars
  PROVE  IInv'
<1>1. CASE \E t \in Transfers : Post(t)
  BY <1>1, PostKeeps
<1>2. CASE \E i \in DOMAIN postings : Commit(i) \/ RollBack(i)
  BY <1>2, EndsKeeps DEF Commit, RollBack
<1>3. CASE Tick \/ UNCHANGED vars
  BY <1>3 DEF Tick, vars, IInv, Shape, CopiedFirst, NothingLost, Committed,
              Stored, In
<1>4. CASE \/ SealStart \/ SealProve \/ SealPut \/ PutSealHeads
          \/ ArchiveStart \/ SweepDies
  BY <1>4, SweepKeeps
<1>5. CASE ArchivePage \/ ArchiveCopy \/ PutArchiveBoundary \/ Prune
  BY <1>5, ArchivePageKeeps, ArchiveCopyKeeps, PutArchiveBoundaryKeeps,
     PruneKeeps
<1> QED BY <1>1, <1>2, <1>3, <1>4, <1>5 DEF Next

(* The empty ledger satisfies it. *)
LEMMA InitHolds == Init => IInv
<1> SUFFICES ASSUME Init PROVE IInv
  OBVIOUS
<1>1. postings = <<>> /\ DOMAIN postings = {}
  BY DEF Init
<1>2. job.pc = "idle" /\ "pc" \in DOMAIN job
  BY DEF Init, Idle
<1>3. Shape
  BY <1>1, <1>2 DEF Shape, Moving
<1>4. CopiedFirst
  BY <1>2 DEF CopiedFirst
<1>5. NothingLost
  BY <1>1 DEF NothingLost, Committed, Stored, In
<1> QED BY <1>3, <1>4, <1>5 DEF IInv

(* No archive run loses a posting, whatever step it stops at: every        *)
(* committed posting is in hot storage or has reached the cold store       *)
(* (archive.ts copies a page before it deletes it).                        *)
THEOREM NothingEverLost == Spec => []NothingLost
<1>1. IInv => NothingLost
  BY DEF IInv
<1> QED BY <1>1, InitHolds, StepKeeps, PTL DEF Spec

-----------------------------------------------------------------------------
(* Greatest, least, and the tip of a set of seqs. *)

(* The value that bounds a set of integers from inside is its maximum. *)
LEMMA MaxIs ==
  ASSUME NEW S, S \subseteq Int, NEW x \in S, \A y \in S : y <= x
  PROVE  Max(S) = x
<1>1. \A y \in S : x >= y
  OBVIOUS
<1>2. Max(S) \in S /\ \A y \in S : Max(S) >= y
  BY <1>1 DEF Max
<1>3. x \in Int /\ Max(S) \in Int /\ x <= Max(S) /\ Max(S) <= x
  BY <1>2
<1> QED BY <1>3

(* The value that bounds a set of integers from inside is its minimum. *)
LEMMA MinIs ==
  ASSUME NEW S, S \subseteq Int, NEW x \in S, \A y \in S : x <= y
  PROVE  Min(S) = x
<1>2. Min(S) \in S /\ \A y \in S : Min(S) <= y
  BY DEF Min
<1>3. x \in Int /\ Min(S) \in Int /\ x <= Min(S) /\ Min(S) <= x
  BY <1>2
<1> QED BY <1>3

(* A finite nonempty set of integers has a maximum. *)
LEMMA MaxOf ==
  ASSUME NEW S, IsFiniteSet(S), S # {}, S \subseteq Int
  PROVE  Max(S) \in S /\ \A y \in S : y <= Max(S)
<1> DEFINE f == [x \in S |-> -x]
<1>1. Ints(f, S)
  BY DEF Ints
<1>2. PICK m \in S : \A q \in S : f[m] <= f[q]
  <2> HIDE DEF f
  <2> QED BY <1>1, FiniteLeast
<1>3. \A q \in S : q <= m
  BY <1>2
<1>4. Max(S) = m
  BY <1>3, MaxIs
<1> QED BY <1>3, <1>4

(* A nonempty set of naturals has a minimum. *)
LEMMA MinOf ==
  ASSUME NEW S, S # {}, S \subseteq Nat
  PROVE  Min(S) \in S /\ \A y \in S : Min(S) <= y
<1>1. PICK n \in S : TRUE OBVIOUS
<1>2. IsFiniteSet(0..n)
  BY FS_Interval
<1>3. S \cap (0..n) \in SUBSET (0..n) /\ S \cap (0..n) # {} /\ S \cap (0..n) \subseteq Nat
  BY <1>1
<1>4. PICK x \in S \cap (0..n) : \A y \in S \cap (0..n) : x <= y
  BY <1>2, <1>3, FiniteMin
<1>5. \A y \in S : x <= y
  <2> TAKE y \in S
  <2>1. CASE y <= n
    BY <1>4, <2>1
  <2>2. CASE ~(y <= n)
    <3>1. x \in Nat /\ y \in Nat /\ n \in Nat /\ x <= n
      BY <1>4
    <3> QED BY <2>2, <3>1
  <2> QED BY <2>1, <2>2
<1>6. S \subseteq Int /\ x \in S
  BY <1>4
<1>7. Min(S) = x
  BY <1>5, <1>6, MinIs
<1> QED BY <1>5, <1>6, <1>7

(* Seqs: a finite set of positive numbers. *)
Seqs(S) == IsFiniteSet(S) /\ S \subseteq Nat \ {0}

(* A part of a set of seqs is one. *)
LEMMA SeqsPart ==
  ASSUME NEW S, Seqs(S), NEW T, T \subseteq S
  PROVE  Seqs(T)
BY FS_Subset DEF Seqs

(* The tip is the greatest seq, and genesis of none. *)
LEMMA TipOf ==
  ASSUME NEW S, Seqs(S)
  PROVE  /\ Tip(S) \in Nat /\ Tip(S) \in S \cup {Genesis}
         /\ \A y \in S : y <= Tip(S)
         /\ S # {} => Tip(S) \in S
         /\ S = {} => Tip(S) = Genesis
<1>1. IsFiniteSet(S \cup {0}) /\ S \cup {0} # {} /\ S \cup {0} \subseteq Int
  BY FS_AddElement DEF Seqs
<1>2. Max(S \cup {0}) \in S \cup {0} /\ \A y \in S \cup {0} : y <= Max(S \cup {0})
  BY <1>1, MaxOf
<1>3. Tip(S) = Max(S \cup {0}) /\ Genesis = 0
  BY DEF Tip, Genesis
<1>4. Tip(S) \in Nat /\ \A y \in S : y <= Tip(S)
  <2>1. S \cup {0} \subseteq Nat
    BY DEF Seqs
  <2>2. Tip(S) \in S \cup {0} /\ \A y \in S \cup {0} : y <= Tip(S)
    BY <1>2, <1>3
  <2>3. Tip(S) \in Nat
    BY <2>1, <2>2
  <2>4. \A y \in S : y <= Tip(S)
    BY <2>2
  <2> QED BY <2>3, <2>4
<1>5. S # {} => Tip(S) \in S
  <2> SUFFICES ASSUME S # {} PROVE Tip(S) \in S OBVIOUS
  <2>1. PICK y \in S : y \in Nat \ {0} /\ y <= Tip(S)
    BY <1>4 DEF Seqs
  <2>2. Tip(S) # 0
    BY <2>1, <1>4
  <2> QED BY <1>2, <1>3, <2>2
<1> QED BY <1>2, <1>3, <1>4, <1>5

(* What bounds the seqs from inside, or from genesis, is their tip. *)
LEMMA TipIs ==
  ASSUME NEW S, S \subseteq Nat, NEW x, x \in S \cup {Genesis}, \A y \in S : y <= x
  PROVE  Tip(S) = x
<1>1. S \cup {0} \subseteq Int /\ x \in S \cup {0} /\ \A y \in S \cup {0} : y <= x
  BY DEF Genesis
<1>2. Max(S \cup {0}) = x
  BY <1>1, MaxIs
<1> QED BY <1>2 DEF Tip, Genesis

-----------------------------------------------------------------------------
(* What the table of postings is: times never run backwards, an open posting *)
(* is of this instant, and each posting chains every account it touches onto *)
(* the last committed posting below it, none of those accounts left open.    *)
Prevs == UNION {[T -> Nat] : T \in SUBSET Accounts}
Posting == [debit : Accounts, credit : Accounts, at : Nat,
            state : {"open", "stored", "pruned", "void"}, prev : Prevs]

Below(i, a) == {k \in Of(Committed, a) : k < i}

Entry(i) ==
    /\ postings[i].debit # postings[i].credit
    /\ postings[i].at <= now
    /\ postings[i].state = "open" => postings[i].at = now
    /\ \A a \in Touched(i) : postings[i].prev[a] = Tip(Below(i, a))

InOrder(i, j) ==
    /\ postings[i].at <= postings[j].at
    /\ Touched(i) \cap Touched(j) # {} => postings[i].state # "open"

Table ==
    /\ postings \in Seq(Posting) /\ now \in Nat
    /\ \A i \in DOMAIN postings : Entry(i)
    /\ \A i, j \in DOMAIN postings : i < j => InOrder(i, j)

Upto(t) == {i \in Committed : i <= t}

HeadsOf(S) == [a \in {b \in Accounts : Of(S, b) # {}} |-> Leaf(S, a)]

(* Nothing at or before t can still commit. *)
Settled(t) ==
    /\ t \in Nat /\ t <= Len(postings)
    /\ \A i \in DOMAIN postings : i <= t => postings[i].state # "open"

(* The rows heads are those of exactly the committed postings up to t. *)
Prefix(heads, t) == Settled(t) /\ heads = HeadsOf(Upto(t))

Fresh(at) == at \in Nat /\ at < now

(* A run that looks for its next page holds the boundary as it is stored. *)
PageJob(h, t) ==
    \E at : /\ job = [pc |-> "page", at |-> at, heads |-> h, through |-> t]
            /\ Fresh(at)

(* A page on its way is what follows the boundary, up to its own tip. *)
PageIs(t, at, page, k, last, q) ==
    /\ job.pc \in {"copy", "boundary"}
    /\ job = [pc |-> job.pc, at |-> at, page |-> page, heads |-> k, last |-> last]
    /\ Fresh(at) /\ q = Tip(page) /\ page # {} /\ page \subseteq Stored
    /\ page = {i \in Committed : t < i /\ i <= q}
    /\ Prefix(k, q)

MoveJob(t) == \E at, page, k, last, q : PageIs(t, at, page, k, last, q)

(* A page about to be deleted is under the boundary. *)
PruneJob(h, t) ==
    \E at, page, last :
        /\ job = [pc |-> "prune", at |-> at, page |-> page, heads |-> h, last |-> last]
        /\ Fresh(at) /\ page \subseteq Stored /\ page \subseteq Upto(t) /\ Tip(page) = t

Archiving == {"page", "copy", "boundary", "prune"}

JobIs(h, t) == job.pc \notin Archiving \/ PageJob(h, t) \/ MoveJob(t) \/ PruneJob(h, t)

SealTimes ==
    /\ checkpoints \in Seq({checkpoints[k] : k \in DOMAIN checkpoints})
    /\ \A k \in DOMAIN checkpoints : checkpoints[k].at \in Nat

Covers(h, t) ==
    /\ boundary = [heads |-> h, through |-> t]
    /\ Prefix(h, t) /\ In({"pruned"}) \subseteq Upto(t)

Bound == SealTimes /\ \E h, t : Covers(h, t) /\ JobIs(h, t)

(* A stopped run left a posting behind one that is pruned. *)
Gap == \E i \in In({"pruned"}), j \in Stranded : j < i

Sealing == {"prove", "sign", "snapshot"}

(* Leaves to sign, or signed: the head is a committed link of the account,  *)
(* and on a ledger no sweep of which was stopped the sum is that of the     *)
(* account's whole history up to it.                                        *)
Signed(t) ==
    /\ t = [a \in DOMAIN t |-> t[a]] /\ DOMAIN t \subseteq Accounts
    /\ \A a \in DOMAIN t : t[a].head \in Of(Committed, a)
    /\ crashes = 0 =>
         \A a \in DOMAIN t : t[a] = [head |-> t[a].head, sum |-> Raw(Upto(t[a].head), a)]

ProveJob(s) ==
    \E l : /\ job = [pc |-> "prove", leaves |-> l] /\ Signed(l)
           /\ ~Gap => \A a \in DOMAIN s : a \in DOMAIN l /\ s[a].head <= l[a].head

SignJob(s) ==
    \E l, full :
        /\ full \in BOOLEAN
        /\ job = [pc |-> "sign", leaves |-> l, full |-> full] /\ Signed(l)
        /\ ~full => DOMAIN s \subseteq DOMAIN l

SnapshotIs(l, full, rows) ==
    /\ full \in BOOLEAN
    /\ job = [pc |-> "snapshot", leaves |-> l, full |-> full, rows |-> rows]
    /\ Signed(l) /\ rows \subseteq DOMAIN l

SnapshotJob == \E l, full, rows : SnapshotIs(l, full, rows)

(* The snapshot s and the leaves of the seal under way. *)
Leaves(s) ==
    /\ sealHeads = s /\ Signed(s)
    /\ job.pc \notin Sealing \/ ProveJob(s) \/ SignJob(s) \/ SnapshotJob

Seals == crashes \in Nat /\ \E s : Leaves(s)

(* Without a stopped sweep a run leaves behind only the page it is about   *)
(* to delete.                                                              *)
LeftBehind ==
    /\ job.pc # "prune" => Stranded = {}
    /\ job.pc = "prune" => Stranded \subseteq job.page

(* What putSealHeads has written of the leaves l. *)
Written(s, l, full, rows) ==
    IF full THEN rows = DOMAIN l
    ELSE /\ rows \subseteq DOMAIN l /\ DOMAIN s \subseteq DOMAIN l
         /\ \A a \in DOMAIN l \ rows : a \in DOMAIN s /\ s[a] = l[a]

(* Without a stopped sweep the snapshot is what the last seal signed, or   *)
(* on its way there.                                                       *)
LastIs(s, l, full, rows) ==
    /\ full \in BOOLEAN
    /\ job = [pc |-> "snapshot", leaves |-> l, full |-> full, rows |-> rows]
    /\ checkpoints # <<>> /\ Last(checkpoints).leaves = l
    /\ Written(s, l, full, rows)

LastSeal(s) ==
    /\ sealHeads = s
    /\ job.pc # "snapshot" =>
         s = IF checkpoints = <<>> THEN NoRows ELSE Last(checkpoints).leaves
    /\ job.pc = "snapshot" => \E l, full, rows : LastIs(s, l, full, rows)

Unbroken == crashes = 0 => LeftBehind /\ \E s : LastSeal(s)

Verdict == refused # "page" /\ (refused = "archive" => crashes > 0)

(* The history of the chain, as the ledger, the boundary and the snapshot  *)
(* have it.                                                                *)
HInv == Shape /\ Table /\ Bound /\ Seals /\ Unbroken /\ Verdict

-----------------------------------------------------------------------------
(* The committed postings, their sums and their heads. *)

(* The committed postings are seqs of the table. *)
LEMMA CommittedSeqs ==
  ASSUME Table
  PROVE  /\ Seqs(Committed) /\ Len(postings) \in Nat
         /\ DOMAIN postings = 1..Len(postings)
         /\ Committed \subseteq DOMAIN postings /\ Stored \subseteq Committed
<1>1. Len(postings) \in Nat /\ DOMAIN postings = 1..Len(postings)
  BY DEF Table
<1>2. IsFiniteSet(1..Len(postings))
  BY <1>1, FS_Interval
<1>3. Committed \subseteq DOMAIN postings /\ Stored \subseteq Committed
  BY DEF Committed, Stored, In
<1>4. IsFiniteSet(Committed)
  BY <1>1, <1>2, <1>3, FS_Subset
<1> QED BY <1>1, <1>3, <1>4 DEF Seqs

(* So are those of one account. *)
LEMMA OfSeqs ==
  ASSUME Table, NEW S, S \subseteq Committed, NEW a
  PROVE  /\ Seqs(S) /\ Seqs(Of(S, a)) /\ Of(S, a) \subseteq S
<1>1. Of(S, a) \subseteq S /\ Of(S, a) \subseteq Committed
  BY DEF Of
<1> QED BY <1>1, CommittedSeqs, SeqsPart

(* The sums of two disjoint sets of postings add up. *)
LEMMA RawJoin ==
  ASSUME NEW S, NEW E, IsFiniteSet(S), IsFiniteSet(E), S \cap E = {}, NEW a
  PROVE  /\ Raw(S, a) \in Int /\ Raw(E, a) \in Int
         /\ Raw(S \cup E, a) = Raw(S, a) + Raw(E, a)
         /\ Of(S, a) = {} => Raw(S, a) = 0
<1> DEFINE up(T) == {i \in T : postings[i].debit = a}
           down(T) == {i \in T : postings[i].credit = a}
<1>1. /\ IsFiniteSet(up(S)) /\ IsFiniteSet(up(E)) /\ IsFiniteSet(down(S)) /\ IsFiniteSet(down(E))
  BY FS_Subset
<1>2. /\ up(S \cup E) = up(S) \cup up(E) /\ up(S) \cap up(E) = {}
      /\ down(S \cup E) = down(S) \cup down(E) /\ down(S) \cap down(E) = {}
  OBVIOUS
<1>3. Of(S, a) = {} => up(S) = {} /\ down(S) = {}
  BY DEF Of, Touched
<1>4. /\ \A T : Raw(T, a) = Cardinality(up(T)) - Cardinality(down(T))
  BY DEF Raw
<1> HIDE DEF up, down
<1>5. /\ Cardinality(up(S)) \in Nat /\ Cardinality(up(E)) \in Nat
      /\ Cardinality(down(S)) \in Nat /\ Cardinality(down(E)) \in Nat
  BY <1>1, FS_CardinalityType
<1>6. Cardinality({}) = 0
  BY FS_EmptySet
<1>7. /\ Cardinality(up(S) \cup up(E)) = Cardinality(up(S)) + Cardinality(up(E)) - Cardinality(up(S) \cap up(E))
      /\ Cardinality(down(S) \cup down(E))
            = Cardinality(down(S)) + Cardinality(down(E)) - Cardinality(down(S) \cap down(E))
  BY <1>1, FS_Union
<1>8. /\ Cardinality(up(S \cup E)) = Cardinality(up(S)) + Cardinality(up(E))
      /\ Cardinality(down(S \cup E)) = Cardinality(down(S)) + Cardinality(down(E))
  <2>1. /\ Cardinality(up(S) \cap up(E)) = 0 /\ Cardinality(down(S) \cap down(E)) = 0
    BY <1>2, <1>6
  <2>2. /\ Cardinality(up(S \cup E)) = Cardinality(up(S) \cup up(E))
        /\ Cardinality(down(S \cup E)) = Cardinality(down(S) \cup down(E))
    BY <1>2
  <2> QED BY <1>5, <1>7, <2>1, <2>2
<1>9. Of(S, a) = {} => Raw(S, a) = 0
  BY <1>3, <1>4, <1>6
<1> QED BY <1>4, <1>5, <1>8, <1>9

(* A leaf over a set of postings and a later one: the head is the later    *)
(* one's if it touches the account at all, the sums add.                   *)
Follows(S, E) == Seqs(S) /\ Seqs(E) /\ \A i \in S, j \in E : i < j

(* Merging a leaf with the leaf of what follows: later head, joint sum. *)
LEMMA LeafJoin ==
  ASSUME NEW S, NEW E, Follows(S, E), NEW a
  PROVE  /\ Of(S \cup E, a) = Of(S, a) \cup Of(E, a)
         /\ Of(E, a) = {} => Leaf(S \cup E, a) = Leaf(S, a)
         /\ Of(E, a) # {} =>
              Leaf(S \cup E, a) = [head |-> Tip(Of(E, a)), sum |-> Raw(E, a) + Raw(S, a)]
         /\ Of(S, a) = {} => Leaf(S \cup E, a) = Leaf(E, a)
<1>1. Seqs(S) /\ Seqs(E) /\ \A i \in S, j \in E : i < j
  BY DEF Follows
<1>2. Of(S \cup E, a) = Of(S, a) \cup Of(E, a)
  BY DEF Of
<1>3. S \cap E = {}
  BY <1>1 DEF Seqs
<1>4. /\ Raw(S, a) \in Int /\ Raw(E, a) \in Int
      /\ Raw(S \cup E, a) = Raw(S, a) + Raw(E, a)
      /\ Of(S, a) = {} => Raw(S, a) = 0
  BY <1>1, <1>3, RawJoin DEF Seqs
<1>5. Of(E, a) = {} => Raw(E, a) = 0
  BY <1>1, <1>3, RawJoin DEF Seqs
<1>6. Of(E, a) = {} => Leaf(S \cup E, a) = Leaf(S, a)
  <2> SUFFICES ASSUME Of(E, a) = {} PROVE Leaf(S \cup E, a) = Leaf(S, a) OBVIOUS
  <2>1. Of(S \cup E, a) = Of(S, a)
    BY <1>2
  <2>2. Raw(S \cup E, a) = Raw(S, a)
    BY <1>4, <1>5
  <2> QED BY <2>1, <2>2 DEF Leaf
<1>7. Of(S, a) = {} => Leaf(S \cup E, a) = Leaf(E, a)
  <2> SUFFICES ASSUME Of(S, a) = {} PROVE Leaf(S \cup E, a) = Leaf(E, a) OBVIOUS
  <2>1. Of(S \cup E, a) = Of(E, a)
    BY <1>2
  <2>2. Raw(S \cup E, a) = Raw(E, a)
    BY <1>4
  <2> QED BY <2>1, <2>2 DEF Leaf
<1>8. Of(E, a) # {} =>
        Leaf(S \cup E, a) = [head |-> Tip(Of(E, a)), sum |-> Raw(E, a) + Raw(S, a)]
  <2> SUFFICES ASSUME Of(E, a) # {}
               PROVE  Leaf(S \cup E, a) = [head |-> Tip(Of(E, a)), sum |-> Raw(E, a) + Raw(S, a)]
    OBVIOUS
  <2>1. Of(E, a) \subseteq E /\ Of(S, a) \subseteq S
    BY DEF Of
  <2>2. Seqs(Of(E, a))
    BY <1>1, <2>1, SeqsPart
  <2>3. Tip(Of(E, a)) \in Of(E, a) /\ \A y \in Of(E, a) : y <= Tip(Of(E, a))
    BY <2>2, TipOf
  <2>4. \A y \in Of(S \cup E, a) : y <= Tip(Of(E, a))
    <3> TAKE y \in Of(S \cup E, a)
    <3>1. CASE y \in Of(E, a)
      BY <2>3, <3>1
    <3>2. CASE y \in Of(S, a)
      <4>1. y \in S /\ Tip(Of(E, a)) \in E
        BY <2>1, <2>3, <3>2
      <4>2. y < Tip(Of(E, a)) /\ y \in Nat /\ Tip(Of(E, a)) \in Nat
        BY <1>1, <4>1 DEF Seqs
      <4> QED BY <4>2
    <3> QED BY <1>2, <3>1, <3>2
  <2>5. Of(S \cup E, a) \subseteq Nat /\ Tip(Of(E, a)) \in Of(S \cup E, a) \cup {Genesis}
    BY <1>1, <1>2, <2>1, <2>3 DEF Seqs
  <2>6. Tip(Of(S \cup E, a)) = Tip(Of(E, a))
    BY <2>4, <2>5, TipIs
  <2>7. Raw(S \cup E, a) = Raw(E, a) + Raw(S, a)
    BY <1>4
  <2> QED BY <2>6, <2>7 DEF Leaf
<1> QED BY <1>2, <1>6, <1>7, <1>8

(* The boundary's rows advanced by a page are the heads of both. *)
LEMMA AdvancedJoin ==
  ASSUME NEW S, NEW E, Follows(S, E)
  PROVE  Advanced(E, HeadsOf(S)) = HeadsOf(S \cup E)
<1>1. DOMAIN HeadsOf(S) = {b \in Accounts : Of(S, b) # {}}
  BY DEF HeadsOf
<1>2. \A b : Of(S \cup E, b) = Of(S, b) \cup Of(E, b)
  BY DEF Of
<1>3. {b \in Accounts : b \in DOMAIN HeadsOf(S) \/ Of(E, b) # {}}
        = {b \in Accounts : Of(S \cup E, b) # {}}
  BY <1>1, <1>2
<1>4. ASSUME NEW a \in {b \in Accounts : Of(S \cup E, b) # {}}
      PROVE  (IF Of(E, a) = {} THEN HeadsOf(S)[a]
              ELSE [head |-> Tip(Of(E, a)),
                    sum  |-> Raw(E, a) + (IF a \in DOMAIN HeadsOf(S) THEN HeadsOf(S)[a].sum ELSE 0)])
              = Leaf(S \cup E, a)
  <2>0. /\ Of(E, a) = {} => Leaf(S \cup E, a) = Leaf(S, a)
        /\ Of(E, a) # {} =>
             Leaf(S \cup E, a) = [head |-> Tip(Of(E, a)), sum |-> Raw(E, a) + Raw(S, a)]
        /\ Of(S, a) = {} => Leaf(S \cup E, a) = Leaf(E, a)
    BY LeafJoin
  <2>1. a \in DOMAIN HeadsOf(S) => HeadsOf(S)[a] = Leaf(S, a)
    BY DEF HeadsOf
  <2>2. a \in DOMAIN HeadsOf(S) <=> Of(S, a) # {}
    BY <1>1, <1>4
  <2>3. CASE Of(E, a) = {}
    BY <1>2, <1>4, <2>0, <2>1, <2>2, <2>3
  <2>4. CASE Of(E, a) # {} /\ Of(S, a) # {}
    <3>1. Leaf(S \cup E, a) = [head |-> Tip(Of(E, a)), sum |-> Raw(E, a) + Raw(S, a)]
      BY <2>0, <2>4
    <3>2. HeadsOf(S)[a].sum = Raw(S, a)
      BY <2>1, <2>2, <2>4 DEF Leaf
    <3>3. a \in DOMAIN HeadsOf(S) /\ Of(E, a) # {}
      BY <2>2, <2>4
    <3> HIDE DEF HeadsOf
    <3> QED BY <3>1, <3>2, <3>3
  <2>5. CASE Of(E, a) # {} /\ Of(S, a) = {}
    <3>0. Leaf(S \cup E, a) = Leaf(E, a)
      BY <2>0, <2>5
    <3>1. Leaf(S \cup E, a) = [head |-> Tip(Of(E, a)), sum |-> Raw(E, a)]
      BY <3>0 DEF Leaf
    <3>2. Raw(E, a) \in Int
      <4>1. IsFiniteSet(E) /\ IsFiniteSet({}) /\ E \cap {} = {}
        BY FS_EmptySet DEF Follows, Seqs
      <4> QED BY <4>1, RawJoin
    <3>3. Raw(E, a) + 0 = Raw(E, a)
      BY <3>2
    <3> QED BY <2>2, <2>5, <3>1, <3>3
  <2>6. CASE Of(E, a) # {}
    BY <2>4, <2>5, <2>6
  <2> QED BY <2>3, <2>6
<1> QED BY <1>3, <1>4 DEF Advanced, HeadsOf

-----------------------------------------------------------------------------
(* Steps of the posting table: entries keep their fields, an open entry may *)
(* be committed, a committed one stays so, new entries come last.           *)

SameFields(i) ==
    /\ postings'[i].debit = postings[i].debit /\ postings'[i].credit = postings[i].credit
    /\ postings'[i].at = postings[i].at /\ postings'[i].prev = postings[i].prev
    /\ postings[i].state # "open" => postings'[i].state # "open"

Grows ==
    /\ Len(postings) <= Len(postings') /\ DOMAIN postings \subseteq DOMAIN postings'
    /\ \A i \in DOMAIN postings' \ DOMAIN postings : Len(postings) < i
    /\ \A i \in DOMAIN postings : SameFields(i)
    /\ Committed \subseteq Committed'
    /\ \A i \in Committed' \ Committed : i \in In({"open"})

(* A posting keeps the accounts it touches. *)
LEMMA TouchedKept ==
  ASSUME Grows
  PROVE  \A i \in DOMAIN postings : Touched(i)' = Touched(i)
BY DEF Grows, SameFields, Touched

(* What was committed of an account keeps its seqs, its sum and its leaf. *)
LEMMA OfKept ==
  ASSUME Grows, NEW S, S \subseteq DOMAIN postings, NEW a
  PROVE  Of(S, a)' = Of(S, a) /\ Raw(S, a)' = Raw(S, a) /\ Leaf(S, a)' = Leaf(S, a)
<1>1. \A i \in S : Touched(i)' = Touched(i)
  BY TouchedKept
<1>2. Of(S, a)' = Of(S, a)
  BY <1>1 DEF Of
<1>3. /\ {i \in S : postings'[i].debit = a} = {i \in S : postings[i].debit = a}
      /\ {i \in S : postings'[i].credit = a} = {i \in S : postings[i].credit = a}
  BY DEF Grows, SameFields
<1>4. Raw(S, a)' = Raw(S, a)
  BY <1>3 DEF Raw
<1> QED BY <1>2, <1>4 DEF Leaf

(* So do the heads of a set of postings. *)
LEMMA HeadsOfKept ==
  ASSUME Grows, NEW S, S \subseteq DOMAIN postings
  PROVE  HeadsOf(S)' = HeadsOf(S)
<1>1. \A b \in Accounts : Of(S, b)' = Of(S, b) /\ Leaf(S, b)' = Leaf(S, b)
  BY OfKept
<1> QED BY <1>1 DEF HeadsOf

(* What is settled stays as it is. *)
LEMMA SettledKept ==
  ASSUME Table, Table', Grows, NEW t, Settled(t)
  PROVE  Settled(t)' /\ Upto(t)' = Upto(t) /\ HeadsOf(Upto(t))' = HeadsOf(Upto(t))
<1>1. /\ DOMAIN postings = 1..Len(postings) /\ Len(postings) \in Nat
      /\ DOMAIN postings' = 1..Len(postings') /\ Len(postings') \in Nat
      /\ Len(postings) <= Len(postings')
  BY DEF Table, Grows
<1>2. t \in Nat /\ t <= Len(postings)
  BY DEF Settled
<1>3. \A i \in DOMAIN postings' : i <= t => i \in DOMAIN postings
  BY <1>1, <1>2
<1>4. Settled(t)'
  <2>1. \A i \in DOMAIN postings' : i <= t => postings'[i].state # "open"
    BY <1>3 DEF Settled, Grows, SameFields
  <2>2. t <= Len(postings')
    BY <1>1, <1>2
  <2> QED BY <1>2, <2>1, <2>2 DEF Settled
<1>5. Upto(t)' = Upto(t)
  <2>1. \A i \in Committed' : i <= t => i \in Committed
    <3> SUFFICES ASSUME NEW i \in Committed', i <= t, i \notin Committed PROVE FALSE
      OBVIOUS
    <3>1. i \in In({"open"})
      BY DEF Grows
    <3>2. i \in DOMAIN postings /\ postings[i].state = "open"
      BY <3>1 DEF In
    <3> QED BY <3>2 DEF Settled
  <2> QED BY <2>1 DEF Upto, Grows
<1>6. Upto(t) \subseteq DOMAIN postings
  BY CommittedSeqs DEF Upto
<1>7. PICK S : S = Upto(t)
  OBVIOUS
<1>8. HeadsOf(S)' = HeadsOf(S)
  BY <1>6, <1>7, HeadsOfKept
<1>9. HeadsOf(Upto(t))' = HeadsOf(S)'
  <2>1. Upto(t)' = S
    BY <1>5, <1>7
  <2> QED BY <2>1 DEF HeadsOf, Of, Leaf, Raw
<1> QED BY <1>4, <1>5, <1>7, <1>8, <1>9

(* Nothing an entry chains onto can still change. *)
LEMMA BelowKept ==
  ASSUME Table, Grows, NEW i \in DOMAIN postings, NEW a \in Touched(i)
  PROVE  Below(i, a)' = Below(i, a)
<1>1. Committed \subseteq Committed' /\ Committed \subseteq DOMAIN postings
  BY CommittedSeqs DEF Grows
<1>2. \A k \in DOMAIN postings : Touched(k)' = Touched(k)
  BY TouchedKept
<1>3. ASSUME NEW k \in Committed' \ Committed, k < i, a \in Touched(k)'
      PROVE  FALSE
  <2>1. k \in DOMAIN postings /\ postings[k].state = "open"
    BY <1>3 DEF Grows, In
  <2>2. a \in Touched(k)
    BY <1>2, <1>3, <2>1
  <2>3. InOrder(k, i)
    BY <1>3, <2>1 DEF Table
  <2> QED BY <2>1, <2>2, <2>3 DEF InOrder
<1>4. Of(Committed, a)' = {k \in Committed' : a \in Touched(k)'}
  BY DEF Of
<1>5. Of(Committed, a) = {k \in Committed : a \in Touched(k)}
  BY DEF Of
<1>6. Below(i, a)' = {k \in Committed' : a \in Touched(k)' /\ k < i}
  BY <1>4 DEF Below
<1>7. Below(i, a) = {k \in Committed : a \in Touched(k) /\ k < i}
  BY <1>5 DEF Below
<1> QED BY <1>1, <1>2, <1>3, <1>6, <1>7

-----------------------------------------------------------------------------
(* Each step of the posting table keeps it in order. *)

(* A table whose entries keep their place and whose new entry, if any, is   *)
(* in order with the rest.                                                  *)
LEMMA TableKept ==
  ASSUME Table, Grows, postings' \in Seq(Posting), now' = now,
         \A i \in DOMAIN postings' \ DOMAIN postings :
            /\ Entry(i)'
            /\ \A j \in DOMAIN postings : InOrder(j, i)'
            /\ i = Len(postings')
  PROVE  Table'
<1>1. /\ DOMAIN postings = 1..Len(postings) /\ Len(postings) \in Nat
      /\ DOMAIN postings' = 1..Len(postings') /\ Len(postings') \in Nat
  BY DEF Table
<1>2. now' \in Nat
  BY DEF Table
<1>3. ASSUME NEW i \in DOMAIN postings
      PROVE  Entry(i)'
  <2>1. Entry(i) /\ SameFields(i)
    BY DEF Table, Grows
  <2>2. Touched(i)' = Touched(i)
    BY TouchedKept
  <2>3. ASSUME NEW a \in Touched(i)'
        PROVE  postings'[i].prev[a] = Tip(Below(i, a))'
    <3>1. Below(i, a)' = Below(i, a)
      BY <2>2, <2>3, BelowKept
    <3>2. postings[i].prev[a] = Tip(Below(i, a))
      BY <2>1, <2>2, <2>3 DEF Entry
    <3>3. Tip(Below(i, a))' = Tip(Below(i, a))
      BY <3>1 DEF Tip, Genesis
    <3> QED BY <2>1, <3>2, <3>3 DEF SameFields
  <2>4. /\ postings'[i].debit # postings'[i].credit
        /\ postings'[i].at <= now'
        /\ postings'[i].state = "open" => postings'[i].at = now'
    BY <2>1 DEF Entry, SameFields
  <2> QED BY <2>3, <2>4 DEF Entry
<1>4. ASSUME NEW i \in DOMAIN postings, NEW j \in DOMAIN postings, i < j
      PROVE  InOrder(i, j)'
  <2>1. InOrder(i, j) /\ SameFields(i) /\ SameFields(j)
    BY <1>4 DEF Table, Grows
  <2>2. Touched(i)' = Touched(i) /\ Touched(j)' = Touched(j)
    BY TouchedKept
  <2> QED BY <2>1, <2>2 DEF InOrder, SameFields
<1>5. ASSUME NEW i \in DOMAIN postings', NEW j \in DOMAIN postings', i < j
      PROVE  InOrder(i, j)'
  <2>1. i \in DOMAIN postings
    BY <1>1, <1>5
  <2>2. CASE j \in DOMAIN postings
    BY <1>4, <1>5, <2>1, <2>2
  <2>3. CASE j \notin DOMAIN postings
    BY <2>1, <2>3
  <2> QED BY <2>2, <2>3
<1>6. \A i \in DOMAIN postings' : Entry(i)'
  BY <1>3
<1> QED BY <1>2, <1>5, <1>6 DEF Table

(* A client's posting: its two accounts have nothing open, and it chains    *)
(* onto their heads.                                                        *)
LEMMA PostTable ==
  ASSUME ChainAssumption, Table, NEW t \in Transfers, Post(t)
  PROVE  Table' /\ Grows /\ Committed' = Committed /\ In({"pruned"})' = In({"pruned"})
<1>0. PICK n : n = Len(postings) + 1
  OBVIOUS
<1> DEFINE e == [debit |-> t[1], credit |-> t[2], at |-> now, state |-> "open",
                 prev |-> [a \in {t[1], t[2]} |-> Tip(Of(Committed, a))]]
<1>1. postings' = Append(postings, e) /\ now' = now
  BY DEF Post
<1>2. t[1] \in Accounts /\ t[2] \in Accounts /\ t[1] # t[2]
  BY DEF ChainAssumption
<1>3. postings \in Seq(Posting) /\ now \in Nat
  BY DEF Table
<1>4. \A a : Tip(Of(Committed, a)) \in Nat
  BY OfSeqs, TipOf
<1>5. e \in Posting
  <2>1. e.prev \in [{t[1], t[2]} -> Nat]
    BY <1>4
  <2>2. {t[1], t[2]} \in SUBSET Accounts
    BY <1>2
  <2>3. e.prev \in Prevs
    BY <2>1, <2>2 DEF Prevs
  <2> QED BY <1>2, <1>3, <2>3 DEF Posting
<1>6. /\ e.debit = t[1] /\ e.credit = t[2] /\ e.at = now /\ e.state = "open"
      /\ \A a \in {t[1], t[2]} : e.prev[a] = Tip(Of(Committed, a))
  OBVIOUS
<1> HIDE DEF e
<1>7. /\ postings' \in Seq(Posting) /\ Len(postings) \in Nat /\ DOMAIN postings = 1..Len(postings)
      /\ Len(postings') = n /\ DOMAIN postings' = 1..n
      /\ \A i \in 1..Len(postings) : postings'[i] = postings[i]
      /\ postings'[n] = e
  BY <1>0, <1>1, <1>3, <1>5
<1>8. Committed' = Committed /\ In({"pruned"})' = In({"pruned"})
  BY <1>0, <1>6, <1>7 DEF Committed, In
<1>9. Grows
  BY <1>0, <1>7, <1>8 DEF Grows, SameFields
<1>10. Touched(n)' = {t[1], t[2]}
  BY <1>6, <1>7 DEF Touched
<1>11. \A k \in Committed : Touched(k)' = Touched(k)
  BY <1>9, TouchedKept, CommittedSeqs
<1>12. ASSUME NEW a
       PROVE  Below(n, a)' = Of(Committed, a)
  <2>1. Below(n, a)' = {k \in Committed' : a \in Touched(k)' /\ k < n}
    BY DEF Below, Of
  <2>2. \A k \in Committed : k < n
    BY <1>0, <1>7, CommittedSeqs
  <2>3. Of(Committed, a) = {k \in Committed : a \in Touched(k)}
    BY DEF Of
  <2> QED BY <1>8, <1>11, <2>1, <2>2, <2>3
<1>13. Entry(n)'
  <2>1. ASSUME NEW a \in Touched(n)'
        PROVE  postings'[n].prev[a] = Tip(Below(n, a))'
    <3>1. Tip(Below(n, a))' = Tip(Of(Committed, a))
      BY <1>12 DEF Tip, Genesis
    <3> QED BY <1>6, <1>7, <1>10, <2>1, <3>1
  <2>2. /\ postings'[n].debit # postings'[n].credit /\ postings'[n].at <= now'
        /\ postings'[n].at = now'
    BY <1>1, <1>2, <1>3, <1>6, <1>7
  <2> QED BY <2>1, <2>2 DEF Entry
<1>14. ASSUME NEW j \in DOMAIN postings
       PROVE  InOrder(j, n)'
  <2>1. postings'[j] = postings[j] /\ postings[j].at <= now
    BY <1>7 DEF Table, Entry
  <2>2. ASSUME Touched(j)' \cap Touched(n)' # {}, postings[j].state = "open"
        PROVE  FALSE
    <3>1. PICK a \in {t[1], t[2]} : a \in Touched(j)
      BY <1>9, <1>10, <2>2, TouchedKept
    <3>2. j \in Of(In({"open"}), a)
      BY <2>2, <3>1 DEF Of, In
    <3> QED BY <3>1, <3>2 DEF Post
  <2> QED BY <1>6, <1>7, <2>1, <2>2 DEF InOrder
<1>15. \A i \in DOMAIN postings' \ DOMAIN postings : i = n
  BY <1>0, <1>7
<1>16. Table'
  BY <1>1, <1>7, <1>9, <1>13, <1>14, <1>15, TableKept
<1> QED BY <1>8, <1>9, <1>16

(* An open posting commits or rolls back. *)
LEMMA EndsTable ==
  ASSUME Table, NEW i, NEW state, state \in {"stored", "void"}, Ends(i, state)
  PROVE  /\ Table' /\ Grows /\ In({"pruned"})' = In({"pruned"})
         /\ Stored' \subseteq Stored \cup {i}
         /\ i \in In({"open"})
<1>1. /\ i \in DOMAIN postings /\ postings[i].state = "open" /\ i \in In({"open"})
      /\ postings' = [postings EXCEPT ![i].state = state] /\ now' = now
  BY DEF Ends, In
<1>2. postings \in Seq(Posting)
  BY DEF Table
<1>3. postings[i] \in Posting
  BY <1>1, <1>2
<1>4. /\ [postings[i] EXCEPT !.state = state] \in Posting
      /\ [postings[i] EXCEPT !.state = state].state = state
      /\ [postings[i] EXCEPT !.state = state].debit = postings[i].debit
      /\ [postings[i] EXCEPT !.state = state].credit = postings[i].credit
      /\ [postings[i] EXCEPT !.state = state].at = postings[i].at
      /\ [postings[i] EXCEPT !.state = state].prev = postings[i].prev
  BY <1>3 DEF Posting
<1> DEFINE e == [postings[i] EXCEPT !.state = state]
<1>5. postings' = [postings EXCEPT ![i] = e]
  BY <1>1
<1> HIDE DEF e
<1>6. e \in Posting /\ e.state = state /\ e.debit = postings[i].debit /\ e.credit = postings[i].credit
      /\ e.at = postings[i].at /\ e.prev = postings[i].prev
  BY <1>4 DEF e
<1>7. /\ postings' \in Seq(Posting) /\ Len(postings') = Len(postings)
      /\ DOMAIN postings' = DOMAIN postings
      /\ postings'[i] = e
      /\ \A j \in DOMAIN postings : j # i => postings'[j] = postings[j]
  BY <1>1, <1>2, <1>5, <1>6
<1>8. /\ In({"pruned"})' = In({"pruned"})
      /\ Stored' \subseteq Stored \cup {i}
      /\ Committed \subseteq Committed' /\ Committed' \subseteq Committed \cup {i}
  BY <1>1, <1>6, <1>7 DEF Stored, Committed, In
<1>9. \A j \in DOMAIN postings : SameFields(j)
  BY <1>1, <1>6, <1>7 DEF SameFields
<1>10. Len(postings) <= Len(postings')
  BY <1>7, CommittedSeqs
<1>11. Grows
  BY <1>1, <1>7, <1>8, <1>9, <1>10 DEF Grows
<1>12. Table'
  BY <1>1, <1>7, <1>11, TableKept
<1> QED BY <1>1, <1>8, <1>11, <1>12

(* The delete. *)
LEMMA PruneTable ==
  ASSUME Table, Prune, job.page \subseteq Stored
  PROVE  /\ Table' /\ Grows /\ Committed' = Committed
         /\ In({"pruned"})' = In({"pruned"}) \cup job.page
         /\ Stored' = Stored \ job.page
<1>1. /\ postings' = [i \in DOMAIN postings |->
            IF i \in job.page THEN [postings[i] EXCEPT !.state = "pruned"]
            ELSE postings[i]]
      /\ now' = now
  BY DEF Prune
<1>2. postings \in Seq(Posting) /\ Len(postings) \in Nat /\ DOMAIN postings = 1..Len(postings)
  BY DEF Table
<1>3. ASSUME NEW i \in DOMAIN postings
      PROVE  /\ postings'[i] \in Posting
             /\ postings'[i].debit = postings[i].debit /\ postings'[i].credit = postings[i].credit
             /\ postings'[i].at = postings[i].at /\ postings'[i].prev = postings[i].prev
             /\ i \in job.page => postings'[i].state = "pruned"
             /\ i \notin job.page => postings'[i].state = postings[i].state
  <2>1. postings[i] \in Posting
    BY <1>2, <1>3
  <2>2. CASE i \in job.page
    <3>1. postings'[i] = [postings[i] EXCEPT !.state = "pruned"]
      BY <1>1, <1>3, <2>2
    <3> QED BY <2>1, <2>2, <3>1 DEF Posting
  <2>3. CASE i \notin job.page
    <3>1. postings'[i] = postings[i]
      BY <1>1, <1>3, <2>3
    <3> QED BY <2>1, <2>3, <3>1
  <2> QED BY <2>2, <2>3
<1>4. DOMAIN postings' = DOMAIN postings
  BY <1>1
<1>5. postings' \in Seq(Posting) /\ Len(postings') = Len(postings)
  <2>1. postings' \in [1..Len(postings) -> Posting]
    BY <1>1, <1>2, <1>3
  <2> QED BY <1>2, <2>1
<1>6. \A i \in job.page : i \in DOMAIN postings /\ postings[i].state = "stored"
  BY DEF Stored, In
<1>7. /\ Committed' = Committed /\ In({"pruned"})' = In({"pruned"}) \cup job.page
      /\ Stored' = Stored \ job.page
  BY <1>3, <1>4, <1>6 DEF Committed, Stored, In
<1>8. \A i \in DOMAIN postings : SameFields(i)
  BY <1>3, <1>6 DEF SameFields
<1>9. Grows
  BY <1>2, <1>4, <1>5, <1>7, <1>8 DEF Grows
<1>10. Table'
  BY <1>1, <1>4, <1>5, <1>9, TableKept
<1> QED BY <1>7, <1>9, <1>10

(* Time passes while nothing is open. *)
LEMMA TickTable ==
  ASSUME Table, Tick
  PROVE  Table'
<1>1. postings' = postings /\ now' = now + 1 /\ now \in Nat /\ postings \in Seq(Posting)
  BY DEF Table, Tick
<1>2. \A i \in DOMAIN postings : postings[i].state # "open" /\ postings[i].at \in Nat
  <2>1. \A i \in DOMAIN postings : i \notin In({"open"}) /\ postings[i] \in Posting
    BY <1>1 DEF Tick
  <2> QED BY <2>1 DEF In, Posting
<1>3. ASSUME NEW i \in DOMAIN postings PROVE Entry(i)'
  <2>1. Entry(i)
    BY DEF Table
  <2>2. \A a : Tip(Below(i, a))' = Tip(Below(i, a))
    BY <1>1 DEF Tip, Genesis, Below, Of, Committed, In, Touched
  <2> QED BY <1>1, <1>2, <2>1, <2>2 DEF Entry, Touched
<1>4. \A i, j \in DOMAIN postings : InOrder(i, j)' <=> InOrder(i, j)
  BY <1>1 DEF InOrder, Touched
<1> QED BY <1>1, <1>3, <1>4 DEF Table

(* Steps of the sweeps. *)
LEMMA SameTable ==
  ASSUME Table, postings' = postings, now' = now
  PROVE  Table'
<1>1. \A i, j \in DOMAIN postings : InOrder(i, j)' <=> InOrder(i, j)
  BY DEF InOrder, Touched
<1>2. \A i \in DOMAIN postings : Entry(i)' <=> Entry(i)
  <2>1. \A i, a : Tip(Below(i, a))' = Tip(Below(i, a))
    BY DEF Tip, Genesis, Below, Of, Committed, In, Touched
  <2> QED BY <2>1 DEF Entry, Touched
<1> QED BY <1>1, <1>2 DEF Table

-----------------------------------------------------------------------------
(* The boundary, through each step. *)

(* A step that leaves the table alone keeps it. *)
LEMMA StillGrows ==
  ASSUME Table, postings' = postings
  PROVE  Grows
BY CommittedSeqs DEF Grows, SameFields, Committed, In

(* What was settled stays settled, with the same heads. *)
LEMMA PrefixKept ==
  ASSUME Table, Table', Grows, NEW h, NEW t, Prefix(h, t)
  PROVE  Prefix(h, t)' /\ Upto(t)' = Upto(t)
<1>1. Settled(t)' /\ Upto(t)' = Upto(t) /\ HeadsOf(Upto(t))' = HeadsOf(Upto(t))
  BY SettledKept DEF Prefix
<1> QED BY <1>1 DEF Prefix

(* A boundary left alone covers what it covered. *)
LEMMA CoversKept ==
  ASSUME Table, Table', Grows, NEW h, NEW t, Covers(h, t),
         boundary' = boundary, In({"pruned"})' \subseteq Upto(t)
  PROVE  Covers(h, t)'
BY PrefixKept DEF Covers

(* The postings' own steps, and time. *)
LEMMA BoundGrows ==
  ASSUME Table, Table', Grows, Bound, boundary' = boundary, checkpoints' = checkpoints,
         job' = job, now <= now', now' \in Nat,
         In({"pruned"})' = In({"pruned"}), Stored \subseteq Stored'
  PROVE  Bound'
<1>1. PICK h, t : Covers(h, t) /\ JobIs(h, t)
  BY DEF Bound
<1>2. Covers(h, t)'
  BY <1>1, CoversKept DEF Covers
<1>3. SealTimes'
  BY DEF Bound, SealTimes
<1>4. ASSUME NEW at, Fresh(at) PROVE Fresh(at)'
  BY <1>4 DEF Fresh, Table
<1>5. Upto(t)' = Upto(t)
  BY <1>1, PrefixKept DEF Covers
<1>6. JobIs(h, t)'
  <2>1. CASE job.pc \notin Archiving
    BY <2>1 DEF JobIs
  <2>2. CASE PageJob(h, t)
    <3>1. PageJob(h, t)'
      BY <1>4, <2>2 DEF PageJob
    <3> QED BY <3>1 DEF JobIs
  <2>3. CASE MoveJob(t)
    <3>0. PICK at, page, k, last, q : PageIs(t, at, page, k, last, q)
      BY <2>3 DEF MoveJob
    <3>1. /\ job.pc \in {"copy", "boundary"}
          /\ job = [pc |-> job.pc, at |-> at, page |-> page, heads |-> k, last |-> last]
          /\ Fresh(at) /\ q = Tip(page) /\ page # {} /\ page \subseteq Stored
          /\ page = {i \in Committed : t < i /\ i <= q}
          /\ Prefix(k, q)
      BY <3>0 DEF PageIs
    <3>2. Fresh(at)' /\ q = Tip(page)' /\ page \subseteq Stored'
      BY <1>4, <3>1 DEF Tip, Genesis
    <3>3. Prefix(k, q)' /\ Upto(q)' = Upto(q)
      BY <3>1, PrefixKept
    <3>4. {i \in Committed' : t < i /\ i <= q} = {i \in Committed : t < i /\ i <= q}
      <4>1. {i \in Committed' : i <= q} = {i \in Committed : i <= q}
        BY <3>3 DEF Upto
      <4> QED BY <4>1
    <3>5. PageIs(t, at, page, k, last, q)'
      BY <3>1, <3>2, <3>3, <3>4 DEF PageIs
    <3>6. MoveJob(t)'
      BY <3>5 DEF MoveJob
    <3> QED BY <3>6 DEF JobIs
  <2>4. CASE PruneJob(h, t)
    <3>1. PICK at, page, last :
            /\ job = [pc |-> "prune", at |-> at, page |-> page, heads |-> h, last |-> last]
            /\ Fresh(at) /\ page \subseteq Stored /\ page \subseteq Upto(t) /\ Tip(page) = t
      BY <2>4 DEF PruneJob
    <3>2. Fresh(at)' /\ Tip(page)' = t /\ page \subseteq Stored' /\ page \subseteq Upto(t)'
      BY <1>4, <1>5, <3>1 DEF Tip, Genesis
    <3>3. PruneJob(h, t)'
      BY <3>1, <3>2 DEF PruneJob
    <3> QED BY <3>3 DEF JobIs
  <2> QED BY <1>1, <2>1, <2>2, <2>3, <2>4 DEF JobIs
<1> QED BY <1>2, <1>3, <1>6 DEF Bound

(* The seal, and a sweep that stops. *)
LEMMA BoundSeals ==
  ASSUME Table, Bound, postings' = postings, now' = now, boundary' = boundary,
         job'.pc \notin Archiving,
         \/ checkpoints' = checkpoints
         \/ \E leaves : checkpoints' = Append(checkpoints, [leaves |-> leaves, at |-> now])
  PROVE  Bound'
<1>0. Table' /\ Grows
  BY SameTable, StillGrows
<1>1. PICK h, t : Covers(h, t) /\ JobIs(h, t)
  BY DEF Bound
<1>2. In({"pruned"})' = In({"pruned"})
  BY DEF In
<1>3. Covers(h, t)'
  BY <1>0, <1>1, <1>2, CoversKept DEF Covers
<1>4. SealTimes'
  <2>1. CASE checkpoints' = checkpoints
    BY <2>1 DEF Bound, SealTimes
  <2>2. CASE \E leaves : checkpoints' = Append(checkpoints, [leaves |-> leaves, at |-> now])
    <3>1. PICK e : checkpoints' = Append(checkpoints, e) /\ e.at = now
      BY <2>2
    <3>2. SealTimes /\ now \in Nat
      BY DEF Bound, Table
    <3>3. checkpoints \in Seq({checkpoints[i] : i \in DOMAIN checkpoints})
      BY <3>2 DEF SealTimes
    <3>4. /\ checkpoints' \in Seq({checkpoints'[i] : i \in DOMAIN checkpoints'})
          /\ DOMAIN checkpoints' = DOMAIN checkpoints \cup {Len(checkpoints) + 1}
          /\ \A i \in DOMAIN checkpoints : checkpoints'[i] = checkpoints[i]
          /\ checkpoints'[Len(checkpoints) + 1] = e
      BY <3>1, <3>3, AppendedPosting
    <3> QED BY <3>1, <3>2, <3>4 DEF SealTimes
  <2> QED BY <2>1, <2>2
<1> QED BY <1>3, <1>4 DEF Bound, JobIs

(* A run starts from the boundary as it is stored. *)
LEMMA BoundStart ==
  ASSUME ChainAssumption, Table, Bound, ArchiveStart
  PROVE  Bound'
<1>1. /\ postings' = postings /\ now' = now /\ boundary' = boundary /\ checkpoints' = checkpoints
      /\ checkpoints # <<>> /\ now - Last(checkpoints).at >= CheckpointOlderThan
  BY DEF ArchiveStart
<1>2. CASE job' = Idle
  <2>1. job'.pc \notin Archiving
    BY <1>2 DEF Idle, Archiving
  <2> QED BY <1>1, <2>1, BoundSeals
<1>3. CASE job' = [pc |-> "page", at |-> Last(checkpoints).at,
                   heads |-> boundary.heads, through |-> boundary.through]
  <2>0. Table' /\ Grows
    BY <1>1, SameTable, StillGrows
  <2>1. PICK h, t : Covers(h, t) /\ JobIs(h, t)
    BY DEF Bound
  <2>2. boundary.heads = h /\ boundary.through = t
    BY <2>1 DEF Covers
  <2>3. In({"pruned"})' = In({"pruned"})
    BY <1>1 DEF In
  <2>4. Covers(h, t)'
    BY <1>1, <2>0, <2>1, <2>3, CoversKept DEF Covers
  <2>5. SealTimes
    BY DEF Bound
  <2>6. Last(checkpoints).at \in Nat
    <3>1. /\ checkpoints \in Seq({checkpoints[k] : k \in DOMAIN checkpoints})
          /\ \A k \in DOMAIN checkpoints : checkpoints[k].at \in Nat
      BY <2>5 DEF SealTimes
    <3>2. Len(checkpoints) \in DOMAIN checkpoints
      BY <1>1, <3>1
    <3> QED BY <3>1, <3>2 DEF Last
  <2>7. Fresh(Last(checkpoints).at)
    <3>1. now \in Nat /\ CheckpointOlderThan \in Nat \ {0}
      BY DEF Table, ChainAssumption
    <3>2. PICK at : at = Last(checkpoints).at
      OBVIOUS
    <3>3. at < now /\ at \in Nat
      BY <1>1, <2>6, <3>1, <3>2
    <3> QED BY <3>2, <3>3 DEF Fresh
  <2>8. PICK at : at = Last(checkpoints).at
    OBVIOUS
  <2>9. Fresh(at)'
    BY <1>1, <2>7, <2>8 DEF Fresh
  <2>10. PageJob(h, t)'
    BY <1>3, <2>2, <2>8, <2>9 DEF PageJob
  <2>11. SealTimes'
    BY <1>1, <2>5 DEF SealTimes
  <2> QED BY <2>4, <2>10, <2>11 DEF Bound, JobIs
<1> QED BY <1>2, <1>3 DEF ArchiveStart, Start

-----------------------------------------------------------------------------
(* A page of the archive. *)

(* What a page takes is everything committed past the boundary, up to the  *)
(* page's own tip, and none of it is younger than the checkpoint.          *)
LEMMA PageIsNext ==
  ASSUME ChainAssumption, Table, NEW t \in Nat, In({"pruned"}) \subseteq Upto(t),
         NEW at, NEW page, page = SealedPrefix(PageAfter(t), at), page # {}
  PROVE  /\ page \subseteq Stored /\ Seqs(page) /\ Tip(page) \in page
         /\ page = {i \in Committed : t < i /\ i <= Tip(page)}
         /\ postings[Tip(page)].at <= at
<1> DEFINE rest == {i \in Stored : i > t}
           q == Tip(page)
<1>1. /\ page \subseteq PageAfter(t) /\ PageAfter(t) \subseteq rest /\ rest \subseteq Stored
      /\ Stored \subseteq Committed
  BY CommittedSeqs DEF SealedPrefix, PageAfter
<1>2. Seqs(page)
  BY <1>1, OfSeqs
<1>3. q \in page /\ \A y \in page : y <= q
  BY <1>2, TipOf
<1>4. Committed \subseteq Nat /\ IsFiniteSet(Committed)
  BY CommittedSeqs DEF Seqs
<1>5. postings[q].at <= at
  <2>1. q <= q
    BY <1>1, <1>3, <1>4
  <2> QED BY <1>1, <1>3, <2>1 DEF SealedPrefix
<1>6. ASSUME NEW i \in Committed, t < i, i <= q
      PROVE  i \in page
  <2>1. i \in rest
    <3>1. i \notin In({"pruned"})
      <4>1. \A k \in Upto(t) : k <= t
        BY DEF Upto
      <4>2. i \in Nat
        BY <1>4
      <4> QED BY <1>6, <4>1, <4>2
    <3>2. i \in Stored
      BY <3>1 DEF Committed, Stored, In
    <3> QED BY <1>4, <1>6, <3>2
  <2>2. i \in PageAfter(t)
    <3>1. /\ {j \in rest : j < i} \subseteq {j \in rest : j < q}
          /\ {j \in rest : j < q} \subseteq Committed
      <4>1. rest \subseteq Nat /\ i \in Nat /\ q \in Nat
        BY <1>1, <1>3, <1>4
      <4>2. \A j \in rest : j < i => j < q
        BY <1>6, <4>1
      <4> QED BY <1>1, <4>2
    <3>2. IsFiniteSet({j \in rest : j < q}) /\ IsFiniteSet({j \in rest : j < i})
      BY <1>4, <3>1, FS_Subset
    <3>3. Cardinality({j \in rest : j < i}) <= Cardinality({j \in rest : j < q})
      BY <3>1, <3>2, FS_Subset
    <3>4. Cardinality({j \in rest : j < i}) \in Nat /\ Cardinality({j \in rest : j < q}) \in Nat
      BY <3>2, FS_CardinalityType
    <3>5. Cardinality({j \in rest : j < q}) < Limit
      BY <1>1, <1>3 DEF PageAfter
    <3>6. PageAfter(t) = {k \in rest : Cardinality({j \in rest : j < k}) < Limit}
      BY DEF PageAfter
    <3>7. Cardinality({j \in rest : j < i}) < Limit
      BY <3>3, <3>4, <3>5 DEF ChainAssumption
    <3> QED BY <2>1, <3>6, <3>7
  <2>3. \A j \in PageAfter(t) : j <= i => postings[j].at <= at
    <3> SUFFICES ASSUME NEW j \in PageAfter(t), j <= i PROVE postings[j].at <= at
      OBVIOUS
    <3>1. j <= q
      <4>1. j \in Nat /\ i \in Nat /\ q \in Nat
        BY <1>1, <1>3, <1>4
      <4> QED BY <1>6, <4>1
    <3> QED BY <1>3, <3>1 DEF SealedPrefix
  <2> QED BY <2>2, <2>3 DEF SealedPrefix
<1>7. ASSUME NEW i \in page
      PROVE  i \in Committed /\ t < i /\ i <= q
  <2>1. i \in rest /\ i \in Committed /\ i <= q
    BY <1>1, <1>3
  <2>2. i > t
    BY <2>1
  <2> QED BY <1>4, <2>1, <2>2
<1> HIDE DEF q, rest
<1>8. page = {i \in Committed : t < i /\ i <= q}
  BY <1>6, <1>7
<1> USE DEF q
<1> QED BY <1>1, <1>2, <1>3, <1>5, <1>8

(* Nothing open is left under such a page: an open posting is of this       *)
(* instant, the checkpoint is older, and times follow seqs.                *)
LEMMA PageSettled ==
  ASSUME Table, NEW at, Fresh(at), NEW q \in Committed, postings[q].at <= at
  PROVE  Settled(q)
<1>1. /\ DOMAIN postings = 1..Len(postings) /\ Len(postings) \in Nat
      /\ q \in DOMAIN postings /\ postings \in Seq(Posting) /\ now \in Nat
  BY CommittedSeqs DEF Table
<1>2. q \in Nat /\ q <= Len(postings)
  BY <1>1
<1>3. ASSUME NEW i \in DOMAIN postings, i <= q, postings[i].state = "open"
      PROVE  FALSE
  <2>0. Entry(i) /\ postings[q] \in Posting
    BY <1>1 DEF Table
  <2>1. postings[i].at = now /\ postings[q].at \in Nat /\ at \in Nat /\ at < now
    BY <1>3, <2>0 DEF Entry, Posting, Fresh
  <2>2. CASE i = q
    BY <1>1, <2>1, <2>2
  <2>3. CASE i # q
    <3>1. i < q
      BY <1>1, <1>3, <2>3
    <3>2. postings[i].at <= postings[q].at
      BY <1>1, <3>1 DEF Table, InOrder
    <3> QED BY <1>1, <2>1, <3>2
  <2> QED BY <2>2, <2>3
<1> QED BY <1>2, <1>3 DEF Settled

(* The boundary and the page are, together, the postings up to the page's  *)
(* tip.                                                                    *)
LEMMA PageJoins ==
  ASSUME Table, NEW t \in Nat, NEW page, NEW q \in Nat, t <= q,
         page = {i \in Committed : t < i /\ i <= q}
  PROVE  Follows(Upto(t), page) /\ Upto(t) \cup page = Upto(q)
<1>1. Committed \subseteq Nat
  BY CommittedSeqs DEF Seqs
<1>2. Seqs(Upto(t)) /\ Seqs(page)
  <2>1. Upto(t) \subseteq Committed /\ page \subseteq Committed
    BY DEF Upto
  <2> QED BY <2>1, OfSeqs
<1>3. \A i \in Upto(t), j \in page : i < j
  BY <1>1 DEF Upto
<1>4. Upto(t) \cup page = Upto(q)
  <2>1. ASSUME NEW i \in Committed
        PROVE  i <= q <=> (i <= t \/ (t < i /\ i <= q))
    <3>1. i \in Nat
      BY <1>1
    <3> QED BY <3>1
  <2>2. \A i : i \in Upto(q) <=> i \in Upto(t) \/ i \in page
    BY <2>1 DEF Upto
  <2> QED BY <2>2
<1> QED BY <1>2, <1>3, <1>4 DEF Follows

(* Each link of such a page extends the boundary's head of its account, or *)
(* the link before it in the page: verifyPage has nothing to refuse.       *)
LEMMA PageVerifies ==
  ASSUME Table, NEW t \in Nat, NEW page, NEW q \in Nat,
         page = {i \in Committed : t < i /\ i <= q}
  PROVE  VerifyPage(page, HeadsOf(Upto(t)))
<1>1. /\ Committed \subseteq Nat \ {0} /\ IsFiniteSet(Committed) /\ Committed \subseteq DOMAIN postings
  BY CommittedSeqs DEF Seqs
<1>2. ASSUME NEW a \in Accounts, NEW j \in Of(page, a)
      PROVE  postings[j].prev[a]
               = IF j = Min(Of(page, a))
                 THEN (IF a \in DOMAIN HeadsOf(Upto(t)) THEN HeadsOf(Upto(t))[a].head ELSE Genesis)
                 ELSE Max({i \in Of(page, a) : i < j})
  <2>1. j \in Committed /\ a \in Touched(j) /\ t < j /\ j <= q
    BY DEF Of
  <2>2. postings[j].prev[a] = Tip(Below(j, a))
    BY <1>1, <2>1 DEF Table, Entry
  <2>3. Of(page, a) \subseteq Nat /\ Of(page, a) # {}
    BY <1>1 DEF Of
  <2>4. Min(Of(page, a)) \in Of(page, a) /\ \A y \in Of(page, a) : Min(Of(page, a)) <= y
    BY <2>3, MinOf
  <2>5. CASE j = Min(Of(page, a))
    <3>1. Below(j, a) = Of(Upto(t), a)
      <4>1. ASSUME NEW k \in Below(j, a) PROVE k \in Of(Upto(t), a)
        <5>1. k \in Committed /\ a \in Touched(k) /\ k < j /\ k \in Nat /\ j \in Nat
          BY <1>1, <2>1, <4>1 DEF Below, Of
        <5>2. CASE k <= t
          BY <5>1, <5>2 DEF Upto, Of
        <5>3. CASE ~(k <= t)
          <6>1. k \in page
            BY <2>1, <5>1, <5>3
          <6>2. k \in Of(page, a)
            BY <5>1, <6>1 DEF Of
          <6>3. j <= k
            BY <2>4, <2>5, <6>2
          <6> QED BY <5>1, <6>3
        <5> QED BY <5>2, <5>3
      <4>2. ASSUME NEW k \in Of(Upto(t), a) PROVE k \in Below(j, a)
        <5>1. k \in Committed /\ a \in Touched(k) /\ k <= t /\ k \in Nat /\ j \in Nat
          BY <1>1, <2>1, <4>2 DEF Upto, Of
        <5> QED BY <2>1, <5>1 DEF Below, Of
      <4> QED BY <4>1, <4>2
    <3>2. a \in DOMAIN HeadsOf(Upto(t)) <=> Of(Upto(t), a) # {}
      BY DEF HeadsOf
    <3>3. CASE Of(Upto(t), a) # {}
      <4>1. HeadsOf(Upto(t))[a].head = Tip(Of(Upto(t), a))
        BY <3>3 DEF HeadsOf, Leaf
      <4> QED BY <2>2, <2>5, <3>1, <3>2, <3>3, <4>1
    <3>4. CASE Of(Upto(t), a) = {}
      <4>1. Tip({}) = Genesis
        <5>1. Seqs({})
          BY FS_EmptySet DEF Seqs
        <5> QED BY <5>1, TipOf
      <4>2. Tip(Below(j, a)) = Genesis
        BY <3>1, <3>4, <4>1
      <4> QED BY <2>2, <2>5, <3>2, <3>4, <4>2
    <3> QED BY <3>3, <3>4
  <2>6. CASE j # Min(Of(page, a))
    <3>1. PICK m \in Of(page, a) : m < j
      BY <2>3, <2>4, <2>6
    <3>2. {i \in Of(page, a) : i < j} \subseteq Of(Committed, a) /\ {i \in Of(page, a) : i < j} # {}
      BY <3>1 DEF Of
    <3>3. Seqs({i \in Of(page, a) : i < j})
      <4>1. {i \in Of(page, a) : i < j} \subseteq Committed
        BY <3>2 DEF Of
      <4> QED BY <4>1, OfSeqs
    <3>4. PICK x : x = Max({i \in Of(page, a) : i < j})
      OBVIOUS
    <3>5. x \in Of(page, a) /\ x < j /\ \A y \in {i \in Of(page, a) : i < j} : y <= x
      BY <3>2, <3>3, <3>4, MaxOf DEF Seqs
    <3>6. x \in Below(j, a)
      BY <3>2, <3>5 DEF Below
    <3>7. ASSUME NEW y \in Below(j, a) PROVE y <= x
      <4>1. y \in Committed /\ a \in Touched(y) /\ y < j /\ y \in Nat /\ j \in Nat
        BY <1>1, <2>1, <3>7 DEF Below, Of
      <4>2. x \in page /\ x \in Nat /\ t < x
        BY <1>1, <3>5 DEF Of
      <4>3. CASE y <= t
        BY <4>1, <4>2, <4>3
      <4>4. CASE ~(y <= t)
        <5>1. y \in page
          BY <2>1, <4>1, <4>4
        <5>2. y \in {i \in Of(page, a) : i < j}
          BY <4>1, <5>1 DEF Of
        <5> QED BY <3>5, <5>2
      <4> QED BY <4>3, <4>4
    <3>8. Tip(Below(j, a)) = x
      <4>1. Below(j, a) \subseteq Nat
        BY <1>1 DEF Below, Of
      <4> QED BY <3>6, <3>7, <4>1, TipIs
    <3> QED BY <2>2, <2>6, <3>4, <3>8
  <2> QED BY <2>5, <2>6
<1> QED BY <1>2 DEF VerifyPage, Continuous

-----------------------------------------------------------------------------
(* A run that looks for a page has the boundary and its checkpoint's time. *)
LEMMA PageFacts ==
  ASSUME Table, Bound, job.pc = "page"
  PROVE  \E h, t, at :
            /\ Covers(h, t) /\ t \in Nat
            /\ job = [pc |-> "page", at |-> at, heads |-> h, through |-> t]
            /\ Fresh(at)
<1>1. PICK h, t : Covers(h, t) /\ JobIs(h, t)
  BY DEF Bound
<1>2. t \in Nat
  BY <1>1 DEF Covers, Prefix, Settled
<1>3. PageJob(h, t)
  <2>1. job.pc \in Archiving
    BY DEF Archiving
  <2>2. ~MoveJob(t)
    BY DEF MoveJob, PageIs
  <2>3. ~PruneJob(h, t)
    BY DEF PruneJob
  <2> QED BY <1>1, <2>1, <2>2, <2>3 DEF JobIs
<1> QED BY <1>1, <1>2, <1>3 DEF PageJob

(* A page is taken and verified, or the run ends; it is never refused. *)
LEMMA ArchivePageMoves ==
  ASSUME ChainAssumption, Table, Bound, ArchivePage
  PROVE  /\ job' = Idle /\ refused' = "none" /\ UNCHANGED <<postings, boundary, checkpoints>>
         \/ /\ \E t : boundary.through = t /\ MoveJob(t)'
            /\ refused' = refused
<1>1. PICK h, t, at :
            /\ Covers(h, t) /\ t \in Nat
            /\ job = [pc |-> "page", at |-> at, heads |-> h, through |-> t]
            /\ Fresh(at)
  BY PageFacts DEF ArchivePage
<1>2. PICK all : all = PageAfter(t)
  OBVIOUS
<1>3. PICK page : page = SealedPrefix(all, at)
  OBVIOUS
<1>4. /\ postings' = postings /\ now' = now /\ boundary' = boundary /\ checkpoints' = checkpoints
      /\ \/ page = {} /\ job' = Idle /\ refused' = "none"
         \/ /\ page # {}
            /\ refused' = IF VerifyPage(page, h) THEN refused ELSE "page"
            /\ job' = IF ~VerifyPage(page, h) THEN Idle ELSE
                  [pc |-> "copy", at |-> at, page |-> page,
                   heads |-> Advanced(page, h),
                   last |-> Tip(all) = Tip(Stored) \/ page # all]
  BY <1>1, <1>2, <1>3 DEF ArchivePage, Finish
<1>5. CASE page = {}
  BY <1>4, <1>5
<1>6. CASE page # {}
  <2>1. h = HeadsOf(Upto(t)) /\ In({"pruned"}) \subseteq Upto(t) /\ boundary.through = t /\ Settled(t)
    BY <1>1 DEF Covers, Prefix
  <2>2. /\ page \subseteq Stored /\ Seqs(page) /\ Tip(page) \in page
        /\ page = {i \in Committed : t < i /\ i <= Tip(page)}
        /\ postings[Tip(page)].at <= at
    BY <1>1, <1>2, <1>3, <1>6, <2>1, PageIsNext
  <2>3. PICK q : q = Tip(page)
    OBVIOUS
  <2>4. q \in Committed /\ q \in Nat /\ t < q /\ page = {i \in Committed : t < i /\ i <= q}
    BY <2>2, <2>3, CommittedSeqs DEF Seqs
  <2>5. Settled(q)
    BY <1>1, <2>2, <2>3, <2>4, PageSettled
  <2>6. VerifyPage(page, h)
    BY <1>1, <2>1, <2>4, PageVerifies
  <2>7. t <= q
    BY <1>1, <2>4
  <2>8. Follows(Upto(t), page) /\ Upto(t) \cup page = Upto(q)
    BY <1>1, <2>4, <2>7, PageJoins
  <2>9. Advanced(page, h) = HeadsOf(Upto(q))
    BY <2>1, <2>8, AdvancedJoin
  <2>10. PICK k : k = Advanced(page, h)
    OBVIOUS
  <2>11. Prefix(k, q)
    BY <2>5, <2>9, <2>10 DEF Prefix
  <2>12. Table' /\ Grows
    BY <1>4, SameTable, StillGrows
  <2>13. Prefix(k, q)'
    BY <2>11, <2>12, PrefixKept
  <2>14. PICK last : job' = [pc |-> "copy", at |-> at, page |-> page, heads |-> k, last |-> last]
    BY <1>4, <1>6, <2>6, <2>10
  <2>15. /\ Fresh(at)' /\ q = Tip(page)' /\ page \subseteq Stored'
         /\ page = {i \in Committed' : t < i /\ i <= q}
    BY <1>1, <1>4, <2>2, <2>3, <2>4 DEF Fresh, Tip, Genesis, Stored, Committed, In
  <2>18. PageIs(t, at, page, k, last, q)'
    BY <1>6, <2>13, <2>14, <2>15 DEF PageIs
  <2>16. MoveJob(t)'
    BY <2>18 DEF MoveJob
  <2>17. refused' = refused
    BY <1>4, <1>6, <2>6
  <2> QED BY <2>1, <2>16, <2>17
<1> QED BY <1>5, <1>6

(* The page taken follows the boundary. *)
LEMMA BoundPage ==
  ASSUME ChainAssumption, Table, Bound, ArchivePage
  PROVE  Bound'
<1>1. postings' = postings /\ now' = now /\ boundary' = boundary /\ checkpoints' = checkpoints
  BY DEF ArchivePage
<1>2. CASE job' = Idle
  <2>1. job'.pc \notin Archiving
    BY <1>2 DEF Idle, Archiving
  <2> QED BY <1>1, <2>1, BoundSeals
<1>3. CASE \E t : boundary.through = t /\ MoveJob(t)'
  <2>1. PICK t : boundary.through = t /\ MoveJob(t)'
    BY <1>3
  <2>2. PICK h : Covers(h, t)
    BY <2>1 DEF Bound, Covers
  <2>3. Table' /\ Grows
    BY <1>1, SameTable, StillGrows
  <2>4. In({"pruned"})' = In({"pruned"})
    BY <1>1 DEF In
  <2>5. Covers(h, t)'
    BY <1>1, <2>2, <2>3, <2>4, CoversKept DEF Covers
  <2>6. SealTimes'
    BY <1>1 DEF Bound, SealTimes
  <2> QED BY <2>1, <2>5, <2>6 DEF Bound, JobIs
<1> QED BY <1>2, <1>3, ArchivePageMoves

(* A run with a page under way. *)
LEMMA MoveFacts ==
  ASSUME Bound, job.pc \in {"copy", "boundary"}
  PROVE  \E h, t, at, page, k, last, q :
            Covers(h, t) /\ PageIs(t, at, page, k, last, q)
<1>1. PICK h, t : Covers(h, t) /\ JobIs(h, t)
  BY DEF Bound
<1>2. MoveJob(t)
  <2>1. job.pc \in Archiving
    BY DEF Archiving
  <2>2. ~PageJob(h, t)
    BY DEF PageJob
  <2>3. ~PruneJob(h, t)
    BY DEF PruneJob
  <2> QED BY <1>1, <2>1, <2>2, <2>3 DEF JobIs
<1>3. PICK at, page, k, last, q : PageIs(t, at, page, k, last, q)
  BY <1>2 DEF MoveJob
<1> QED BY <1>1, <1>3

(* Copying the page leaves the boundary behind it. *)
LEMMA BoundCopy ==
  ASSUME Table, Bound, ArchiveCopy
  PROVE  Bound'
<1>1. /\ postings' = postings /\ now' = now /\ boundary' = boundary /\ checkpoints' = checkpoints
      /\ job.pc = "copy" /\ job' = [job EXCEPT !.pc = "boundary"]
  BY DEF ArchiveCopy
<1>11. PICK h, t, at, page, k, last, q : Covers(h, t) /\ PageIs(t, at, page, k, last, q)
  BY <1>1, MoveFacts
<1>2. /\ Covers(h, t)
      /\ job.pc \in {"copy", "boundary"}
      /\ job = [pc |-> job.pc, at |-> at, page |-> page, heads |-> k, last |-> last]
      /\ Fresh(at) /\ q = Tip(page) /\ page # {} /\ page \subseteq Stored
      /\ page = {i \in Committed : t < i /\ i <= q}
      /\ Prefix(k, q)
  BY <1>11 DEF PageIs
<1>3. job' = [pc |-> "boundary", at |-> at, page |-> page, heads |-> k, last |-> last]
  BY <1>1, <1>2
<1>4. Table' /\ Grows
  BY <1>1, SameTable, StillGrows
<1>5. Prefix(k, q)'
  BY <1>2, <1>4, PrefixKept
<1>6. /\ Fresh(at)' /\ q = Tip(page)' /\ page \subseteq Stored'
      /\ page = {i \in Committed' : t < i /\ i <= q}
  BY <1>1, <1>2 DEF Fresh, Tip, Genesis, Stored, Committed, In
<1>12. PageIs(t, at, page, k, last, q)'
  BY <1>2, <1>3, <1>5, <1>6 DEF PageIs
<1>7. MoveJob(t)'
  BY <1>12 DEF MoveJob
<1>8. In({"pruned"})' = In({"pruned"})
  BY <1>1 DEF In
<1>9. Covers(h, t)'
  BY <1>1, <1>2, <1>4, <1>8, CoversKept DEF Covers
<1>10. SealTimes'
  BY <1>1 DEF Bound, SealTimes
<1> QED BY <1>7, <1>9, <1>10 DEF Bound, JobIs

(* The boundary stored covers the page. *)
LEMMA BoundPut ==
  ASSUME Table, Bound, PutArchiveBoundary
  PROVE  Bound'
<1>1. /\ postings' = postings /\ now' = now /\ checkpoints' = checkpoints
      /\ job.pc = "boundary" /\ job' = [job EXCEPT !.pc = "prune"]
      /\ boundary' = [heads |-> job.heads, through |-> Tip(job.page)]
  BY DEF PutArchiveBoundary
<1>11. PICK h, t, at, page, k, last, q : Covers(h, t) /\ PageIs(t, at, page, k, last, q)
  BY <1>1, MoveFacts
<1>2. /\ Covers(h, t)
      /\ job.pc \in {"copy", "boundary"}
      /\ job = [pc |-> job.pc, at |-> at, page |-> page, heads |-> k, last |-> last]
      /\ Fresh(at) /\ q = Tip(page) /\ page # {} /\ page \subseteq Stored
      /\ page = {i \in Committed : t < i /\ i <= q}
      /\ Prefix(k, q)
  BY <1>11 DEF PageIs
<1>3. /\ job' = [pc |-> "prune", at |-> at, page |-> page, heads |-> k, last |-> last]
      /\ boundary' = [heads |-> k, through |-> q]
  BY <1>1, <1>2
<1>4. Table' /\ Grows
  BY <1>1, SameTable, StillGrows
<1>5. Prefix(k, q)' /\ Upto(q)' = Upto(q)
  BY <1>2, <1>4, PrefixKept
<1>6. /\ Fresh(at)' /\ q = Tip(page)' /\ page \subseteq Stored'
  BY <1>1, <1>2 DEF Fresh, Tip, Genesis, Stored, Committed, In
<1>7. page \subseteq Upto(q)
  BY <1>2 DEF Upto
<1>8. PruneJob(k, q)'
  BY <1>3, <1>5, <1>6, <1>7 DEF PruneJob
<1>9. In({"pruned"})' \subseteq Upto(q)
  <2>1. In({"pruned"}) \subseteq Upto(t) /\ t \in Nat /\ q \in Nat
    BY <1>2 DEF Covers, Prefix, Settled
  <2>2. PICK i \in page : t < i /\ i <= q /\ i \in Nat
    BY <1>2, CommittedSeqs DEF Seqs
  <2>3. Upto(t) \subseteq Upto(q)
    <3> SUFFICES ASSUME NEW j \in Upto(t) PROVE j \in Upto(q) OBVIOUS
    <3>1. j \in Nat /\ j <= t /\ j \in Committed
      BY CommittedSeqs DEF Seqs, Upto
    <3> QED BY <2>1, <2>2, <3>1 DEF Upto
  <2>4. In({"pruned"})' = In({"pruned"})
    BY <1>1 DEF In
  <2> QED BY <2>1, <2>3, <2>4
<1>10. Covers(k, q)'
  BY <1>3, <1>5, <1>9 DEF Covers
<1>13. SealTimes'
  BY <1>1 DEF Bound, SealTimes
<1> QED BY <1>8, <1>10, <1>13 DEF Bound, JobIs

(* A run about to delete its page. *)
LEMMA PruneFacts ==
  ASSUME Bound, job.pc = "prune"
  PROVE  \E h, t, at, page, last :
            /\ Covers(h, t)
            /\ job = [pc |-> "prune", at |-> at, page |-> page, heads |-> h, last |-> last]
            /\ Fresh(at) /\ page \subseteq Stored /\ page \subseteq Upto(t) /\ Tip(page) = t
<1>1. PICK h, t : Covers(h, t) /\ JobIs(h, t)
  BY DEF Bound
<1>2. PruneJob(h, t)
  <2>1. job.pc \in Archiving
    BY DEF Archiving
  <2>2. ~PageJob(h, t)
    BY DEF PageJob
  <2>3. ~MoveJob(t)
    BY DEF MoveJob, PageIs
  <2> QED BY <1>1, <2>1, <2>2, <2>3 DEF JobIs
<1> QED BY <1>1, <1>2 DEF PruneJob

(* Deleting the page stays under the boundary. *)
LEMMA PruneMoves ==
  ASSUME Table, Bound, Prune
  PROVE  Bound' /\ Table' /\ Grows
<1>1. /\ job.pc = "prune" /\ now' = now /\ boundary' = boundary /\ checkpoints' = checkpoints
      /\ \/ job' = Idle
         \/ job' = [pc |-> "page", at |-> job.at, heads |-> job.heads, through |-> Tip(job.page)]
  BY DEF Prune, Finish
<1>2. PICK h, t, at, page, last :
            /\ Covers(h, t)
            /\ job = [pc |-> "prune", at |-> at, page |-> page, heads |-> h, last |-> last]
            /\ Fresh(at) /\ page \subseteq Stored /\ page \subseteq Upto(t) /\ Tip(page) = t
  BY <1>1, PruneFacts
<1>3. job.page = page
  BY <1>2
<1>4. /\ Table' /\ Grows
      /\ In({"pruned"})' = In({"pruned"}) \cup page
  BY <1>2, <1>3, PruneTable
<1>5. In({"pruned"})' \subseteq Upto(t)
  BY <1>2, <1>4 DEF Covers
<1>6. Covers(h, t)'
  BY <1>1, <1>2, <1>4, <1>5, CoversKept
<1>7. SealTimes'
  BY <1>1 DEF Bound, SealTimes
<1>8. JobIs(h, t)'
  <2>1. CASE job' = Idle
    BY <2>1 DEF Idle, Archiving, JobIs
  <2>2. CASE job' = [pc |-> "page", at |-> job.at, heads |-> job.heads, through |-> Tip(job.page)]
    <3>1. job' = [pc |-> "page", at |-> at, heads |-> h, through |-> t]
      BY <1>2, <2>2
    <3>2. Fresh(at)'
      BY <1>1, <1>2 DEF Fresh
    <3>3. PageJob(h, t)'
      BY <3>1, <3>2 DEF PageJob
    <3> QED BY <3>3 DEF JobIs
  <2> QED BY <1>1, <2>1, <2>2
<1> QED BY <1>4, <1>6, <1>7, <1>8 DEF Bound

-----------------------------------------------------------------------------
(* A posting's own step. *)
LEMMA PostingMoves ==
  ASSUME ChainAssumption, Table,
         \/ \E t \in Transfers : Post(t)
         \/ \E i \in DOMAIN postings : Commit(i) \/ RollBack(i)
  PROVE  /\ Table' /\ Grows
         /\ In({"pruned"})' = In({"pruned"}) /\ Stored \subseteq Stored'
         /\ Stored' \ Stored \subseteq In({"open"})
         /\ UNCHANGED <<now, checkpoints, sealHeads, boundary, sink, job, refused, sweeps, crashes>>
<1>1. CASE \E t \in Transfers : Post(t)
  <2>1. PICK t \in Transfers : Post(t)
    BY <1>1
  <2>2. /\ Table' /\ Grows /\ Committed' = Committed /\ In({"pruned"})' = In({"pruned"})
    BY <2>1, PostTable
  <2>3. Stored' = Stored
    BY <2>2 DEF Committed, Stored, In
  <2> QED BY <2>1, <2>2, <2>3 DEF Post
<1>2. CASE \E i \in DOMAIN postings : Commit(i) \/ RollBack(i)
  <2>1. PICK i, state : state \in {"stored", "void"} /\ Ends(i, state)
    BY <1>2 DEF Commit, RollBack
  <2>2. /\ Table' /\ Grows /\ In({"pruned"})' = In({"pruned"})
        /\ Stored' \subseteq Stored \cup {i} /\ i \in In({"open"})
    BY <2>1, EndsTable
  <2>3. Stored \subseteq Stored'
    <3>1. Committed \subseteq Committed'
      BY <2>2 DEF Grows
    <3> QED BY <2>2, <3>1 DEF Committed, Stored, In
  <2> QED BY <2>1, <2>2, <2>3 DEF Ends
<1> QED BY <1>1, <1>2

(* Every step keeps the table and the boundary. *)
LEMMA BoundStep ==
  ASSUME ChainAssumption, Shape, Table, Bound, [Next]_vars
  PROVE  Table' /\ Bound' /\ Grows
<1>1. CASE \/ \E t \in Transfers : Post(t)
           \/ \E i \in DOMAIN postings : Commit(i) \/ RollBack(i)
  <2>1. /\ Table' /\ Grows /\ In({"pruned"})' = In({"pruned"}) /\ Stored \subseteq Stored'
        /\ UNCHANGED <<now, checkpoints, boundary, job>>
    BY <1>1, PostingMoves
  <2>2. now <= now' /\ now' \in Nat
    BY <2>1 DEF Table
  <2> QED BY <2>1, <2>2, BoundGrows
<1>2. CASE Tick
  <2>1. /\ postings' = postings /\ now' = now + 1 /\ now \in Nat
        /\ UNCHANGED <<checkpoints, boundary, job>>
    BY <1>2 DEF Tick, Table
  <2>2. Table' /\ Grows
    BY <1>2, <2>1, TickTable, StillGrows
  <2>3. In({"pruned"})' = In({"pruned"}) /\ Stored \subseteq Stored' /\ now <= now' /\ now' \in Nat
    BY <2>1 DEF In, Stored
  <2> QED BY <2>1, <2>2, <2>3, BoundGrows
<1>3. CASE UNCHANGED vars
  <2>1. postings' = postings /\ now' = now /\ UNCHANGED <<checkpoints, boundary, job>> /\ now \in Nat
    BY <1>3 DEF vars, Table
  <2>2. Table' /\ Grows
    BY <2>1, SameTable, StillGrows
  <2>3. In({"pruned"})' = In({"pruned"}) /\ Stored \subseteq Stored' /\ now <= now' /\ now' \in Nat
    BY <2>1 DEF In, Stored
  <2> QED BY <2>1, <2>2, <2>3, BoundGrows
<1>4. CASE SealStart \/ SealProve \/ SealPut \/ PutSealHeads \/ SweepDies
  <2>1. postings' = postings /\ now' = now /\ boundary' = boundary
    BY <1>4 DEF SealStart, SealProve, SealPut, PutSealHeads, SweepDies
  <2>2. \/ checkpoints' = checkpoints
        \/ \E leaves : checkpoints' = Append(checkpoints, [leaves |-> leaves, at |-> now])
    BY <1>4 DEF SealStart, SealProve, SealPut, PutSealHeads, SweepDies
  <2>3. job'.pc \notin Archiving
    <3>1. CASE PutSealHeads
      <4>1. /\ job.pc = "snapshot"
            /\ \/ job' = Idle \/ job' = [job EXCEPT !.full = FALSE]
               \/ \E a : job' = [job EXCEPT !.rows = @ \ {a}]
        BY <3>1 DEF PutSealHeads, Finish
      <4> QED BY <4>1 DEF Idle, Archiving, Shape
    <3>2. CASE SealStart \/ SealProve \/ SealPut \/ SweepDies
      BY <3>2 DEF SealStart, SealProve, SealPut, SweepDies, Start, Finish, Idle, Archiving
    <3> QED BY <1>4, <3>1, <3>2
  <2>4. Bound'
    BY <2>1, <2>2, <2>3, BoundSeals
  <2> QED BY <2>1, <2>4, SameTable, StillGrows
<1>5. CASE ArchiveStart
  BY <1>5, BoundStart, SameTable, StillGrows DEF ArchiveStart
<1>6. CASE ArchivePage
  BY <1>6, BoundPage, SameTable, StillGrows DEF ArchivePage
<1>7. CASE ArchiveCopy
  BY <1>7, BoundCopy, SameTable, StillGrows DEF ArchiveCopy
<1>8. CASE PutArchiveBoundary
  BY <1>8, BoundPut, SameTable, StillGrows DEF PutArchiveBoundary
<1>9. CASE Prune
  BY <1>9, PruneMoves
<1> QED BY <1>1, <1>2, <1>3, <1>4, <1>5, <1>6, <1>7, <1>8, <1>9 DEF Next

(* The empty ledger starts with both. *)
LEMMA BoundInit ==
  ASSUME Init
  PROVE  Table /\ Bound
<1>1. /\ postings = <<>> /\ now = 0 /\ checkpoints = <<>> /\ boundary = NoBoundary /\ job = Idle
      /\ DOMAIN postings = {} /\ Len(postings) = 0
  BY DEF Init
<1>2. Table
  BY <1>1 DEF Table
<1>3. SealTimes
  BY <1>1 DEF SealTimes
<1>4. Covers(NoRows, 0)
  <2>1. Committed = {} /\ In({"pruned"}) = {}
    BY <1>1 DEF Committed, In
  <2>2. \A b : Of(Upto(0), b) = {}
    BY <2>1 DEF Upto, Of
  <2>3. HeadsOf(Upto(0)) = NoRows
    BY <2>2 DEF HeadsOf, NoRows
  <2>4. Settled(0)
    BY <1>1 DEF Settled
  <2> QED BY <1>1, <2>1, <2>3, <2>4 DEF Covers, Prefix, NoBoundary
<1>5. JobIs(NoRows, 0)
  BY <1>1 DEF JobIs, Idle, Archiving
<1> QED BY <1>2, <1>3, <1>4, <1>5 DEF Bound

(* The archive moves a strict prefix: what its signed boundary says is the  *)
(* head and the sum of exactly the postings it covers.                     *)
LEMMA BoundGivesPrefix ==
  ASSUME Bound
  PROVE  BoundaryIsPrefix
<1>1. PICK h, t : Covers(h, t)
  BY DEF Bound
<1>2. boundary.heads = h /\ boundary.through = t /\ h = HeadsOf(Upto(t)) /\ In({"pruned"}) \subseteq Upto(t)
  BY <1>1 DEF Covers, Prefix
<1> QED BY <1>2 DEF BoundaryIsPrefix, HeadsOf, Upto

-----------------------------------------------------------------------------
(* Proving the chain. *)

(* The links of an account in a set that leaves out no committed link from  *)
(* its least one on are continuous.                                        *)
LEMMA WholeTail ==
  ASSUME Table, NEW a \in Accounts, NEW L, L \subseteq Of(Committed, a), NEW first,
         \A j \in L, k \in Of(Committed, a) : j <= k => k \in L,
         L # {} => first = postings[Min(L)].prev[a]
  PROVE  Continuous(L, a, first)
<1>1. Committed \subseteq Nat \ {0} /\ Committed \subseteq DOMAIN postings
  BY CommittedSeqs DEF Seqs
<1>2. ASSUME NEW j \in L
      PROVE  postings[j].prev[a] = IF j = Min(L) THEN first ELSE Max({i \in L : i < j})
  <2>1. j \in Committed /\ a \in Touched(j) /\ j \in DOMAIN postings /\ j \in Nat
    BY <1>1 DEF Of
  <2>2. L \subseteq Nat /\ L # {}
    BY <1>1 DEF Of
  <2>3. Min(L) \in L /\ \A y \in L : Min(L) <= y
    BY <2>2, MinOf
  <2>4. CASE j = Min(L)
    BY <2>2, <2>4
  <2>5. CASE j # Min(L)
    <3>1. postings[j].prev[a] = Tip(Below(j, a))
      BY <2>1 DEF Table, Entry
    <3>2. Min(L) \in {i \in L : i < j}
      <4>1. Min(L) \in Nat /\ Min(L) <= j
        BY <2>2, <2>3
      <4> QED BY <2>1, <2>3, <2>5, <4>1
    <3>3. {i \in L : i < j} \subseteq Committed
      BY DEF Of
    <3>4. Seqs({i \in L : i < j})
      BY <3>3, OfSeqs
    <3>5. PICK x : x = Max({i \in L : i < j})
      OBVIOUS
    <3>6. x \in L /\ x < j /\ \A y \in {i \in L : i < j} : y <= x
      BY <3>2, <3>4, <3>5, MaxOf DEF Seqs
    <3>7. x \in Below(j, a)
      BY <3>6 DEF Below
    <3>8. ASSUME NEW y \in Below(j, a) PROVE y <= x
      <4>1. y \in Of(Committed, a) /\ y < j /\ y \in Nat /\ x \in Nat
        BY <1>1, <2>2, <3>6, <3>8 DEF Below, Of
      <4>2. CASE y <= x
        BY <4>2
      <4>3. CASE x <= y
        <5>1. y \in L
          BY <3>6, <4>1, <4>3
        <5> QED BY <3>6, <4>1, <5>1
      <4> QED BY <4>1, <4>2, <4>3
    <3>9. Below(j, a) \subseteq Nat
      BY <1>1 DEF Below, Of
    <3>10. Tip(Below(j, a)) = x
      BY <3>7, <3>8, <3>9, TipIs
    <3> QED BY <2>5, <3>1, <3>5, <3>10
  <2> QED BY <2>4, <2>5
<1> QED BY <1>2 DEF Continuous

(* With nothing left behind a pruned link, every pruned link is before     *)
(* every stored one.                                                       *)
LEMMA PrunedFirst ==
  ASSUME Table, Bound, \A i \in In({"pruned"}), j \in Stranded : i < j
  PROVE  \A i \in In({"pruned"}), j \in Stored : i < j
<1>1. PICK h, t : Covers(h, t)
  BY DEF Bound
<1>2. boundary.through = t /\ In({"pruned"}) \subseteq Upto(t) /\ t \in Nat
  BY <1>1 DEF Covers, Prefix, Settled
<1>3. Committed \subseteq Nat /\ Stored \subseteq Committed
  BY CommittedSeqs DEF Seqs
<1> SUFFICES ASSUME NEW i \in In({"pruned"}), NEW j \in Stored PROVE i < j OBVIOUS
<1>4. i <= t /\ i \in Nat /\ j \in Nat
  BY <1>2, <1>3 DEF Upto
<1>5. CASE j <= t
  BY <1>2, <1>5 DEF Stranded
<1>6. CASE ~(j <= t)
  BY <1>2, <1>4, <1>6
<1> QED BY <1>5, <1>6

(* With no gap, the chain proves from the boundary on. *)
LEMMA ProveChainHolds ==
  ASSUME Table, Bound, \A i \in In({"pruned"}), j \in Stranded : i < j
  PROVE  ProveChain
<1>1. PICK h, t : Covers(h, t)
  BY DEF Bound
<1>2. /\ boundary.heads = HeadsOf(Upto(t)) /\ In({"pruned"}) \subseteq Upto(t)
      /\ t \in Nat
  BY <1>1 DEF Covers, Prefix, Settled
<1>3. /\ Committed \subseteq Nat \ {0} /\ Stored \subseteq Committed
      /\ Committed = Stored \cup In({"pruned"}) /\ Committed \subseteq DOMAIN postings
  BY CommittedSeqs DEF Seqs, Committed, Stored, In
<1>4. \A i \in In({"pruned"}), j \in Stored : i < j
  BY PrunedFirst
<1>5. ASSUME NEW a \in Accounts, Of(Stored, a) # {}
      PROVE  RecomputeAccount(a)
  <2>1. PICK L : L = Of(Stored, a)
    OBVIOUS
  <2>2. L \subseteq Of(Committed, a) /\ L \subseteq Nat /\ L # {} /\ L \subseteq Stored
    BY <1>3, <1>5, <2>1 DEF Of
  <2>3. ASSUME NEW j \in L, NEW k \in Of(Committed, a), j <= k
        PROVE  k \in L
    <3>1. k \in Committed /\ a \in Touched(k) /\ k \in Nat /\ j \in Nat /\ j \in Stored
      BY <1>3, <2>2 DEF Of
    <3>2. k \notin In({"pruned"})
      BY <1>4, <2>3, <3>1
    <3>3. k \in Stored
      BY <1>3, <3>1, <3>2
    <3> QED BY <2>1, <3>1, <3>3 DEF Of
  <2>4. PICK m : m = Min(L)
    OBVIOUS
  <2>5. m \in L /\ \A y \in L : m <= y
    BY <2>2, <2>4, MinOf
  <2>6. m \in DOMAIN postings /\ a \in Touched(m) /\ m \in Nat /\ m \in Stored
    BY <1>3, <2>1, <2>5 DEF Of
  <2>7. postings[m].prev[a] = Tip(Below(m, a))
    BY <2>6 DEF Table, Entry
  <2>8. Below(m, a) = Of(In({"pruned"}), a)
    <3>1. ASSUME NEW k \in Below(m, a) PROVE k \in Of(In({"pruned"}), a)
      <4>1. k \in Committed /\ a \in Touched(k) /\ k < m /\ k \in Nat
        BY <1>3, <3>1 DEF Below, Of
      <4>2. k \notin L
        BY <2>5, <2>6, <4>1
      <4>3. k \notin Stored
        BY <2>1, <4>1, <4>2 DEF Of
      <4> QED BY <1>3, <4>1, <4>3 DEF Of
    <3>2. ASSUME NEW k \in Of(In({"pruned"}), a) PROVE k \in Below(m, a)
      BY <1>3, <1>4, <2>6, <3>2 DEF Below, Of
    <3> QED BY <3>1, <3>2
  <2>9. ASSUME NEW first, first = postings[m].prev[a]
        PROVE  Continuous(L, a, first)
    BY <2>2, <2>3, <2>4, <2>9, WholeTail
  <2>10. a \in DOMAIN boundary.heads <=> Of(Upto(t), a) # {}
    BY <1>2 DEF HeadsOf
  <2>11. Of(In({"pruned"}), a) \subseteq Of(Upto(t), a)
    BY <1>2 DEF Of
  <2>12. CASE a \notin DOMAIN boundary.heads
    <3>1. Below(m, a) = {}
      BY <2>8, <2>10, <2>11, <2>12
    <3>2. Tip({}) = Genesis
      <4>1. Seqs({})
        BY FS_EmptySet DEF Seqs
      <4> QED BY <4>1, TipOf
    <3>3. Continuous(L, a, Genesis)
      BY <2>7, <2>9, <3>1, <3>2
    <3> QED BY <2>1, <2>12, <3>3 DEF RecomputeAccount
  <2>13. CASE a \in DOMAIN boundary.heads
    <3>1. PICK x : x = boundary.heads[a].head
      OBVIOUS
    <3>2. x = Tip(Of(Upto(t), a)) /\ Of(Upto(t), a) # {}
      BY <1>2, <2>10, <2>13, <3>1 DEF HeadsOf, Leaf
    <3>3. Seqs(Of(Upto(t), a)) /\ Upto(t) \subseteq Committed
      <4>1. Upto(t) \subseteq Committed
        BY DEF Upto
      <4> QED BY <4>1, OfSeqs
    <3>4. x \in Of(Upto(t), a) /\ \A y \in Of(Upto(t), a) : y <= x
      BY <3>2, <3>3, TipOf
    <3>5. x \in L \/ postings[m].prev[a] = x
      <4> SUFFICES ASSUME x \notin L PROVE postings[m].prev[a] = x OBVIOUS
      <4>1. x \in Committed /\ a \in Touched(x)
        BY <3>3, <3>4 DEF Of
      <4>2. x \in In({"pruned"})
        BY <1>3, <2>1, <4>1 DEF Of
      <4>3. x \in Below(m, a)
        BY <2>8, <4>1, <4>2 DEF Of
      <4>4. \A y \in Below(m, a) : y <= x
        BY <2>8, <2>11, <3>4
      <4>5. Below(m, a) \subseteq Nat
        BY <1>3 DEF Below, Of
      <4> QED BY <2>7, <4>3, <4>4, <4>5, TipIs
    <3>6. Continuous(L, a, postings[m].prev[a])
      BY <2>9
    <3> QED BY <2>1, <2>4, <2>13, <3>1, <3>5, <3>6 DEF RecomputeAccount
  <2> QED BY <2>12, <2>13
<1>6. DOMAIN HeadSums = {b \in Accounts : Of(Stored, b) # {}}
  BY DEF HeadSums
<1> QED BY <1>5, <1>6 DEF ProveChain

(* The leaves a seal signs. *)

(* Accounts and heads that a seal reads, whatever a stopped run left. *)
LEMMA MergedLeaves ==
  ASSUME Table, Bound, NEW t \in Nat, boundary.heads = HeadsOf(Upto(t)), In({"pruned"}) \subseteq Upto(t)
  PROVE  LET m == MergeArchiveSums(HeadSums)
         IN  /\ m = [a \in {b \in Accounts : Of(Committed, b) # {}} |-> m[a]]
             /\ \A a \in DOMAIN m : m[a].head \in Of(Committed, a)
             /\ (\A i \in In({"pruned"}), j \in Stranded : i < j) =>
                  \A a \in DOMAIN m : m[a].head = Tip(Of(Committed, a))
<1> DEFINE m == MergeArchiveSums(HeadSums)
<1>1. /\ Committed = Stored \cup In({"pruned"}) /\ Upto(t) \subseteq Committed /\ Stored \subseteq Committed
      /\ Committed \subseteq Nat \ {0}
  BY CommittedSeqs DEF Committed, Stored, In, Upto, Seqs
<1>2. DOMAIN HeadSums = {b \in Accounts : Of(Stored, b) # {}}
  BY DEF HeadSums
<1>3. DOMAIN boundary.heads = {b \in Accounts : Of(Upto(t), b) # {}}
  BY DEF HeadsOf
<1>4. \A b : Of(Committed, b) = Of(Stored, b) \cup Of(Upto(t), b)
  BY <1>1 DEF Of
<1>5. DOMAIN HeadSums \cup DOMAIN boundary.heads = {b \in Accounts : Of(Committed, b) # {}}
  BY <1>2, <1>3, <1>4
<1>6. m = [a \in {b \in Accounts : Of(Committed, b) # {}} |-> m[a]]
  BY <1>5 DEF MergeArchiveSums
<1>7. ASSUME NEW a \in Accounts, Of(Committed, a) # {}
      PROVE  /\ m[a].head \in Of(Committed, a)
             /\ (\A i \in In({"pruned"}), j \in Stranded : i < j) => m[a].head = Tip(Of(Committed, a))
  <2>1. m[a] = IF a \notin DOMAIN HeadSums THEN boundary.heads[a]
               ELSE IF a \notin DOMAIN boundary.heads THEN HeadSums[a]
               ELSE [HeadSums[a] EXCEPT !.sum = @ + boundary.heads[a].sum]
    BY <1>5, <1>7 DEF MergeArchiveSums
  <2>2. Seqs(Of(Stored, a)) /\ Seqs(Of(Upto(t), a)) /\ Seqs(Of(Committed, a))
    BY <1>1, OfSeqs
  <2>3. CASE a \notin DOMAIN HeadSums
    <3>1. Of(Stored, a) = {} /\ Of(Upto(t), a) = Of(Committed, a)
      BY <1>2, <1>4, <1>7, <2>3
    <3>2. m[a].head = Tip(Of(Committed, a))
      BY <1>3, <1>7, <2>1, <2>3, <3>1 DEF HeadsOf, Leaf
    <3> QED BY <1>7, <2>2, <3>2, TipOf
  <2>4. CASE a \in DOMAIN HeadSums
    <3>1. Of(Stored, a) # {} /\ HeadSums[a] = [head |-> Tip(Of(Stored, a)), sum |-> Raw(Stored, a)]
      BY <1>2, <2>4 DEF HeadSums, Leaf
    <3>2. m[a].head = Tip(Of(Stored, a))
      BY <2>1, <2>4, <3>1
    <3>3. PICK x : x = Tip(Of(Stored, a))
      OBVIOUS
    <3>4. x \in Of(Stored, a) /\ \A y \in Of(Stored, a) : y <= x
      BY <2>2, <3>1, <3>3, TipOf
    <3>5. x \in Of(Committed, a)
      BY <1>4, <3>4
    <3>6. ASSUME \A i \in In({"pruned"}), j \in Stranded : i < j
          PROVE  Tip(Of(Committed, a)) = x
      <4>1. \A i \in In({"pruned"}), j \in Stored : i < j
        BY <3>6, PrunedFirst
      <4>2. ASSUME NEW y \in Of(Committed, a) PROVE y <= x
        <5>1. y \in Committed /\ a \in Touched(y) /\ x \in Stored /\ x \in Nat /\ y \in Nat
          BY <1>1, <3>4 DEF Of
        <5>2. CASE y \in Stored
          BY <3>4, <5>1, <5>2 DEF Of
        <5>3. CASE y \in In({"pruned"})
          BY <4>1, <5>1, <5>3
        <5> QED BY <1>1, <5>1, <5>2, <5>3
      <4>3. Of(Committed, a) \subseteq Nat
        BY <2>2 DEF Seqs
      <4> QED BY <3>5, <4>2, <4>3, TipIs
    <3> QED BY <3>2, <3>3, <3>5, <3>6
  <2> QED BY <2>3, <2>4
<1> HIDE DEF m
<1>8. DOMAIN m = {b \in Accounts : Of(Committed, b) # {}}
  BY <1>6
<1>9. /\ \A a \in DOMAIN m : m[a].head \in Of(Committed, a)
      /\ (\A i \in In({"pruned"}), j \in Stranded : i < j) =>
            \A a \in DOMAIN m : m[a].head = Tip(Of(Committed, a))
  BY <1>7, <1>8
<1> USE DEF m
<1> QED BY <1>6, <1>9

(* Nothing left behind: the leaves are those of the whole history. *)
LEMMA MergedWhole ==
  ASSUME Table, Bound, Stranded = {}
  PROVE  MergeArchiveSums(HeadSums) = HeadsOf(Committed)
<1>1. PICK h, t : Covers(h, t)
  BY DEF Bound
<1>2. /\ boundary.heads = HeadsOf(Upto(t)) /\ In({"pruned"}) \subseteq Upto(t)
      /\ t \in Nat /\ boundary.through = t
  BY <1>1 DEF Covers, Prefix, Settled
<1>3. /\ Committed = Stored \cup In({"pruned"}) /\ Upto(t) \subseteq Committed /\ Stored \subseteq Committed
      /\ Committed \subseteq Nat \ {0}
  BY CommittedSeqs DEF Committed, Stored, In, Upto, Seqs
<1>4. Upto(t) \cup Stored = Committed
  BY <1>2, <1>3
<1>5. \A j \in Stored : ~(j <= t)
  BY <1>2 DEF Stranded
<1>6. Follows(Upto(t), Stored)
  <2>1. Seqs(Upto(t)) /\ Seqs(Stored)
    BY <1>3, OfSeqs
  <2>2. ASSUME NEW i \in Upto(t), NEW j \in Stored PROVE i < j
    <3>1. i <= t /\ i \in Nat /\ j \in Nat /\ ~(j <= t)
      BY <1>3, <1>5 DEF Upto
    <3> QED BY <1>2, <3>1
  <2> QED BY <2>1, <2>2 DEF Follows
<1>7. DOMAIN HeadSums = {b \in Accounts : Of(Stored, b) # {}}
  BY DEF HeadSums
<1>8. DOMAIN boundary.heads = {b \in Accounts : Of(Upto(t), b) # {}}
  BY <1>2 DEF HeadsOf
<1>9. \A b : Of(Committed, b) = Of(Stored, b) \cup Of(Upto(t), b)
  BY <1>4 DEF Of
<1>10. DOMAIN HeadSums \cup DOMAIN boundary.heads = {b \in Accounts : Of(Committed, b) # {}}
  BY <1>7, <1>8, <1>9
<1>11. ASSUME NEW a \in {b \in Accounts : Of(Committed, b) # {}}
       PROVE  (IF a \notin DOMAIN HeadSums THEN boundary.heads[a]
               ELSE IF a \notin DOMAIN boundary.heads THEN HeadSums[a]
               ELSE [HeadSums[a] EXCEPT !.sum = @ + boundary.heads[a].sum])
               = Leaf(Committed, a)
  <2>0. /\ Of(Stored, a) = {} => Leaf(Committed, a) = Leaf(Upto(t), a)
        /\ Of(Stored, a) # {} =>
             Leaf(Committed, a) = [head |-> Tip(Of(Stored, a)), sum |-> Raw(Stored, a) + Raw(Upto(t), a)]
        /\ Of(Upto(t), a) = {} => Leaf(Committed, a) = Leaf(Stored, a)
    <3>1. /\ Of(Stored, a) = {} => Leaf(Upto(t) \cup Stored, a) = Leaf(Upto(t), a)
          /\ Of(Stored, a) # {} => Leaf(Upto(t) \cup Stored, a)
               = [head |-> Tip(Of(Stored, a)), sum |-> Raw(Stored, a) + Raw(Upto(t), a)]
          /\ Of(Upto(t), a) = {} => Leaf(Upto(t) \cup Stored, a) = Leaf(Stored, a)
      BY <1>6, LeafJoin
    <3> QED BY <1>4, <3>1
  <2>1. CASE a \notin DOMAIN HeadSums
    <3>1. Of(Stored, a) = {} /\ a \in DOMAIN boundary.heads
      BY <1>7, <1>10, <1>11, <2>1
    <3>2. boundary.heads[a] = Leaf(Upto(t), a)
      BY <1>2, <1>8, <3>1 DEF HeadsOf
    <3> QED BY <2>0, <2>1, <3>1, <3>2
  <2>2. CASE a \in DOMAIN HeadSums
    <3>1. Of(Stored, a) # {} /\ HeadSums[a] = Leaf(Stored, a)
      BY <1>7, <2>2 DEF HeadSums
    <3>2. CASE a \notin DOMAIN boundary.heads
      <4>1. Of(Upto(t), a) = {}
        BY <1>8, <1>11, <3>2
      <4> QED BY <2>0, <2>2, <3>1, <3>2, <4>1
    <3>3. CASE a \in DOMAIN boundary.heads
      <4>1. boundary.heads[a].sum = Raw(Upto(t), a)
        BY <1>2, <1>8, <3>3 DEF HeadsOf, Leaf
      <4>2. HeadSums[a] = [head |-> Tip(Of(Stored, a)), sum |-> Raw(Stored, a)]
        BY <3>1 DEF Leaf
      <4>3. [HeadSums[a] EXCEPT !.sum = @ + boundary.heads[a].sum]
              = [head |-> Tip(Of(Stored, a)), sum |-> Raw(Stored, a) + Raw(Upto(t), a)]
        BY <4>1, <4>2
      <4> QED BY <2>0, <2>2, <3>1, <3>3, <4>3
    <3> QED BY <3>2, <3>3
  <2> QED BY <2>1, <2>2
<1> QED BY <1>10, <1>11 DEF MergeArchiveSums, HeadsOf

(* The boundary makes the ledger provable. *)
LEMMA BoundGivesProvable ==
  ASSUME Table, Bound
  PROVE  ProvableUnlessSkipped
BY ProveChainHolds, MergedWhole DEF ProvableUnlessSkipped, HeadsOf

-----------------------------------------------------------------------------
(* What was signed stays true. *)

(* A sum is that of the account's own links. *)
LEMMA RawOf ==
  ASSUME NEW S, NEW T, NEW a, Of(S, a) = Of(T, a)
  PROVE  Raw(S, a) = Raw(T, a)
<1>1. \A i : i \in S /\ a \in Touched(i) <=> i \in T /\ a \in Touched(i)
  BY DEF Of
<1>2. /\ {i \in S : postings[i].debit = a} = {i \in T : postings[i].debit = a}
      /\ {i \in S : postings[i].credit = a} = {i \in T : postings[i].credit = a}
  BY <1>1 DEF Touched
<1> QED BY <1>2 DEF Raw

(* What was signed stays true as the ledger grows. *)
LEMMA SignedKept ==
  ASSUME Table, Table', Grows, crashes' = 0 => crashes = 0, NEW t, Signed(t)
  PROVE  Signed(t)'
<1>1. /\ Committed \subseteq Committed' /\ Committed \subseteq DOMAIN postings
      /\ Committed \subseteq Nat
  BY CommittedSeqs DEF Grows, Seqs
<1>2. \A k \in DOMAIN postings : Touched(k)' = Touched(k)
  BY TouchedKept
<1>3. ASSUME NEW a \in DOMAIN t
      PROVE  /\ t[a].head \in Of(Committed, a)'
             /\ Raw(Upto(t[a].head), a)' = Raw(Upto(t[a].head), a)
  <2>1. PICK h : h = t[a].head
    OBVIOUS
  <2>2. h \in Committed /\ a \in Touched(h) /\ h \in DOMAIN postings /\ h \in Nat
    BY <1>1, <2>1 DEF Signed, Of
  <2>3. h \in Of(Committed, a)'
    BY <1>1, <1>2, <2>2 DEF Of
  <2>4. Below(h, a)' = Below(h, a)
    BY <2>2, BelowKept
  <2>5. Of(Upto(h), a) = Below(h, a) \cup {h}
    <3>1. \A k \in Committed : k <= h <=> (k < h \/ k = h)
      BY <1>1, <2>2
    <3> QED BY <2>2, <3>1 DEF Of, Upto, Below
  <2>6. Committed' \subseteq Nat
    <3>1. postings' \in Seq(Posting)
      BY DEF Table
    <3> QED BY <3>1 DEF Committed, In
  <2>7. Of(Upto(h), a)' = Below(h, a)' \cup {h}
    <3>1. \A k \in Committed' : k <= h <=> (k < h \/ k = h)
      BY <2>2, <2>6
    <3>2. h \in Committed' /\ a \in Touched(h)'
      BY <1>1, <1>2, <2>2
    <3> QED BY <3>1, <3>2 DEF Of, Upto, Below
  <2>8. PICK S : S = Of(Upto(h), a)
    OBVIOUS
  <2>9. S = Of(Upto(h), a)' /\ S \subseteq DOMAIN postings
    BY <1>1, <2>4, <2>5, <2>7, <2>8 DEF Of, Upto
  <2>10. Raw(S, a)' = Raw(S, a)
    BY <2>9, OfKept
  <2>11. Raw(Upto(h), a) = Raw(S, a)
    <3>1. /\ {i \in Upto(h) : postings[i].debit = a} = {i \in S : postings[i].debit = a}
          /\ {i \in Upto(h) : postings[i].credit = a} = {i \in S : postings[i].credit = a}
      BY <2>8 DEF Of, Touched
    <3> QED BY <3>1 DEF Raw
  <2>12. Raw(Upto(h), a)' = Raw(S, a)'
    <3>1. /\ {i \in Upto(h)' : postings'[i].debit = a} = {i \in S : postings'[i].debit = a}
          /\ {i \in Upto(h)' : postings'[i].credit = a} = {i \in S : postings'[i].credit = a}
      BY <2>9 DEF Of, Touched
    <3> QED BY <3>1 DEF Raw
  <2>13. Raw(Upto(h), a)' = Raw(Upto(h), a)
    BY <2>10, <2>11, <2>12
  <2> QED BY <2>1, <2>3, <2>13
<1>4. \A a \in DOMAIN t : t[a].head \in Of(Committed, a)'
  BY <1>3
<1>5. crashes' = 0 =>
        \A a \in DOMAIN t : t[a] = [head |-> t[a].head, sum |-> Raw(Upto(t[a].head), a)']
  BY <1>3 DEF Signed
<1> QED BY <1>4, <1>5 DEF Signed

(* A gap does not close while postings commit. *)
LEMMA GapKept ==
  ASSUME In({"pruned"})' = In({"pruned"}), Stored \subseteq Stored', boundary' = boundary, Gap
  PROVE  Gap'
<1>1. PICK i \in In({"pruned"}), j \in Stranded : j < i
  BY DEF Gap
<1>2. j \in Stranded'
  BY <1>1 DEF Stranded
<1> QED BY <1>1, <1>2 DEF Gap

(* The leaves a seal reads are true, and with no gap they are at or past   *)
(* every sealed head.                                                      *)
LEMMA ReadLeaves ==
  ASSUME Table, Bound, crashes = 0 => Stranded = {}, NEW s, Signed(s)
  PROVE  LET m == MergeArchiveSums(HeadSums)
         IN  /\ Signed(m)
             /\ ~Gap => \A a \in DOMAIN s : a \in DOMAIN m /\ s[a].head <= m[a].head
<1>1. PICK h, t : Covers(h, t)
  BY DEF Bound
<1>2. boundary.heads = HeadsOf(Upto(t)) /\ In({"pruned"}) \subseteq Upto(t) /\ t \in Nat
  BY <1>1 DEF Covers, Prefix, Settled
<1>3. PICK m : m = MergeArchiveSums(HeadSums)
  OBVIOUS
<1>4. /\ m = [a \in {b \in Accounts : Of(Committed, b) # {}} |-> m[a]]
      /\ \A a \in DOMAIN m : m[a].head \in Of(Committed, a)
      /\ (\A i \in In({"pruned"}), j \in Stranded : i < j) =>
           \A a \in DOMAIN m : m[a].head = Tip(Of(Committed, a))
  BY <1>2, <1>3, MergedLeaves
<1>5. DOMAIN m = {b \in Accounts : Of(Committed, b) # {}} /\ m = [a \in DOMAIN m |-> m[a]]
  BY <1>4
<1>6. ASSUME crashes = 0, NEW a \in DOMAIN m
      PROVE  m[a] = [head |-> m[a].head, sum |-> Raw(Upto(m[a].head), a)]
  <2>1. m = HeadsOf(Committed)
    BY <1>3, <1>6, MergedWhole
  <2>2. m[a] = [head |-> Tip(Of(Committed, a)), sum |-> Raw(Committed, a)]
    BY <1>5, <1>6, <2>1 DEF HeadsOf, Leaf
  <2>3. PICK x : x = Tip(Of(Committed, a))
    OBVIOUS
  <2>4. \A y \in Of(Committed, a) : y <= x
    <3>1. Seqs(Of(Committed, a))
      BY OfSeqs
    <3> QED BY <2>3, <3>1, TipOf
  <2>5. Of(Upto(x), a) = Of(Committed, a)
    BY <2>4 DEF Of, Upto
  <2>6. Raw(Upto(x), a) = Raw(Committed, a)
    BY <2>5, RawOf
  <2> QED BY <2>2, <2>3, <2>6
<1>7. Signed(m)
  BY <1>4, <1>5, <1>6 DEF Signed
<1>8. ASSUME ~Gap, NEW a \in DOMAIN s
      PROVE  a \in DOMAIN m /\ s[a].head <= m[a].head
  <2>1. a \in Accounts /\ s[a].head \in Of(Committed, a)
    BY DEF Signed
  <2>2. a \in DOMAIN m
    BY <1>5, <2>1
  <2>3. \A i \in In({"pruned"}), j \in Stranded : i < j
    <3> SUFFICES ASSUME NEW i \in In({"pruned"}), NEW j \in Stranded PROVE i < j OBVIOUS
    <3>1. i # j /\ i \in Nat /\ j \in Nat
      <4>1. postings[i].state = "pruned" /\ postings[j].state = "stored"
        BY DEF Stranded, Stored, In
      <4>2. i \in Committed /\ j \in Committed
        BY DEF Stranded, Stored, Committed, In
      <4> QED BY <4>1, <4>2, CommittedSeqs DEF Seqs
    <3>2. ~(j < i)
      BY <1>8 DEF Gap
    <3> QED BY <3>1, <3>2
  <2>4. m[a].head = Tip(Of(Committed, a))
    BY <1>4, <2>2, <2>3
  <2>5. Seqs(Of(Committed, a))
    BY OfSeqs
  <2>6. \A y \in Of(Committed, a) : y <= Tip(Of(Committed, a))
    BY <2>5, TipOf
  <2> QED BY <2>1, <2>2, <2>4, <2>6
<1> QED BY <1>3, <1>7, <1>8

-----------------------------------------------------------------------------
(* The leaves, through each step. *)

(* A step that counts no crash follows none. *)
LEMMA CrashesKept ==
  ASSUME crashes \in Nat, [Next]_vars
  PROVE  /\ crashes' \in Nat /\ (crashes' = 0 => crashes = 0)
         /\ crashes' = crashes \/ (SweepDies /\ crashes' > 0)
<1>1. CASE SweepDies
  <2>1. crashes' = crashes + 1
    BY <1>1 DEF SweepDies
  <2> QED BY <1>1, <2>1
<1>2. CASE ~SweepDies
  <2>1. crashes' = crashes
    BY <1>2 DEF Next, vars, Post, Commit, RollBack, Ends, Tick, SealStart, SealProve, SealPut,
                PutSealHeads, ArchiveStart, ArchivePage, ArchiveCopy, PutArchiveBoundary, Prune
  <2> QED BY <2>1
<1> QED BY <1>1, <1>2

(* Steps that leave the snapshot alone, and the seal if there is one. *)
LEMMA LeavesKept ==
  ASSUME Table, Table', Grows, Seals, crashes' \in Nat, crashes' = 0 => crashes = 0,
         sealHeads' = sealHeads,
         \/ job'.pc \notin Sealing
         \/ job' = job /\ (Gap => Gap')
  PROVE  Seals'
<1>1. PICK s : Leaves(s)
  BY DEF Seals
<1>2. sealHeads' = s /\ Signed(s)'
  BY <1>1, SignedKept DEF Leaves
<1>3. CASE job'.pc \notin Sealing
  BY <1>2, <1>3 DEF Seals, Leaves
<1>4. CASE job' = job /\ (Gap => Gap')
  <2>1. CASE job.pc \notin Sealing
    BY <1>3, <1>4, <2>1
  <2>2. CASE ProveJob(s)
    <3>1. PICK l : /\ job = [pc |-> "prove", leaves |-> l] /\ Signed(l)
                   /\ ~Gap => \A a \in DOMAIN s : a \in DOMAIN l /\ s[a].head <= l[a].head
      BY <2>2 DEF ProveJob
    <3>2. Signed(l)'
      BY <3>1, SignedKept
    <3>3. ProveJob(s)'
      BY <1>4, <3>1, <3>2 DEF ProveJob
    <3> QED BY <1>2, <3>3 DEF Seals, Leaves
  <2>3. CASE SignJob(s)
    <3>1. PICK l, full :
            /\ full \in BOOLEAN
            /\ job = [pc |-> "sign", leaves |-> l, full |-> full] /\ Signed(l)
            /\ ~full => DOMAIN s \subseteq DOMAIN l
      BY <2>3 DEF SignJob
    <3>2. Signed(l)'
      BY <3>1, SignedKept
    <3>3. SignJob(s)'
      BY <1>4, <3>1, <3>2 DEF SignJob
    <3> QED BY <1>2, <3>3 DEF Seals, Leaves
  <2>4. CASE SnapshotJob
    <3>1. PICK l, rows, full :
            /\ full \in BOOLEAN
            /\ job = [pc |-> "snapshot", leaves |-> l, full |-> full, rows |-> rows]
            /\ Signed(l) /\ rows \subseteq DOMAIN l
      BY <2>4 DEF SnapshotJob, SnapshotIs
    <3>2. Signed(l)'
      BY <3>1, SignedKept
    <3>3. SnapshotIs(l, full, rows)'
      BY <1>4, <3>1, <3>2 DEF SnapshotIs
    <3>4. SnapshotJob'
      BY <3>3 DEF SnapshotJob
    <3> QED BY <1>2, <3>4 DEF Seals, Leaves
  <2> QED BY <1>1, <2>1, <2>2, <2>3, <2>4 DEF Leaves
<1> QED BY <1>3, <1>4

(* A seal reads leaves that are heads of committed postings. *)
LEMMA LeavesRead ==
  ASSUME Table, Bound, Seals, Unbroken, SealStart
  PROVE  Seals'
<1>1. /\ postings' = postings /\ now' = now /\ boundary' = boundary /\ sealHeads' = sealHeads
      /\ crashes' = crashes /\ job.pc = "idle"
      /\ job' = [pc |-> "prove", leaves |-> MergeArchiveSums(HeadSums)]
  BY DEF SealStart, Start, Idle
<1>2. PICK s : Leaves(s)
  BY DEF Seals
<1>3. Table' /\ Grows
  BY <1>1, SameTable, StillGrows
<1>4. crashes = 0 => Stranded = {}
  BY <1>1 DEF Unbroken, LeftBehind
<1>5. PICK l : l = MergeArchiveSums(HeadSums)
  OBVIOUS
<1>6. Signed(l) /\ (~Gap => \A a \in DOMAIN s : a \in DOMAIN l /\ s[a].head <= l[a].head)
  BY <1>2, <1>4, <1>5, ReadLeaves DEF Leaves
<1>7. Signed(l)' /\ Signed(s)'
  BY <1>1, <1>2, <1>3, <1>6, SignedKept DEF Leaves
<1>8. Gap' <=> Gap
  BY <1>1 DEF Gap, Stranded, Stored, In
<1>9. ProveJob(s)'
  BY <1>1, <1>5, <1>6, <1>7, <1>8 DEF ProveJob
<1> QED BY <1>1, <1>2, <1>7, <1>9 DEF Seals, Leaves

(* Proving them changes nothing of what was read. *)
LEMMA LeavesProved ==
  ASSUME Table, Seals, SealProve
  PROVE  Seals'
<1>1. /\ postings' = postings /\ now' = now /\ boundary' = boundary /\ sealHeads' = sealHeads
      /\ crashes' = crashes /\ job.pc = "prove"
      /\ \/ job' = Idle
         \/ /\ SealProves(job.leaves)
            /\ job' = [pc |-> "sign", leaves |-> job.leaves, full |-> ~AuthenticSnapshot]
  BY DEF SealProve, Finish
<1>2. PICK s : Leaves(s)
  BY DEF Seals
<1>3. Table' /\ Grows
  BY <1>1, SameTable, StillGrows
<1>4. CASE job' = Idle
  <2>1. job'.pc \notin Sealing
    BY <1>4 DEF Idle, Sealing
  <2>2. crashes' \in Nat
    BY <1>1 DEF Seals
  <2> QED BY <1>1, <1>3, <2>1, <2>2, LeavesKept
<1>5. CASE /\ SealProves(job.leaves)
           /\ job' = [pc |-> "sign", leaves |-> job.leaves, full |-> ~AuthenticSnapshot]
  <2>1. PICK l : job = [pc |-> "prove", leaves |-> l] /\ Signed(l)
    BY <1>1, <1>2 DEF Leaves, ProveJob, SignJob, SnapshotJob, SnapshotIs, Sealing
  <2>2. job.leaves = l
    BY <2>1
  <2>3. PICK full \in BOOLEAN : full = ~AuthenticSnapshot
    OBVIOUS
  <2>4. job' = [pc |-> "sign", leaves |-> l, full |-> full]
    BY <1>5, <2>2, <2>3
  <2>5. ~full => DOMAIN s \subseteq DOMAIN l
    BY <1>2, <1>5, <2>2, <2>3 DEF SealProves, Leaves
  <2>6. Signed(l)' /\ Signed(s)'
    BY <1>1, <1>2, <1>3, <2>1, SignedKept DEF Leaves
  <2>7. SignJob(s)'
    BY <2>4, <2>5, <2>6 DEF SignJob
  <2> QED BY <1>1, <1>2, <2>6, <2>7 DEF Seals, Leaves
<1> QED BY <1>1, <1>4, <1>5

(* Signing a checkpoint hands its leaves to the snapshot. *)
LEMMA LeavesPut ==
  ASSUME Table, Seals, SealPut
  PROVE  Seals'
<1>1. /\ postings' = postings /\ now' = now /\ boundary' = boundary /\ sealHeads' = sealHeads
      /\ crashes' = crashes /\ job.pc = "sign"
      /\ job' = [pc |-> "snapshot", leaves |-> job.leaves, full |-> job.full,
                 rows |-> IF job.full THEN DOMAIN job.leaves ELSE Dirty(job.leaves)]
  BY DEF SealPut
<1>2. PICK s : Leaves(s)
  BY DEF Seals
<1>3. Table' /\ Grows
  BY <1>1, SameTable, StillGrows
<1>4. PICK l, full : full \in BOOLEAN /\ job = [pc |-> "sign", leaves |-> l, full |-> full] /\ Signed(l)
  BY <1>1, <1>2 DEF Leaves, ProveJob, SignJob, SnapshotJob, SnapshotIs, Sealing
<1>5. PICK rows : rows = IF job.full THEN DOMAIN job.leaves ELSE Dirty(job.leaves)
  OBVIOUS
<1>6. job' = [pc |-> "snapshot", leaves |-> l, full |-> full, rows |-> rows]
  BY <1>1, <1>4, <1>5
<1>7. Signed(l)' /\ Signed(s)'
  BY <1>1, <1>2, <1>3, <1>4, SignedKept DEF Leaves
<1>9. rows \subseteq DOMAIN l
  BY <1>4, <1>5 DEF Dirty
<1>10. SnapshotIs(l, full, rows)'
  BY <1>4, <1>6, <1>7, <1>9 DEF SnapshotIs
<1>8. SnapshotJob'
  BY <1>10 DEF SnapshotJob
<1> QED BY <1>1, <1>2, <1>7, <1>8 DEF Seals, Leaves

(* The snapshot is written from signed leaves, row by row. *)
LEMMA LeavesWritten ==
  ASSUME Table, Seals, PutSealHeads
  PROVE  Seals'
<1>1. /\ postings' = postings /\ now' = now /\ boundary' = boundary /\ crashes' = crashes
      /\ job.pc = "snapshot"
  BY DEF PutSealHeads
<1>2. PICK s : Leaves(s)
  BY DEF Seals
<1>3. Table' /\ Grows
  BY <1>1, SameTable, StillGrows
<1>4. PICK l, rows, full :
        /\ full \in BOOLEAN
        /\ job = [pc |-> "snapshot", leaves |-> l, full |-> full, rows |-> rows]
        /\ Signed(l) /\ rows \subseteq DOMAIN l
  BY <1>1, <1>2 DEF Leaves, ProveJob, SignJob, SnapshotJob, SnapshotIs, Sealing
<1>5. Signed(l)' /\ Signed(s)' /\ sealHeads = s /\ crashes' \in Nat
  BY <1>1, <1>2, <1>3, <1>4, SignedKept DEF Leaves, Seals
<1>6. CASE full /\ sealHeads' = NoRows /\ job' = [job EXCEPT !.full = FALSE]
  <2>1. job' = [pc |-> "snapshot", leaves |-> l, full |-> FALSE, rows |-> rows]
    BY <1>4, <1>6
  <2>5. SnapshotIs(l, FALSE, rows)'
    BY <1>4, <1>5, <2>1 DEF SnapshotIs
  <2>2. SnapshotJob'
    BY <2>5 DEF SnapshotJob
  <2>3. PICK r : r = NoRows
    OBVIOUS
  <2>4. Signed(r)'
    BY <2>3 DEF Signed, NoRows
  <2> QED BY <1>5, <1>6, <2>2, <2>3, <2>4 DEF Seals, Leaves
<1>7. CASE \E a \in rows : /\ sealHeads' = [b \in DOMAIN sealHeads \cup {a} |-> IF b = a THEN l[a] ELSE sealHeads[b]]
                           /\ job' = [job EXCEPT !.rows = @ \ {a}]
  <2>1. PICK a \in rows : /\ sealHeads' = [b \in DOMAIN sealHeads \cup {a} |-> IF b = a THEN l[a] ELSE sealHeads[b]]
                          /\ job' = [job EXCEPT !.rows = @ \ {a}]
    BY <1>7
  <2>2. job' = [pc |-> "snapshot", leaves |-> l, full |-> full, rows |-> rows \ {a}]
    BY <1>4, <2>1
  <2>3. PICK rest : rest = rows \ {a}
    OBVIOUS
  <2>4. SnapshotJob'
    <3>1. rest \subseteq DOMAIN l
      BY <1>4, <2>3
    <3>2. job' = [pc |-> "snapshot", leaves |-> l, full |-> full, rows |-> rest]
      BY <2>2, <2>3
    <3>3. SnapshotIs(l, full, rest)'
      BY <1>4, <1>5, <3>1, <3>2 DEF SnapshotIs
    <3> QED BY <3>3 DEF SnapshotJob
  <2>5. PICK r : r = [b \in DOMAIN s \cup {a} |-> IF b = a THEN l[a] ELSE s[b]]
    OBVIOUS
  <2>6. /\ DOMAIN r = DOMAIN s \cup {a} /\ r = [b \in DOMAIN r |-> r[b]]
        /\ r[a] = l[a] /\ \A b \in DOMAIN s : b # a => r[b] = s[b]
    BY <1>4, <2>1, <2>5
  <2>7. Signed(r)'
    <3>1. a \in DOMAIN l
      BY <1>4, <2>1
    <3>2. DOMAIN r \subseteq Accounts
      BY <1>5, <2>6, <3>1 DEF Signed
    <3>3. ASSUME NEW b \in DOMAIN r
          PROVE  /\ r[b].head \in Of(Committed, b)'
                 /\ crashes' = 0 => r[b] = [head |-> r[b].head, sum |-> Raw(Upto(r[b].head), b)']
      <4>1. CASE b = a
        BY <1>5, <2>6, <3>1, <4>1 DEF Signed
      <4>2. CASE b # a
        <5>1. b \in DOMAIN s /\ r[b] = s[b]
          BY <2>6, <3>3, <4>2
        <5> QED BY <1>5, <5>1 DEF Signed
      <4> QED BY <4>1, <4>2
    <3> QED BY <2>6, <3>2, <3>3 DEF Signed
  <2> QED BY <1>5, <2>1, <2>4, <2>5, <2>7 DEF Seals, Leaves
<1>8. CASE job' = Idle /\ sealHeads' = sealHeads
  <2>1. job'.pc \notin Sealing
    BY <1>8 DEF Idle, Sealing
  <2> QED BY <1>1, <1>3, <1>5, <1>8, <2>1, LeavesKept
<1>9. job.full = full /\ job.rows = rows /\ job.leaves = l
  BY <1>4
<1>10. \/ full /\ sealHeads' = NoRows /\ job' = [job EXCEPT !.full = FALSE]
       \/ \E a \in rows : /\ sealHeads' = [b \in DOMAIN sealHeads \cup {a} |-> IF b = a THEN l[a] ELSE sealHeads[b]]
                           /\ job' = [job EXCEPT !.rows = @ \ {a}]
       \/ job' = Idle /\ sealHeads' = sealHeads
  BY <1>9 DEF PutSealHeads, Finish
<1> QED BY <1>6, <1>7, <1>8, <1>10

(* Every step keeps the snapshot and the leaves under way. *)
LEMMA SealsStep ==
  ASSUME ChainAssumption, Shape, Table, Bound, Seals, Unbroken, [Next]_vars
  PROVE  Seals'
<1>1. Table' /\ Grows
  BY BoundStep
<1>2. crashes' \in Nat /\ (crashes' = 0 => crashes = 0)
  BY CrashesKept DEF Seals
<1>3. CASE \/ \E t \in Transfers : Post(t)
           \/ \E i \in DOMAIN postings : Commit(i) \/ RollBack(i)
  <2>1. /\ In({"pruned"})' = In({"pruned"}) /\ Stored \subseteq Stored'
        /\ UNCHANGED <<boundary, sealHeads, job>>
    BY <1>3, PostingMoves
  <2>2. Gap => Gap'
    BY <2>1, GapKept
  <2> QED BY <1>1, <1>2, <2>1, <2>2, LeavesKept
<1>4. CASE Tick \/ UNCHANGED vars
  <2>1. postings' = postings /\ boundary' = boundary /\ sealHeads' = sealHeads /\ job' = job
    BY <1>4 DEF Tick, vars
  <2>2. Gap => Gap'
    BY <2>1 DEF Gap, Stranded, Stored, In
  <2> QED BY <1>1, <1>2, <2>1, <2>2, LeavesKept
<1>5. CASE SealStart
  BY <1>5, LeavesRead
<1>6. CASE SealProve
  BY <1>6, LeavesProved
<1>7. CASE SealPut
  BY <1>7, LeavesPut
<1>8. CASE PutSealHeads
  BY <1>8, LeavesWritten
<1>9. CASE \/ ArchiveStart \/ ArchivePage \/ ArchiveCopy \/ PutArchiveBoundary \/ Prune
           \/ SweepDies
  <2>1. sealHeads' = sealHeads
    BY <1>9 DEF ArchiveStart, ArchivePage, ArchiveCopy, PutArchiveBoundary, Prune, SweepDies
  <2>2. job'.pc \notin Sealing
    <3>1. CASE ArchiveStart \/ Prune \/ SweepDies
      BY <3>1 DEF ArchiveStart, Prune, SweepDies, Start, Finish, Idle, Sealing
    <3>2. CASE ArchivePage
      <4>1. job' = Idle \/ job'.pc = "copy"
        <5>1. \/ job' = Idle
              \/ \E page, heads, last, at :
                    job' = [pc |-> "copy", at |-> at, page |-> page, heads |-> heads, last |-> last]
          BY <3>2 DEF ArchivePage, Finish
        <5> QED BY <5>1
      <4> QED BY <4>1 DEF Idle, Sealing
    <3>3. CASE ArchiveCopy \/ PutArchiveBoundary
      <4>1. "pc" \in DOMAIN job
        BY DEF Shape
      <4>2. job'.pc \in {"boundary", "prune"}
        BY <3>3, <4>1 DEF ArchiveCopy, PutArchiveBoundary
      <4> QED BY <4>2 DEF Sealing
    <3> QED BY <1>9, <3>1, <3>2, <3>3
  <2> QED BY <1>1, <1>2, <2>1, <2>2, LeavesKept
<1> QED BY <1>3, <1>4, <1>5, <1>6, <1>7, <1>8, <1>9 DEF Next

-----------------------------------------------------------------------------
(* Without a stopped sweep nothing is left behind the boundary but the page *)
(* about to go.                                                            *)
LEMMA LeftStep ==
  ASSUME ChainAssumption, Table, Bound, LeftBehind, [Next]_vars, ~SweepDies,
         "pc" \in DOMAIN job
  PROVE  LeftBehind'
<1>1. CASE \/ \E t \in Transfers : Post(t)
           \/ \E i \in DOMAIN postings : Commit(i) \/ RollBack(i)
  <2>1. /\ Stored' \ Stored \subseteq In({"open"}) /\ boundary' = boundary /\ job' = job
    BY <1>1, PostingMoves
  <2>2. PICK h, t : Covers(h, t)
    BY DEF Bound
  <2>3. boundary.through = t /\ \A i \in DOMAIN postings : i <= t => postings[i].state # "open"
    BY <2>2 DEF Covers, Prefix, Settled
  <2>4. \A i \in In({"open"}) : ~(i <= t)
    BY <2>3 DEF In
  <2>5. Stranded' \subseteq Stranded
    BY <2>1, <2>3, <2>4 DEF Stranded
  <2> QED BY <2>1, <2>5 DEF LeftBehind
<1>2. CASE UNCHANGED <<postings, boundary>> /\ (job' = job \/ {job.pc, job'.pc} \cap {"prune"} = {})
  <2>1. Stranded' = Stranded
    BY <1>2 DEF Stranded, Stored, In
  <2> QED BY <1>2, <2>1 DEF LeftBehind
<1>3. CASE Tick \/ UNCHANGED vars
  BY <1>2, <1>3 DEF Tick, vars
<1>4. CASE SealStart \/ SealProve \/ SealPut \/ ArchiveStart
  BY <1>2, <1>4 DEF SealStart, SealProve, SealPut, ArchiveStart, Start, Finish, Idle
<1>5. CASE PutSealHeads
  <2>1. /\ job.pc = "snapshot" /\ UNCHANGED <<postings, boundary>>
        /\ \/ job' = Idle \/ job' = [job EXCEPT !.full = FALSE]
           \/ \E a : job' = [job EXCEPT !.rows = @ \ {a}]
    BY <1>5 DEF PutSealHeads, Finish
  <2>2. job'.pc # "prune"
    BY <2>1 DEF Idle
  <2> QED BY <1>2, <2>1, <2>2
<1>6. CASE ArchivePage
  <2>1. /\ job.pc = "page" /\ UNCHANGED <<postings, boundary>>
        /\ \/ job' = Idle
           \/ \E page, heads, last, at :
                 job' = [pc |-> "copy", at |-> at, page |-> page, heads |-> heads, last |-> last]
    BY <1>6 DEF ArchivePage, Finish
  <2>2. job'.pc # "prune"
    BY <2>1 DEF Idle
  <2> QED BY <1>2, <2>1, <2>2
<1>7. CASE ArchiveCopy
  <2>1. /\ job.pc = "copy" /\ UNCHANGED <<postings, boundary>>
        /\ job' = [job EXCEPT !.pc = "boundary"]
    BY <1>7 DEF ArchiveCopy
  <2>2. job'.pc # "prune"
    BY <2>1
  <2> QED BY <1>2, <2>1, <2>2
<1>8. CASE PutArchiveBoundary
  <2>1. /\ postings' = postings /\ job.pc = "boundary" /\ job' = [job EXCEPT !.pc = "prune"]
        /\ boundary' = [heads |-> job.heads, through |-> Tip(job.page)]
    BY <1>8 DEF PutArchiveBoundary
  <2>2. PICK h, t, at, page, k, last, q : Covers(h, t) /\ PageIs(t, at, page, k, last, q)
    BY <2>1, MoveFacts
  <2>3. /\ job = [pc |-> job.pc, at |-> at, page |-> page, heads |-> k, last |-> last]
        /\ q = Tip(page) /\ page = {i \in Committed : t < i /\ i <= q}
    BY <2>2 DEF PageIs
  <2>4. job'.pc = "prune" /\ job'.page = page /\ boundary'.through = q
    BY <2>1, <2>3
  <2>5. boundary.through = t /\ t \in Nat /\ Stranded = {}
    BY <2>1, <2>2 DEF Covers, Prefix, Settled, LeftBehind
  <2>6. ASSUME NEW i \in Stranded' PROVE i \in page
    <3>1. i \in Stored /\ i <= q
      BY <2>1, <2>4, <2>6 DEF Stranded, Stored, In
    <3>2. i \in Committed /\ i \in Nat
      BY <3>1, CommittedSeqs DEF Seqs
    <3>3. ~(i <= t)
      BY <2>5, <3>1 DEF Stranded
    <3> QED BY <2>3, <2>5, <3>1, <3>2, <3>3
  <2> QED BY <2>4, <2>6 DEF LeftBehind
<1>9. CASE Prune
  <2>1. /\ job.pc = "prune" /\ boundary' = boundary
        /\ job' = Idle \/ job' = [pc |-> "page", at |-> job.at, heads |-> job.heads, through |-> Tip(job.page)]
    BY <1>9 DEF Prune, Finish
  <2>2. PICK h, t, at, page, last :
            /\ Covers(h, t)
            /\ job = [pc |-> "prune", at |-> at, page |-> page, heads |-> h, last |-> last]
            /\ Fresh(at) /\ page \subseteq Stored /\ page \subseteq Upto(t) /\ Tip(page) = t
    BY <2>1, PruneFacts
  <2>3. job.page \subseteq Stored
    BY <2>2
  <2>4. Stored' = Stored \ job.page
    BY <1>9, <2>3, PruneTable
  <2>5. Stranded \subseteq job.page
    BY <2>1 DEF LeftBehind
  <2>6. Stranded' = {}
    BY <2>1, <2>4, <2>5 DEF Stranded
  <2>7. job'.pc # "prune"
    BY <2>1 DEF Idle
  <2> QED BY <2>6, <2>7 DEF LeftBehind
<1> QED BY <1>1, <1>3, <1>4, <1>5, <1>6, <1>7, <1>8, <1>9 DEF Next

(* Without a stopped sweep the snapshot follows the seals. *)
LEMMA LastPut ==
  ASSUME Table, Bound, Seals, crashes = 0, NEW s, LastSeal(s), SealPut
  PROVE  LastSeal(s)'
<1>1. /\ sealHeads' = sealHeads /\ job.pc = "sign"
      /\ checkpoints' = Append(checkpoints, [leaves |-> job.leaves, at |-> now])
      /\ job' = [pc |-> "snapshot", leaves |-> job.leaves, full |-> job.full,
                 rows |-> IF job.full THEN DOMAIN job.leaves ELSE Dirty(job.leaves)]
  BY DEF SealPut
<1>2. sealHeads = s
  BY DEF LastSeal
<1>3. SignJob(s) /\ Signed(s)
  BY <1>1, <1>2 DEF Seals, Leaves, ProveJob, SnapshotJob, SnapshotIs, Sealing
<1>4. PICK l, full : /\ full \in BOOLEAN
                     /\ job = [pc |-> "sign", leaves |-> l, full |-> full] /\ Signed(l)
                     /\ ~full => DOMAIN s \subseteq DOMAIN l
  BY <1>3 DEF SignJob
<1>5. PICK rows : rows = IF full THEN DOMAIN l ELSE Dirty(l)
  OBVIOUS
<1>6. /\ job' = [pc |-> "snapshot", leaves |-> l, full |-> full, rows |-> rows]
      /\ checkpoints' = Append(checkpoints, [leaves |-> l, at |-> now])
  BY <1>1, <1>4, <1>5
<1>7. checkpoints' # <<>> /\ Last(checkpoints').leaves = l
  <2>1. PICK e : e = [leaves |-> l, at |-> now]
    OBVIOUS
  <2>2. checkpoints \in Seq({checkpoints[k] : k \in DOMAIN checkpoints})
    BY DEF Bound, SealTimes
  <2>3. PICK S : checkpoints \in Seq(S) /\ e \in S
    <3>1. checkpoints \in Seq({checkpoints[k] : k \in DOMAIN checkpoints} \cup {e})
      BY <2>2
    <3> QED BY <3>1
  <2>4. checkpoints' = Append(checkpoints, e)
    BY <1>6, <2>1
  <2>5. Len(checkpoints') = Len(checkpoints) + 1 /\ checkpoints'[Len(checkpoints')] = e /\ checkpoints' # <<>>
    BY <2>3, <2>4
  <2> QED BY <2>1, <2>5 DEF Last
<1>8. Written(s, l, full, rows)
  <2>1. CASE full
    BY <1>5, <2>1 DEF Written
  <2>2. CASE ~full
    <3>1. rows = {a \in DOMAIN l : SealedHead(a) # l[a].head}
      BY <1>5, <2>2 DEF Dirty
    <3>2. ASSUME NEW a \in DOMAIN l \ rows PROVE a \in DOMAIN s /\ s[a] = l[a]
      <4>1. SealedHead(a) = l[a].head
        BY <3>1, <3>2
      <4>2. l[a].head \in Committed
        BY <1>4, <3>2 DEF Signed, Of
      <4>3. l[a].head # Genesis
        <5>1. \A x \in Committed : x # 0
          BY CommittedSeqs DEF Seqs
        <5> QED BY <4>2, <5>1 DEF Genesis
      <4>4. a \in DOMAIN s /\ s[a].head = l[a].head
        BY <1>2, <4>1, <4>3 DEF SealedHead
      <4>5. /\ s[a] = [head |-> s[a].head, sum |-> Raw(Upto(s[a].head), a)]
            /\ l[a] = [head |-> l[a].head, sum |-> Raw(Upto(l[a].head), a)]
        BY <1>3, <1>4, <3>2, <4>4 DEF Signed
      <4> QED BY <4>4, <4>5
    <3>3. ~full /\ rows \subseteq DOMAIN l /\ DOMAIN s \subseteq DOMAIN l
      BY <1>4, <2>2, <3>1
    <3> QED BY <3>2, <3>3 DEF Written
  <2> QED BY <1>4, <2>1, <2>2
<1>9. LastIs(s, l, full, rows)'
  BY <1>4, <1>6, <1>7, <1>8 DEF LastIs, Written, Last
<1>10. job'.pc = "snapshot"
  BY <1>6
<1> QED BY <1>1, <1>2, <1>9, <1>10 DEF LastSeal

(* The writes of the snapshot lead to the leaves of the last seal. *)
LEMMA LastWritten ==
  ASSUME Seals, NEW s, LastSeal(s), PutSealHeads
  PROVE  \E r : LastSeal(r)'
<1>1. job.pc = "snapshot" /\ checkpoints' = checkpoints
  BY DEF PutSealHeads
<1>2. PICK l, full, rows : LastIs(s, l, full, rows)
  BY <1>1 DEF LastSeal
<1>3. /\ sealHeads = s /\ full \in BOOLEAN
      /\ job = [pc |-> "snapshot", leaves |-> l, full |-> full, rows |-> rows]
      /\ checkpoints # <<>> /\ Last(checkpoints).leaves = l
      /\ Written(s, l, full, rows)
  BY <1>2 DEF LastSeal, LastIs
<1>4. job.full = full /\ job.rows = rows /\ job.leaves = l
  BY <1>3
<1>5. Signed(s) /\ Signed(l)
  <2>1. Leaves(s)
    BY <1>3 DEF Seals, Leaves
  <2>2. SnapshotJob
    BY <1>1, <2>1 DEF Leaves, ProveJob, SignJob, Sealing
  <2>3. PICK ll, f, rr : SnapshotIs(ll, f, rr)
    BY <2>2 DEF SnapshotJob
  <2>4. ll = l
    BY <1>4, <2>3 DEF SnapshotIs
  <2> QED BY <2>1, <2>3, <2>4 DEF Leaves, SnapshotIs
<1>6. CASE full /\ sealHeads' = NoRows /\ job' = [job EXCEPT !.full = FALSE]
  <2>1. job' = [pc |-> "snapshot", leaves |-> l, full |-> FALSE, rows |-> rows]
    BY <1>3, <1>6
  <2>2. PICK r : r = NoRows
    OBVIOUS
  <2>3. Written(r, l, FALSE, rows)
    BY <1>3, <1>6, <2>2 DEF Written, NoRows
  <2>4. LastIs(r, l, FALSE, rows)'
    BY <1>1, <1>3, <2>1, <2>3 DEF LastIs, Written, Last
  <2>5. sealHeads' = r /\ job'.pc = "snapshot"
    BY <1>6, <2>1, <2>2
  <2>6. LastSeal(r)'
    BY <2>4, <2>5 DEF LastSeal
  <2> QED BY <2>6
<1>7. CASE ~full /\ \E a \in rows : /\ sealHeads' = [b \in DOMAIN sealHeads \cup {a} |-> IF b = a THEN l[a] ELSE sealHeads[b]]
                                    /\ job' = [job EXCEPT !.rows = @ \ {a}]
  <2>1. PICK a \in rows : /\ sealHeads' = [b \in DOMAIN sealHeads \cup {a} |-> IF b = a THEN l[a] ELSE sealHeads[b]]
                          /\ job' = [job EXCEPT !.rows = @ \ {a}]
    BY <1>7
  <2>2. PICK rest : rest = rows \ {a}
    OBVIOUS
  <2>3. job' = [pc |-> "snapshot", leaves |-> l, full |-> FALSE, rows |-> rest]
    BY <1>3, <1>7, <2>1, <2>2
  <2>4. PICK r : r = [b \in DOMAIN s \cup {a} |-> IF b = a THEN l[a] ELSE s[b]]
    OBVIOUS
  <2>5. Written(r, l, FALSE, rest)
    BY <1>3, <1>7, <2>1, <2>2, <2>4 DEF Written
  <2>6. LastIs(r, l, FALSE, rest)'
    BY <1>1, <1>3, <2>3, <2>5 DEF LastIs, Written, Last
  <2>7. sealHeads' = r /\ job'.pc = "snapshot"
    BY <1>3, <2>1, <2>3, <2>4
  <2>8. LastSeal(r)'
    BY <2>6, <2>7 DEF LastSeal
  <2> QED BY <2>8
<1>8. CASE ~full /\ rows = {} /\ job' = Idle /\ sealHeads' = sealHeads
  <2>1. DOMAIN s = DOMAIN l /\ \A a \in DOMAIN l : s[a] = l[a]
    BY <1>3, <1>8 DEF Written
  <2>2. s = l
    BY <1>5, <2>1 DEF Signed
  <2>3. Last(checkpoints') = Last(checkpoints)
    BY <1>1 DEF Last
  <2>4. LastSeal(s)'
    BY <1>1, <1>3, <1>8, <2>2, <2>3 DEF LastSeal, Idle, Last
  <2> QED BY <2>4
<1>9. \/ full /\ sealHeads' = NoRows /\ job' = [job EXCEPT !.full = FALSE]
      \/ ~full /\ \E a \in rows : /\ sealHeads' = [b \in DOMAIN sealHeads \cup {a} |-> IF b = a THEN l[a] ELSE sealHeads[b]]
                                  /\ job' = [job EXCEPT !.rows = @ \ {a}]
      \/ ~full /\ rows = {} /\ job' = Idle /\ sealHeads' = sealHeads
  BY <1>4 DEF PutSealHeads, Finish
<1> QED BY <1>6, <1>7, <1>8, <1>9

(* Without a stopped sweep nothing is left behind, and the snapshot is the
   last seal. *)
LEMMA UnbrokenStep ==
  ASSUME ChainAssumption, Shape, Table, Bound, Seals, Unbroken, [Next]_vars
  PROVE  Unbroken'
<1> SUFFICES ASSUME crashes' = 0 PROVE LeftBehind' /\ \E s : LastSeal(s)'
  BY DEF Unbroken
<1>1. crashes \in Nat
  BY DEF Seals
<1>2. crashes = 0 /\ ~SweepDies
  BY <1>1, CrashesKept DEF SweepDies
<1>3. LeftBehind
  BY <1>2 DEF Unbroken
<1>4. PICK s : LastSeal(s)
  BY <1>2 DEF Unbroken
<1>5. LeftBehind'
  BY <1>2, <1>3, LeftStep DEF Shape
<1>a. SUFFICES \E r : LastSeal(r)'
  BY <1>5
<1>6. CASE /\ UNCHANGED <<checkpoints, sealHeads>>
           /\ job' = job \/ (job.pc # "snapshot" /\ job'.pc # "snapshot")
  <2>1. CASE job' = job
    <3>1. \A l, full, rows : LastIs(s, l, full, rows) => LastIs(s, l, full, rows)'
      BY <1>6, <2>1 DEF LastIs, Written, Last
    <3>2. LastSeal(s)'
      BY <1>4, <1>6, <2>1, <3>1 DEF LastSeal, Last
    <3> QED BY <3>2
  <2>2. CASE job.pc # "snapshot" /\ job'.pc # "snapshot"
    <3>1. LastSeal(s)'
      BY <1>4, <1>6, <2>2 DEF LastSeal, Last
    <3> QED BY <3>1
  <2> QED BY <1>6, <2>1, <2>2
<1>7. CASE \/ \E t \in Transfers : Post(t)
           \/ \E i \in DOMAIN postings : Commit(i) \/ RollBack(i)
           \/ Tick \/ UNCHANGED vars
  <2>1. UNCHANGED <<checkpoints, sealHeads>> /\ job' = job
    BY <1>7 DEF Post, Commit, RollBack, Ends, Tick, vars
  <2> QED BY <1>6, <2>1
<1>8. CASE SealStart \/ SealProve \/ ArchiveStart \/ Prune
  <2>1. UNCHANGED <<checkpoints, sealHeads>> /\ job.pc # "snapshot" /\ job'.pc # "snapshot"
    BY <1>8 DEF SealStart, SealProve, ArchiveStart, Prune, Start, Finish, Idle
  <2> QED BY <1>6, <2>1
<1>9. CASE ArchivePage \/ ArchiveCopy \/ PutArchiveBoundary
  <2>1. UNCHANGED <<checkpoints, sealHeads>> /\ job.pc # "snapshot"
    BY <1>9 DEF ArchivePage, ArchiveCopy, PutArchiveBoundary
  <2>2. CASE ArchivePage
    <3>1. \/ job' = Idle
          \/ \E page, heads, last, at :
                job' = [pc |-> "copy", at |-> at, page |-> page, heads |-> heads, last |-> last]
      BY <2>2 DEF ArchivePage, Finish
    <3>2. job'.pc # "snapshot"
      BY <3>1 DEF Idle
    <3> QED BY <1>6, <2>1, <3>2
  <2>3. CASE ArchiveCopy \/ PutArchiveBoundary
    <3>1. \E pc \in {"boundary", "prune"} : job' = [job EXCEPT !.pc = pc]
      BY <2>3 DEF ArchiveCopy, PutArchiveBoundary
    <3>2. "pc" \in DOMAIN job
      BY DEF Shape
    <3>3. job'.pc # "snapshot"
      BY <3>1, <3>2
    <3> QED BY <1>6, <2>1, <3>3
  <2> QED BY <1>9, <2>2, <2>3
<1>10. CASE SealPut
  <2>1. LastSeal(s)'
    BY <1>2, <1>4, <1>10, LastPut
  <2> QED BY <2>1
<1>11. CASE PutSealHeads
  BY <1>4, <1>11, LastWritten
<1> QED BY <1>2, <1>7, <1>8, <1>9, <1>10, <1>11 DEF Next

(* The archive's two refusals. *)
LEMMA VerdictStep ==
  ASSUME ChainAssumption, Shape, Table, Bound, Seals, Unbroken, Verdict, [Next]_vars
  PROVE  Verdict'
<1>1. crashes \in Nat /\ crashes' \in Nat /\ (crashes > 0 => crashes' > 0)
  BY CrashesKept DEF Seals
<1>2. CASE refused' \in {refused, "none", "seal"}
  BY <1>1, <1>2 DEF Verdict
<1>3. CASE ArchiveStart /\ sealHeads # Last(checkpoints).leaves
  <2>1. checkpoints # <<>> /\ job.pc = "idle"
    BY <1>3 DEF ArchiveStart, Start, Idle
  <2>2. crashes # 0
    <3> SUFFICES ASSUME crashes = 0 PROVE FALSE OBVIOUS
    <3>1. PICK s : LastSeal(s)
      BY DEF Unbroken
    <3> QED BY <1>3, <2>1, <3>1 DEF LastSeal
  <2>3. refused' \in {refused, "archive"}
    BY <1>3 DEF ArchiveStart
  <2> QED BY <1>1, <1>2, <2>2, <2>3 DEF Verdict
<1>4. CASE ArchiveStart /\ sealHeads = Last(checkpoints).leaves
  <2>1. refused' \in {refused, "none", "seal"}
    BY <1>4 DEF ArchiveStart, Start, Finish
  <2> QED BY <1>2, <2>1
<1>5. CASE ArchivePage
  <2>1. refused' \in {refused, "none"}
    BY <1>5, ArchivePageMoves
  <2> QED BY <1>2, <2>1
<1>6. CASE [Next]_vars /\ ~ArchiveStart /\ ~ArchivePage
  <2>1. refused' \in {refused, "none", "seal"}
    BY <1>6 DEF Next, vars, Post, Commit, RollBack, Ends, Tick, SealStart, SealProve, SealPut,
                PutSealHeads, ArchiveCopy, PutArchiveBoundary, Prune, SweepDies, Start, Finish
  <2> QED BY <1>2, <2>1
<1> QED BY <1>3, <1>4, <1>5, <1>6

(* The history holds of the empty ledger. *)
LEMMA HistoryInit ==
  ASSUME Init
  PROVE  HInv
<1>1. Shape
  BY InitHolds DEF IInv
<1>2. Table /\ Bound
  BY BoundInit
<1>3. /\ sealHeads = NoRows /\ job.pc = "idle" /\ crashes = 0 /\ postings = <<>>
      /\ checkpoints = <<>> /\ refused = "none"
  BY DEF Init, Idle
<1>4. PICK s : s = NoRows
  OBVIOUS
<1>5. Signed(s)
  BY <1>4 DEF Signed, NoRows
<1>6. Seals
  BY <1>3, <1>4, <1>5 DEF Seals, Leaves, Sealing
<1>7. Stranded = {}
  BY <1>3 DEF Stranded, Stored, In
<1>8. LastSeal(s)
  BY <1>3, <1>4 DEF LastSeal
<1>9. Unbroken
  BY <1>3, <1>7, <1>8 DEF Unbroken, LeftBehind
<1>10. Verdict
  BY <1>3 DEF Verdict
<1> QED BY <1>1, <1>2, <1>6, <1>9, <1>10 DEF HInv

(* The history is kept by every step. *)
LEMMA HistoryStep ==
  ASSUME ChainAssumption, IInv, HInv, [Next]_vars
  PROVE  HInv'
<1>1. Shape'
  BY StepKeeps DEF IInv
<1>2. Shape /\ Table /\ Bound /\ Seals /\ Unbroken /\ Verdict
  BY DEF HInv
<1>3. Table' /\ Bound'
  BY <1>2, BoundStep
<1>4. Seals'
  BY <1>2, SealsStep
<1>5. Unbroken'
  BY <1>2, UnbrokenStep
<1>6. Verdict'
  BY <1>2, VerdictStep
<1> QED BY <1>1, <1>3, <1>4, <1>5, <1>6 DEF HInv

-----------------------------------------------------------------------------
(* What a seal refuses.  No gap, and no link pruned at or past a sealed    *)
(* head of its account: then every tail is whole and the seal goes on.     *)
LEMMA TailProves ==
  ASSUME Table, NEW s, sealHeads = s, Signed(s), NEW l, Signed(l), NEW a \in DOMAIN l,
         SealedHead(a) # l[a].head, a \in DOMAIN s => s[a].head <= l[a].head,
         \A i \in In({"pruned"}) : a \in Touched(i) => ~(SealedHead(a) <= i)
  PROVE  ProveTail(a, l[a].head)
<1>1. /\ Committed \subseteq Nat \ {0} /\ Committed = Stored \cup In({"pruned"})
      /\ Committed \subseteq DOMAIN postings
  BY CommittedSeqs DEF Seqs, Committed, Stored, In
<1>2. PICK since : since = SealedHead(a)
  OBVIOUS
<1>3. since = Genesis \/ (a \in DOMAIN s /\ since = s[a].head)
  BY <1>2 DEF SealedHead
<1>4. a \in Accounts /\ l[a].head \in Committed /\ a \in Touched(l[a].head)
  BY DEF Signed, Of
<1>5. since \in Nat /\ (since # Genesis => since \in Of(Committed, a))
  BY <1>1, <1>3 DEF Genesis, Signed, Of
<1>6. since < l[a].head
  <2>1. l[a].head \in Nat \ {0}
    BY <1>1, <1>4
  <2>2. since # l[a].head
    BY <1>2
  <2>3. since <= l[a].head
    BY <1>3, <2>1 DEF Genesis
  <2> QED BY <1>5, <2>1, <2>2, <2>3
<1>7. ASSUME NEW i \in Committed, a \in Touched(i), since <= i
      PROVE  i \in Stored
  <2>1. i \notin In({"pruned"})
    BY <1>2, <1>7
  <2> QED BY <1>1, <2>1
<1>8. since # Genesis => since \in Stored
  BY <1>5, <1>7 DEF Of
<1>9. PICK L : L = {j \in Of(Stored, a) : j > since}
  OBVIOUS
<1>10. LineageSince(a, since) = L
  <2>1. CASE since = Genesis
    <3>1. \A j \in Of(Stored, a) : j > since
      <4> TAKE j \in Of(Stored, a)
      <4>1. j \in Nat \ {0}
        BY <1>1 DEF Of
      <4> QED BY <2>1, <4>1 DEF Genesis
    <3>2. LineageSince(a, since) = Of(Stored, a)
      BY <2>1 DEF LineageSince
    <3>3. L = Of(Stored, a)
      BY <1>9, <3>1
    <3> QED BY <3>2, <3>3
  <2>2. CASE since # Genesis
    BY <1>8, <1>9, <2>2 DEF LineageSince
  <2> QED BY <2>1, <2>2
<1>11. l[a].head \in L
  <2>1. l[a].head \in Stored
    BY <1>1, <1>4, <1>5, <1>6, <1>7
  <2>2. l[a].head \in Of(Stored, a)
    BY <1>4, <2>1 DEF Of
  <2>3. l[a].head > since
    BY <1>1, <1>4, <1>5, <1>6
  <2> QED BY <1>9, <2>2, <2>3
<1>12. L \subseteq Of(Committed, a) /\ L \subseteq Nat
  BY <1>1, <1>9 DEF Of
<1>13. ASSUME NEW j \in L, NEW k \in Of(Committed, a), j <= k
       PROVE  k \in L
  <2>1. k \in Committed /\ a \in Touched(k) /\ k \in Nat /\ j \in Nat /\ j > since
    BY <1>1, <1>9, <1>12, <1>13 DEF Of
  <2>2. since <= k /\ k > since
    BY <1>5, <1>13, <2>1
  <2>3. k \in Stored
    BY <1>7, <2>1, <2>2
  <2> QED BY <1>9, <2>1, <2>2, <2>3 DEF Of
<1>14. PICK m : m = Min(L)
  OBVIOUS
<1>15. m \in L /\ \A y \in L : m <= y
  BY <1>11, <1>12, <1>14, MinOf
<1>16. postings[m].prev[a] = since
  <2>1. m \in DOMAIN postings /\ a \in Touched(m) /\ m \in Nat /\ m > since
    BY <1>1, <1>9, <1>12, <1>15 DEF Of
  <2>2. postings[m].prev[a] = Tip(Below(m, a))
    BY <2>1 DEF Table, Entry
  <2>3. Below(m, a) \subseteq Nat
    BY <1>1 DEF Below, Of
  <2>4. ASSUME NEW y \in Below(m, a) PROVE y <= since
    <3>1. y \in Committed /\ a \in Touched(y) /\ y < m /\ y \in Nat
      BY <1>1, <2>4 DEF Below, Of
    <3>2. CASE y <= since
      BY <3>2
    <3>3. CASE y > since
      <4>1. y \in Stored
        BY <1>5, <1>7, <3>1, <3>3
      <4>2. y \in L
        BY <1>9, <3>1, <3>3, <4>1 DEF Of
      <4> QED BY <1>15, <2>1, <3>1, <4>2
    <3> QED BY <1>5, <3>1, <3>2, <3>3
  <2>5. since \in Below(m, a) \cup {Genesis}
    <3>1. CASE since # Genesis
      BY <1>5, <2>1, <3>1 DEF Below
    <3> QED BY <3>1
  <2> QED BY <2>2, <2>3, <2>4, <2>5, TipIs
<1>17. Continuous(L, a, since)
  BY <1>4, <1>12, <1>13, <1>14, <1>16, WholeTail
<1> QED BY <1>2, <1>10, <1>11, <1>17 DEF ProveTail

(* With no gap and nothing pruned past its heads, the seal proves. *)
LEMMA SealGoesOn ==
  ASSUME Table, Bound, Seals, job.pc = "prove", ~Gap,
         \A i \in In({"pruned"}) : \A a \in Touched(i) : ~(SealedHead(a) <= i)
  PROVE  SealProves(job.leaves)
<1>1. PICK s : Leaves(s)
  BY DEF Seals
<1>2. ProveJob(s)
  BY <1>1 DEF Leaves, SignJob, SnapshotJob, SnapshotIs, Sealing
<1>3. PICK l : /\ job = [pc |-> "prove", leaves |-> l] /\ Signed(l)
               /\ ~Gap => \A a \in DOMAIN s : a \in DOMAIN l /\ s[a].head <= l[a].head
  BY <1>2 DEF ProveJob
<1>4. job.leaves = l /\ sealHeads = s /\ Signed(s)
  BY <1>1, <1>3 DEF Leaves
<1>5. CASE AuthenticSnapshot
  <2>1. DOMAIN s \subseteq DOMAIN l
    BY <1>3
  <2>2. ASSUME NEW a \in Dirty(l) PROVE ProveTail(a, l[a].head)
    <3>1. a \in DOMAIN l /\ SealedHead(a) # l[a].head
      BY <2>2 DEF Dirty
    <3>2. a \in DOMAIN s => s[a].head <= l[a].head
      BY <1>3
    <3>3. \A i \in In({"pruned"}) : a \in Touched(i) => ~(SealedHead(a) <= i)
      OBVIOUS
    <3> QED BY <1>3, <1>4, <3>1, <3>2, <3>3, TailProves
  <2> QED BY <1>4, <1>5, <2>1, <2>2 DEF SealProves
<1>6. CASE ~AuthenticSnapshot
  <2>1. \A i \in In({"pruned"}), j \in Stranded : i < j
    <3> SUFFICES ASSUME NEW i \in In({"pruned"}), NEW j \in Stranded PROVE i < j OBVIOUS
    <3>1. i # j /\ i \in Nat /\ j \in Nat
      <4>1. postings[i].state = "pruned" /\ postings[j].state = "stored"
        BY DEF Stranded, Stored, In
      <4>2. i \in Committed /\ j \in Committed
        BY DEF Stranded, Stored, Committed, In
      <4> QED BY <4>1, <4>2, CommittedSeqs DEF Seqs
    <3>2. ~(j < i)
      BY DEF Gap
    <3> QED BY <3>1, <3>2
  <2>2. ProveChain
    BY <2>1, ProveChainHolds
  <2> QED BY <1>6, <2>2 DEF SealProves
<1> QED BY <1>5, <1>6

(* The step that refuses a seal has one of the two reasons. *)
LEMMA RefusalStep ==
  ASSUME ChainAssumption, IInv, HInv, [Next]_vars,
         job.pc = "prove", job' = Idle, refused' = "seal", crashes' = crashes
  PROVE  \/ \E i \in In({"pruned"}) : \E a \in Touched(i) : SealedHead(a) <= i
         \/ \E i \in In({"pruned"}), j \in Stranded : j < i
<1>1. Table /\ Bound /\ Seals
  BY DEF HInv
<1>2. ~SweepDies
  <2>1. crashes \in Nat
    BY <1>1 DEF Seals
  <2> QED BY <2>1 DEF SweepDies
<1>3. job # Idle /\ job' # job
  BY DEF Idle
<1>4. SealProve
  BY <1>2, <1>3 DEF Next, vars, Post, Commit, RollBack, Ends, Tick, SealStart, SealPut, Start,
                    PutSealHeads, ArchiveStart, ArchivePage, ArchiveCopy, PutArchiveBoundary, Prune
<1>5. ~SealProves(job.leaves)
  BY <1>4 DEF SealProve, Idle
<1>6. CASE Gap
  BY <1>6 DEF Gap
<1>7. CASE ~Gap
  BY <1>1, <1>5, <1>7, SealGoesOn
<1> QED BY <1>6, <1>7

-----------------------------------------------------------------------------
(* The history holds in every reachable state. *)
THEOREM History == Spec => [](IInv /\ HInv)
<1>1. Init => IInv /\ HInv
  BY InitHolds, HistoryInit
<1>2. (IInv /\ HInv) /\ [Next]_vars => (IInv /\ HInv)'
  BY ChainAssumption, StepKeeps, HistoryStep
<1> QED BY <1>1, <1>2, PTL DEF Spec

(* The signed boundary is the head and the sum of exactly the committed     *)
(* postings up to its watermark, over any pages, stopped runs and postings  *)
(* still committing (advanceArchiveBoundary), and nothing beyond it is gone. *)
THEOREM ArchiveIsPrefix == Spec => []BoundaryIsPrefix
<1>1. IInv /\ HInv => BoundaryIsPrefix
  BY BoundGivesPrefix DEF HInv
<1> QED BY <1>1, History, PTL

(* With no gap left by a stopped archive run, the pruned ledger proves      *)
(* (proveChain); with nothing left behind, the sums of the archived part    *)
(* and of the hot part meet in those of the whole history                   *)
(* (mergeArchiveSums).                                                      *)
THEOREM Provable == Spec => []ProvableUnlessSkipped
<1>1. IInv /\ HInv => ProvableUnlessSkipped
  BY BoundGivesProvable DEF HInv
<1> QED BY <1>1, History, PTL

(* A seal of an honest ledger is refused only for what was pruned past its  *)
(* sealed heads or for the gap of a stopped run, the archive refuses its    *)
(* seal only after a sweep stopped, and no page is found discontinuous.     *)
THEOREM Refusals == Spec => RefusalsExplained
<1> DEFINE Why == \/ \E i \in In({"pruned"}) : \E a \in Touched(i) : SealedHead(a) <= i
                  \/ \E i \in In({"pruned"}), j \in Stranded : j < i
           Refused == job.pc = "prove" /\ job' = Idle /\ refused' = "seal" /\ crashes' = crashes
<1>1. ASSUME IInv /\ HInv, (IInv /\ HInv)', [Next]_vars
      PROVE  [/\ Refused => Why
              /\ refused' = "archive" => crashes > 0
              /\ refused' # "page"]_vars
  <2>1. Refused => Why
    BY <1>1, ChainAssumption, RefusalStep
  <2>2. refused # "page" /\ (refused = "archive" => crashes > 0)
    BY <1>1 DEF HInv, Verdict
  <2>3. refused' # "page" /\ (refused' = "archive" => crashes' > 0)
    BY <1>1 DEF HInv, Verdict
  <2>4. crashes' = crashes \/ refused' \in {refused, "none"}
    <3>1. crashes \in Nat
      BY <1>1 DEF HInv, Seals
    <3> QED BY <1>1, <3>1, CrashesKept DEF SweepDies
  <2>5. refused' = "archive" => crashes > 0
    BY <2>2, <2>3, <2>4
  <2> HIDE DEF Refused, Why
  <2> QED BY <2>1, <2>3, <2>5
<1>2. Spec => [][/\ Refused => Why
                 /\ refused' = "archive" => crashes > 0
                 /\ refused' # "page"]_vars
  BY <1>1, History, PTL DEF Spec
<1> QED BY <1>2 DEF RefusalsExplained

=============================================================================
