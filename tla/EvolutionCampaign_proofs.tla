---------------------- MODULE EvolutionCampaign_proofs ----------------------
(* What EvolutionCampaign proves for every number of tasks, commits, lives,  *)
(* faults and retries.  Nothing locks the campaign file between a process's  *)
(* read and its write, so what holds of the file must hold of every copy     *)
(* that is still to be written: the invariant speaks of each of them.        *)
EXTENDS EvolutionCampaign, SequenceTheorems, TLAPS

USE EvolutionAssumption

(* No entry of a sequence occurs twice.                                      *)
Distinct(s) == \A i, j \in DOMAIN s : s[i] = s[j] => i = j

(* A copy of the campaign file, when dev is the last commit: no row twice,   *)
(* no absorbed commit twice, all of them made, and the commit of the active  *)
(* transaction is not absorbed yet.                                          *)
Made(f, dev) ==
    /\ \A i \in DOMAIN f.absorbed : f.absorbed[i] <= dev
    /\ f.tx # NoTx =>
          /\ f.tx.commit <= dev
          /\ \A i \in DOMAIN f.absorbed : f.absorbed[i] # f.tx.commit
Good(f, dev) ==
    /\ f \in Campaigns
    /\ Distinct(f.history)
    /\ Distinct(f.absorbed)
    /\ Made(f, dev)

(* The constants are numbers, and 0 is a bound of all of them.               *)
LEMMA Constants ==
    /\ MaxTasks \in Nat /\ MaxCommits \in Nat /\ MaxLives \in Nat
    /\ MaxFaults \in Nat /\ MaxRetries \in Nat
    /\ 0 \in 0..MaxTasks /\ 0 \in 0..MaxCommits
    /\ Ids \subseteq 0..MaxTasks /\ Ids \subseteq Nat \ {0}
    /\ Commits \subseteq 0..MaxCommits /\ Commits \subseteq Nat \ {0}
  BY DEF Ids, Commits

(* Appending what does not occur keeps the entries distinct.                 *)
LEMMA AppendDistinct ==
    ASSUME NEW S, NEW s \in Seq(S), NEW e \in S,
           Distinct(s), \A i \in DOMAIN s : s[i] # e
    PROVE  Append(s, e) \in Seq(S) /\ Distinct(Append(s, e))
  BY DEF Distinct

(* Every entry of a longer sequence is the new one or an old one.            *)
LEMMA AppendEntries ==
    ASSUME NEW S, NEW s \in Seq(S), NEW e \in S, NEW i \in DOMAIN Append(s, e)
    PROVE  Append(s, e)[i] = e \/ (i \in DOMAIN s /\ Append(s, e)[i] = s[i])
  OBVIOUS

(* No transaction is the absent one.                                         *)
LEMMA TxParts ==
    ASSUME NEW dev \in 0..MaxCommits, NEW f, Good(f, dev)
    PROVE  /\ f.status \in {"none", "active", "paused"}
           /\ f.tx \in Txs \cup {NoTx}
           /\ f.tx # NoTx => f.tx \in Txs
           /\ f.history \in Seq(Rows)
           /\ f.absorbed \in Seq(Commits)
  BY DEF Good, Campaigns

(* NoTx has no commit.                                                       *)
LEMMA NoTxIsNoTx == NoTx \notin Txs
  BY Constants DEF NoTx, Txs

(* A copy that keeps history and absorbed commits, and whose transaction is  *)
(* gone, or new, or of the same commit, stays good.                          *)
LEMMA SameTallies ==
    ASSUME NEW dev \in 0..MaxCommits, NEW f, Good(f, dev), NEW g \in Campaigns,
           g.history = f.history, g.absorbed = f.absorbed,
           \/ g.tx = NoTx
           \/ g.tx # NoTx /\ g.tx.commit = 0
           \/ g.tx # NoTx /\ f.tx # NoTx /\ g.tx.commit = f.tx.commit
    PROVE  Good(g, dev)
  <1>1. CASE g.tx # NoTx /\ g.tx.commit = 0
    <2>1. \A i \in DOMAIN f.absorbed : f.absorbed[i] \in Commits
      BY TxParts
    <2> QED
      BY <1>1, <2>1, Constants DEF Good, Made
  <1> QED
    BY <1>1 DEF Good, Made

(* Each writer leaves its copy good: start_evolution_campaign,               *)
LEMMA StartedGood ==
    ASSUME NEW dev \in 0..MaxCommits, NEW f, Good(f, dev)
    PROVE  Good(Started(f), dev)
  <1>1. CASE f.status = "none"
    <2> DEFINE g == [status |-> "active", tx |-> NoTx, history |-> <<>>, absorbed |-> <<>>]
    <2>1. g \in Campaigns
      BY DEF Campaigns
    <2> QED
      BY <1>1, <2>1 DEF Started, Good, Distinct, Made
  <1>2. CASE f.status # "none"
    BY <1>2, SameTallies DEF Started, Good, Campaigns
  <1> QED
    BY <1>1, <1>2

(* pause_evolution_campaign,                                                 *)
LEMMA PausedGood ==
    ASSUME NEW dev \in 0..MaxCommits, NEW f, Good(f, dev)
    PROVE  Good(Paused(f), dev)
  BY SameTallies DEF Paused, Good, Campaigns

(* begin_evolution_transaction,                                              *)
LEMMA BegunGood ==
    ASSUME NEW dev \in 0..MaxCommits, NEW f, Good(f, dev), NEW id \in Ids
    PROVE  Good(Begun(f, id), dev)
  <1>1. Begun(f, id).tx \in Txs /\ Begun(f, id).tx.commit = 0
    BY Constants DEF Begun, Txs, Good, Campaigns
  <1> QED
    BY <1>1, SameTallies, NoTxIsNoTx DEF Begun, Good, Campaigns

(* update_evolution_transaction by request_restart,                          *)
LEMMA RestartAskedGood ==
    ASSUME NEW dev \in 0..MaxCommits, NEW f, Good(f, dev), NEW id
    PROVE  Good(RestartAsked(f, id), dev)
  <1>1. CASE f.tx # NoTx
    <2> DEFINE g == [f EXCEPT !.tx.required = TRUE]
    <2>1. g.tx \in Txs /\ g.tx.commit = f.tx.commit
      BY <1>1, TxParts DEF Txs, Good, Campaigns
    <2>2. g \in Campaigns /\ g.history = f.history /\ g.absorbed = f.absorbed
      BY <2>1 DEF Good, Campaigns
    <2> QED
      BY <1>1, <2>1, <2>2, SameTallies, NoTxIsNoTx DEF RestartAsked
  <1> QED
    BY <1>1 DEF RestartAsked, IsActive

(* _link_rescue_to_evolution_transaction,                                    *)
LEMMA LinkedGood ==
    ASSUME NEW dev \in 0..MaxCommits, NEW f, Good(f, dev)
    PROVE  Good(Linked(f), dev)
  <1>1. CASE f.tx # NoTx
    <2> DEFINE g == [f EXCEPT !.tx.rescue = TRUE]
    <2>1. g.tx \in Txs /\ g.tx.commit = f.tx.commit
      BY <1>1, TxParts DEF Txs, Good, Campaigns
    <2>2. g \in Campaigns /\ g.history = f.history /\ g.absorbed = f.absorbed
      BY <2>1 DEF Good, Campaigns
    <2> QED
      BY <1>1, <2>1, <2>2, SameTallies, NoTxIsNoTx DEF Linked
  <1> QED
    BY <1>1 DEF Linked

(* The next commit is newer than whatever was absorbed.                      *)
LEMMA CommittedGood ==
    ASSUME NEW dev \in 0..MaxCommits, NEW f, Good(f, dev), NEW id,
           dev + 1 \in Commits
    PROVE  Good(f, dev + 1) /\ Good(Committed(f, id, dev + 1), dev + 1)
  <1>0. dev \in Nat
    BY Constants
  <1>1. \A i \in DOMAIN f.absorbed :
            /\ f.absorbed[i] \in Nat /\ f.absorbed[i] <= dev
            /\ f.absorbed[i] <= dev + 1 /\ f.absorbed[i] # dev + 1
    <2>1. \A i \in DOMAIN f.absorbed : f.absorbed[i] \in Commits
      BY TxParts
    <2>2. \A i \in DOMAIN f.absorbed : f.absorbed[i] \in Nat
      BY <2>1, Constants
    <2>3. \A i \in DOMAIN f.absorbed : f.absorbed[i] <= dev
      BY DEF Good, Made
    <2> QED
      BY <1>0, <2>2, <2>3
  <1>2. Good(f, dev + 1)
    <2>1. f.tx # NoTx => f.tx.commit \in Nat /\ f.tx.commit <= dev
      BY TxParts, Constants DEF Txs, Good, Made
    <2>2. f.tx # NoTx => f.tx.commit <= dev + 1
      BY <1>0, <2>1
    <2> QED
      BY <1>1, <2>2 DEF Good, Made
  <1>3. CASE f.tx # NoTx
    <2> DEFINE g == [f EXCEPT !.tx.commit = dev + 1, !.tx.required = TRUE,
                              !.tx.verified = FALSE]
    <2>1. g.tx \in Txs /\ g.tx.commit = dev + 1
      BY <1>3, TxParts, Constants DEF Txs, Good, Campaigns
    <2>2. g \in Campaigns /\ g.history = f.history /\ g.absorbed = f.absorbed
      BY <2>1 DEF Good, Campaigns
    <2>3. Distinct(g.history) /\ Distinct(g.absorbed)
      BY <2>2 DEF Good
    <2>4. Made(g, dev + 1)
      <3> HIDE DEF g
      <3>1. g.tx.commit <= dev + 1
        BY <1>0, <2>1
      <3> QED
        BY <1>1, <2>1, <2>2, <3>1 DEF Made
    <2>5. Good(g, dev + 1)
      BY <2>2, <2>3, <2>4 DEF Good
    <2> QED
      BY <1>2, <2>5 DEF Committed
  <1> QED
    BY <1>2, <1>3 DEF Committed, IsActive

(* The active transaction's commit is absorbed, and the transaction ends.    *)
LEMMA AbsorbedGood ==
    ASSUME NEW dev \in 0..MaxCommits, NEW f, Good(f, dev), f.tx # NoTx,
           f.tx.commit # 0
    PROVE  Good([f EXCEPT !.absorbed = Append(f.absorbed, f.tx.commit), !.tx = NoTx],
                dev)
  <1> DEFINE g == [f EXCEPT !.absorbed = Append(f.absorbed, f.tx.commit), !.tx = NoTx]
  <1>0. f.tx.commit \in 0..MaxCommits
    BY TxParts DEF Txs
  <1>1. f.tx.commit \in Commits
    BY <1>0, Constants DEF Commits
  <1>2. f.absorbed \in Seq(Commits) /\ Distinct(f.absorbed)
        /\ \A i \in DOMAIN f.absorbed : f.absorbed[i] # f.tx.commit
    BY TxParts DEF Good, Made
  <1>3. Append(f.absorbed, f.tx.commit) \in Seq(Commits)
        /\ Distinct(Append(f.absorbed, f.tx.commit))
    BY <1>1, <1>2, AppendDistinct
  <1>4. \A i \in DOMAIN Append(f.absorbed, f.tx.commit) :
            Append(f.absorbed, f.tx.commit)[i] <= dev
    <2>1. f.tx.commit <= dev /\ \A i \in DOMAIN f.absorbed : f.absorbed[i] <= dev
      BY DEF Good, Made
    <2>2. TAKE i \in DOMAIN Append(f.absorbed, f.tx.commit)
    <2>3. \/ Append(f.absorbed, f.tx.commit)[i] = f.tx.commit
          \/ i \in DOMAIN f.absorbed
                /\ Append(f.absorbed, f.tx.commit)[i] = f.absorbed[i]
      BY <1>1, <1>2, <2>2, AppendEntries
    <2> QED
      BY <2>1, <2>3
  <1>5. g \in Campaigns
    BY <1>3 DEF Good, Campaigns
  <1>6. /\ g.absorbed = Append(f.absorbed, f.tx.commit)
        /\ g.history = f.history /\ g.tx = NoTx
    BY DEF Good, Campaigns
  <1> QED
    BY <1>3, <1>4, <1>5, <1>6 DEF Good, Made

(* A transaction that ends without being absorbed, or is marked.             *)
LEMMA MarkedGood ==
    ASSUME NEW dev \in 0..MaxCommits, NEW f, Good(f, dev), f.tx # NoTx
    PROVE  /\ Good([f EXCEPT !.tx = NoTx], dev)
           /\ Good([f EXCEPT !.tx.required = TRUE, !.tx.verified = FALSE], dev)
           /\ \A b \in BOOLEAN : Good([f EXCEPT !.tx.required = b], dev)
  <1>1. Good([f EXCEPT !.tx = NoTx], dev)
    BY SameTallies DEF Good, Campaigns
  <1>2. Good([f EXCEPT !.tx.required = TRUE, !.tx.verified = FALSE], dev)
    <2> DEFINE g == [f EXCEPT !.tx.required = TRUE, !.tx.verified = FALSE]
    <2>1. g.tx \in Txs /\ g.tx.commit = f.tx.commit
      BY TxParts DEF Txs, Good, Campaigns
    <2>2. g \in Campaigns /\ g.history = f.history /\ g.absorbed = f.absorbed
      BY <2>1 DEF Good, Campaigns
    <2> QED
      BY <2>1, <2>2, SameTallies, NoTxIsNoTx
  <1>3. ASSUME NEW b \in BOOLEAN PROVE Good([f EXCEPT !.tx.required = b], dev)
    <2> DEFINE g == [f EXCEPT !.tx.required = b]
    <2>1. g.tx \in Txs /\ g.tx.commit = f.tx.commit
      BY TxParts DEF Txs, Good, Campaigns
    <2>2. g \in Campaigns /\ g.history = f.history /\ g.absorbed = f.absorbed
      BY <2>1 DEF Good, Campaigns
    <2> QED
      BY <2>1, <2>2, SameTallies, NoTxIsNoTx
  <1> QED
    BY <1>1, <1>2, <1>3

(* _mark_campaign_restart_verified,                                          *)
LEMMA VerifiedGood ==
    ASSUME NEW dev \in 0..MaxCommits, NEW f, Good(f, dev), NEW e, NEW o
    PROVE  Good(Verified(f, e, o), dev)
  BY AbsorbedGood, MarkedGood DEF Verified

(* and update_evolution_campaign_after_task: its transaction,                *)
LEMMA TallyTxGood ==
    ASSUME NEW dev \in 0..MaxCommits, NEW f, Good(f, dev), NEW id \in Ids
    PROVE  Good(TallyTx(f, id), dev) /\ TallyTx(f, id).history = f.history
  <1>1. CASE f.tx # NoTx
    <2>1. (f.tx.required \/ f.tx.commit # 0) \in BOOLEAN
      OBVIOUS
    <2> QED
      BY <1>1, <2>1, AbsorbedGood, MarkedGood DEF TallyTx, Good, Campaigns
  <1> QED
    BY <1>1 DEF TallyTx, IsActive

(* and the row it appends.                                                   *)
LEMMA TalliedGood ==
    ASSUME NEW dev \in 0..MaxCommits, NEW f, Good(f, dev), NEW id \in Ids,
           NEW meta \in 0..MaxTasks
    PROVE  Good(Tallied(f, id, meta), dev)
  <1>1. CASE f.status # "none" /\ ~Replayed(f, id, meta)
    <2> DEFINE row == [task |-> id, tx |-> TxOf(f, id, meta)]
               g == TallyTx(f, id)
               h == [g EXCEPT !.history = Append(f.history, row)]
    <2>1. Good(g, dev) /\ g.history = f.history
      BY TallyTxGood
    <2>2. row \in Rows
      BY Constants DEF Rows, TxOf
    <2>3. \A i \in DOMAIN f.history : f.history[i] # row
      BY <1>1 DEF Replayed
    <2>4. f.history \in Seq(Rows) /\ Distinct(f.history)
      BY DEF Good, Campaigns
    <2>5. Append(f.history, row) \in Seq(Rows) /\ Distinct(Append(f.history, row))
      BY <2>2, <2>3, <2>4, AppendDistinct
    <2> HIDE DEF row, g
    <2>6. /\ h \in Campaigns /\ h.history = Append(f.history, row)
          /\ h.absorbed = g.absorbed /\ h.tx = g.tx
      BY <2>1, <2>5 DEF Good, Campaigns
    <2>7. Good(h, dev)
      BY <2>1, <2>5, <2>6 DEF Good, Made
    <2> QED
      BY <1>1, <2>7 DEF Tallied, row, g
  <1> QED
    BY <1>1 DEF Tallied
-----------------------------------------------------------------------------
(* The file and every copy of it is good; what begins or queues a cycle is   *)
(* for one and evolution is enabled; a server that is down writes nothing.   *)
Copies ==
    /\ Good(campaign, repo.dev)
    /\ \A a \in Actors : draft[a] # None => Good(draft[a].file, repo.dev)
Beginning ==
    draft["supervisor"] # None /\ draft["supervisor"].then \in {"begin", "enqueue"}
    => draft["supervisor"].id \in Ids /\ st.enabled
Unwritten == life # "up" => draft = [a \in Actors |-> None]
IInv == TypeOK /\ Copies /\ Beginning /\ Unwritten

(* What the invariant says of single parts.                                  *)
LEMMA Parts ==
    ASSUME IInv
    PROVE  /\ repo.dev \in 0..MaxCommits
           /\ HeadCommit \in 0..MaxCommits
           /\ Good(campaign, repo.dev)
           /\ task # NoTask => task \in TaskRecords
           /\ \A a \in Actors : draft[a] # None =>
                 draft[a] \in Drafts /\ Good(draft[a].file, repo.dev)
  BY Constants DEF IInv, TypeOK, Copies, HeadCommit

(* A write that is prepared leaves the copies of the others as they are.     *)
LEMMA Prepared ==
    ASSUME IInv, NEW a \in Actors, NEW f, Good(f, repo.dev), NEW then \in Followups,
           NEW id \in 0..MaxTasks, Prepare(a, f, then, id)
    PROVE  /\ draft' \in [Actors -> Drafts \cup {None}]
           /\ \A b \in Actors : draft'[b] # None => Good(draft'[b].file, repo.dev)
           /\ draft'[a] = Drafted(f, then, id) /\ draft'[a] # None
           /\ \A b \in Actors \ {a} : draft'[b] = draft[b]
  <1>1. Drafted(f, then, id) \in Drafts /\ Drafted(f, then, id).file = f
    BY DEF Drafted, Drafts, Good
  <1>2. Drafted(f, then, id) # None
    BY DEF Drafted, None
  <1> QED
    BY <1>1, <1>2 DEF IInv, TypeOK, Copies, Prepare

(* So does a write that is made, or lost with its process.                   *)
LEMMA Cleared ==
    ASSUME IInv, NEW S \in SUBSET Actors,
           draft' = [a \in Actors |-> IF a \in S THEN None ELSE draft[a]]
    PROVE  /\ draft' \in [Actors -> Drafts \cup {None}]
           /\ \A b \in Actors : draft'[b] # None => Good(draft'[b].file, repo.dev)
  BY DEF IInv, TypeOK, Copies

(* The drafts' part of the invariant.                                        *)
DraftsOK ==
    /\ draft' \in [Actors -> Drafts \cup {None}]
    /\ \A a \in Actors : draft'[a] # None => Good(draft'[a].file, repo'.dev)
FileOK == Good(campaign', repo'.dev)

(* A checkout leaves the dev branch where it is.                             *)
LEMMA CheckedOutDev ==
    ASSUME IInv, CheckedOut
    PROVE  repo'.dev = repo.dev
           /\ repo' \in [dev : 0..MaxCommits, dirty : BOOLEAN, stable : BOOLEAN]
  BY DEF IInv, TypeOK, CheckedOut

(* Every action leaves the copies and the file good: those of the launcher,  *)
LEMMA LauncherCopies ==
    ASSUME IInv, Launcher
    PROVE  DraftsOK /\ FileOK
  <1> USE DEF DraftsOK, FileOK
  <1>1. CASE Boot
    <2>1. repo'.dev = repo.dev
      BY <1>1, CheckedOutDev DEF Boot
    <2>2. Good(BootedCampaign, repo.dev)
      BY Parts, PausedGood, LinkedGood DEF BootedCampaign
    <2> QED
      BY <1>1, <2>1, <2>2 DEF Boot, IInv, TypeOK, Copies
  <1>2. CASE Crash
    <2>1. draft' = [a \in Actors |-> None] /\ UNCHANGED <<repo, campaign>>
      BY <1>2 DEF Crash, Down
    <2> QED
      BY <2>1 DEF IInv, Copies
  <1>3. CASE GiveUp
    BY <1>3 DEF GiveUp, IInv, TypeOK, Copies
  <1> QED
    BY <1>1, <1>2, <1>3 DEF Launcher

(* ... of a worker that boots,                                               *)
LEMMA BootingCopies ==
    ASSUME IInv, BootingWorker
    PROVE  DraftsOK /\ FileOK
  <1> USE DEF DraftsOK, FileOK
  <1>1. CASE BootClaims
    <2>1. UNCHANGED <<repo, campaign>>
      BY <1>1 DEF BootClaims
    <2>2. Good(Verified(campaign, claim, HeadCommit), repo.dev)
      BY Parts, VerifiedGood
    <2>3. "boot" \in Actors /\ "proceed" \in Followups /\ 0 \in 0..MaxTasks
      BY Constants DEF Actors, Followups
    <2>4. CASE UNCHANGED draft
      BY <2>1, <2>4 DEF IInv, TypeOK, Copies
    <2>5. CASE Prepare("boot", Verified(campaign, claim, HeadCommit), "proceed", 0)
      BY <2>1, <2>2, <2>3, <2>5, Prepared DEF IInv, Copies
    <2> QED
      BY <1>1, <2>4, <2>5 DEF BootClaims
  <1>2. CASE BootFindsNothing
    BY <1>2 DEF BootFindsNothing, IInv, TypeOK, Copies
  <1>3. CASE BootWrites
    <2>1. draft' = [a \in Actors |-> IF a \in {"boot"} THEN None ELSE draft[a]]
      BY <1>3 DEF BootWrites, IInv, TypeOK
    <2>2. {"boot"} \in SUBSET Actors
      BY DEF Actors
    <2>3. Good(campaign', repo.dev) /\ UNCHANGED repo
      BY <1>3, <2>2, Parts DEF BootWrites
    <2> QED
      BY <2>1, <2>2, <2>3, Cleared
  <1> QED
    BY <1>1, <1>2, <1>3 DEF BootingWorker

(* ... of the worker that executes the task,                                 *)
LEMMA WorkerCopies ==
    ASSUME IInv, Worker
    PROVE  DraftsOK /\ FileOK
  <1> USE DEF DraftsOK, FileOK
  <1>a. "worker" \in Actors /\ "proceed" \in Followups /\ 0 \in 0..MaxTasks
    BY Constants DEF Actors, Followups
  <1>1. CASE Edit
    <2>1. repo'.dev = repo.dev /\ UNCHANGED <<draft, campaign>>
      BY <1>1 DEF Edit, IInv, TypeOK
    <2> QED
      BY <2>1 DEF IInv, TypeOK, Copies
  <1>2. CASE Commit
    <2>1. repo'.dev = repo.dev + 1 /\ repo.dev + 1 \in Commits /\ UNCHANGED campaign
      BY <1>2, Parts, Constants DEF Commit, Commits
    <2>2. \A f : Good(f, repo.dev) => Good(f, repo'.dev)
      BY <2>1, Parts, CommittedGood
    <2>3. CASE UNCHANGED draft
      BY <2>1, <2>2, <2>3 DEF IInv, TypeOK, Copies
    <2>4. CASE Prepare("worker", Committed(campaign, task.id, repo.dev + 1), "proceed", 0)
      <3> DEFINE f == Committed(campaign, task.id, repo.dev + 1)
      <3>1. Good(f, repo'.dev)
        BY <2>1, Parts, CommittedGood
      <3>2. Drafted(f, "proceed", 0) \in Drafts
            /\ Drafted(f, "proceed", 0).file = f
        BY <1>a, <3>1 DEF Drafted, Drafts, Good
      <3> QED
        BY <1>a, <2>1, <2>2, <2>4, <3>1, <3>2 DEF IInv, TypeOK, Copies, Prepare
    <2> QED
      BY <1>2, <2>3, <2>4 DEF Commit
  <1>3. CASE RequestRestart
    <2>1. UNCHANGED <<repo, campaign>>
      BY <1>3 DEF RequestRestart
    <2>2. Good(RestartAsked(campaign, task.id), repo.dev)
      BY Parts, RestartAskedGood
    <2>3. CASE UNCHANGED draft
      BY <2>1, <2>3 DEF IInv, TypeOK, Copies
    <2>4. CASE Prepare("worker", RestartAsked(campaign, task.id), "proceed", 0)
      BY <1>a, <2>1, <2>2, <2>4, Prepared DEF IInv, Copies
    <2> QED
      BY <1>3, <2>3, <2>4 DEF RequestRestart
  <1>4. CASE WorkerWrites
    <2>1. draft' = [a \in Actors |-> IF a \in {"worker"} THEN None ELSE draft[a]]
      BY <1>4 DEF WorkerWrites, IInv, TypeOK
    <2>2. Good(campaign', repo.dev) /\ UNCHANGED repo
      BY <1>4, <1>a, Parts DEF WorkerWrites
    <2> QED
      BY <1>a, <2>1, <2>2, Cleared
  <1>5. CASE Report \/ AskRestart
    BY <1>5 DEF Report, AskRestart, IInv, TypeOK, Copies
  <1>6. CASE WorkerDies
    <2>1. draft' = [a \in Actors |-> IF a \in {"worker"} THEN None ELSE draft[a]]
      BY <1>6 DEF WorkerDies, WithoutWorker, IInv, TypeOK
    <2> QED
      BY <1>6, <1>a, <2>1, Cleared DEF WorkerDies, IInv, Copies
  <1> QED
    BY <1>1, <1>2, <1>3, <1>4, <1>5, <1>6 DEF Worker

(* ... and of the loop.                                                      *)
LEMMA LoopCopies ==
    ASSUME IInv, Loop
    PROVE  DraftsOK /\ FileOK
  <1> USE DEF DraftsOK, FileOK
  <1>a. /\ {"worker", "supervisor"} \subseteq Actors /\ 0 \in 0..MaxTasks
        /\ {"proceed", "cancel", "begin", "enqueue", "pause", "replayed",
            "succeeded", "failed"} \subseteq Followups
    BY Constants DEF Actors, Followups
  <1>1. CASE UNCHANGED <<draft, campaign, repo>>
    BY <1>1 DEF IInv, TypeOK, Copies
  <1>2. CASE DrainDone
    <2> DEFINE e == Head(events)
    <2>1. e \in DoneEvents
      <3>1. e \in Events
        BY <1>2 DEF DrainDone, IInv, TypeOK
      <3> QED
        BY <1>2, <3>1 DEF DrainDone, Events
    <2>2. PICK meta \in 0..MaxTasks :
            Prepare("supervisor", Tallied(campaign, e.id, meta),
                    IF Replayed(campaign, e.id, meta) THEN "replayed"
                    ELSE IF e.ok THEN "succeeded" ELSE "failed", 0)
      BY <1>2, <2>1, Parts, Constants DEF DrainDone, DoneEvents, Running, TaskRecords
    <2>3. Good(Tallied(campaign, e.id, meta), repo.dev)
      BY <2>1, Parts, TalliedGood DEF DoneEvents
    <2> QED
      BY <1>2, <1>a, <2>2, <2>3, Prepared DEF DrainDone, IInv, Copies
  <1>3. CASE TallyWrites \/ EvolveEnqueues \/ Proceed
    <2>1. draft' = [a \in Actors |-> IF a \in {"supervisor"} THEN None ELSE draft[a]]
      BY <1>3 DEF TallyWrites, EvolveEnqueues, Proceed, IInv, TypeOK
    <2>2. Good(campaign', repo.dev) /\ UNCHANGED repo
      BY <1>3, <1>a, Parts DEF TallyWrites, EvolveEnqueues, Proceed
    <2> QED
      BY <1>a, <2>1, <2>2, Cleared
  <1>4. CASE RestartGoes \/ OwnerRestart \/ Panic
    <2>1. draft' = [a \in Actors |-> None]
      BY <1>4 DEF RestartGoes, OwnerRestart, Panic, Down
    <2>2. repo'.dev = repo.dev
      BY <1>4, CheckedOutDev DEF RestartGoes, OwnerRestart, Panic
    <2>3. Good(campaign', repo.dev)
      BY <1>4, Parts, LinkedGood DEF RestartGoes, OwnerRestart, Panic
    <2> QED
      BY <2>1, <2>2, <2>3
  <1>5. CASE RestartBlocked
    <2>1. UNCHANGED <<repo, campaign>>
      BY <1>5 DEF RestartBlocked
    <2>2. Good(Linked(campaign), repo.dev) /\ Good(campaign, repo.dev)
      BY Parts, LinkedGood
    <2> QED
      BY <1>5, <1>a, <2>1, <2>2, Prepared DEF RestartBlocked
  <1>6. CASE PauseAfterRescue
    <2>1. UNCHANGED repo /\ Good(campaign', repo.dev)
      BY <1>6, <1>a, Parts DEF PauseAfterRescue
    <2>2. Good(Paused(draft["supervisor"].file), repo.dev)
      BY <1>6, <1>a, Parts, PausedGood DEF PauseAfterRescue
    <2> QED
      BY <1>6, <1>a, <2>1, <2>2, Prepared DEF PauseAfterRescue
  <1>7. CASE TimeoutFails \/ TimeoutRetries
    <2>1. draft' = [a \in Actors |-> IF a \in {"worker"} THEN None ELSE draft[a]]
      BY <1>7 DEF TimeoutFails, TimeoutRetries, WithoutWorker, IInv, TypeOK
    <2> QED
      BY <1>7, <1>a, <2>1, Cleared DEF TimeoutFails, TimeoutRetries, IInv, Copies
  <1>8. CASE EvolveRefused \/ EvolveOff
    <2>1. UNCHANGED <<repo, campaign>> /\ Good(Paused(campaign), repo.dev)
      BY <1>8, Parts, PausedGood DEF EvolveRefused, EvolveOff
    <2> QED
      BY <1>8, <1>a, <2>1, Prepared DEF EvolveRefused, EvolveOff, IInv, Copies
  <1>9. CASE EvolveStarts \/ EvolveOn
    <2>1. UNCHANGED <<repo, campaign>> /\ Good(Started(campaign), repo.dev)
      BY <1>9, Parts, StartedGood DEF EvolveStarts, EvolveOn
    <2>2. EvolveStarts => bounds.nextId \in 0..MaxTasks
      BY Constants DEF EvolveStarts
    <2> QED
      BY <1>9, <1>a, <2>1, <2>2, Prepared DEF EvolveStarts, EvolveOn, IInv, Copies
  <1>10. CASE EvolveBegins
    <2>1. draft["supervisor"].id \in Ids
      BY <1>10 DEF EvolveBegins, IInv, Beginning
    <2>2. UNCHANGED repo /\ Good(campaign', repo.dev)
      BY <1>10, <1>a, Parts DEF EvolveBegins
    <2>3. Good(Begun(campaign', draft["supervisor"].id), repo.dev)
      BY <2>1, <2>2, Parts, BegunGood
    <2> QED
      BY <1>10, <1>a, <2>1, <2>2, <2>3, Prepared, Constants DEF EvolveBegins
  <1>11. CASE OffCancels
    <2>1. draft' = [a \in Actors |-> IF a \in {"worker", "supervisor"} THEN None
                                                                    ELSE draft[a]]
      BY <1>11 DEF OffCancels, WithoutWorker, IInv, TypeOK
    <2>2. Good(campaign', repo.dev) /\ UNCHANGED repo
      BY <1>11, <1>a, Parts DEF OffCancels
    <2> QED
      BY <1>a, <2>1, <2>2, Cleared
  <1> QED
    BY <1>1, <1>2, <1>3, <1>4, <1>5, <1>6, <1>7, <1>8, <1>9, <1>10, <1>11
    DEF Loop, ReapFails, ReapRetries, DrainEnd, Assign, AssignDrops, TickEnd
-----------------------------------------------------------------------------
(* So does every step.                                                       *)
LEMMA CopiesStep ==
    ASSUME IInv, [Next]_vars
    PROVE  DraftsOK /\ FileOK
  <1>1. CASE UNCHANGED vars
    BY <1>1 DEF vars, IInv, TypeOK, Copies, DraftsOK, FileOK
  <1> QED
    BY <1>1, LauncherCopies, BootingCopies, WorkerCopies, LoopCopies DEF Next

(* What is not a copy of the campaign file.                                  *)
RestOK ==
    /\ life \in {"up", "down", "stopped"}
    /\ lives \in 0..MaxLives
    /\ phase \in Phases
    /\ st \in [enabled : BOOLEAN, failures : Nat]
    /\ claim \in 0..(MaxCommits + 1)
    /\ repo \in [dev : 0..MaxCommits, dirty : BOOLEAN, stable : BOOLEAN]
    /\ task \in TaskRecords \cup {NoTask}
    /\ booting \in BOOLEAN
    /\ asking \in BOOLEAN
    /\ events \in Seq(Events)
    /\ snapshot \in TaskRecords \cup {NoTask}
    /\ madeIn \in [Commits -> 0..MaxLives]
    /\ bounds \in [nextId : 1..(MaxTasks + 1), faults : 0..MaxFaults]

(* The bounds are used up one by one.                                        *)
LEMMA SpendFault ==
    ASSUME RestOK, bounds.faults > 0, bounds' = [bounds EXCEPT !.faults = @ - 1]
    PROVE  bounds' \in [nextId : 1..(MaxTasks + 1), faults : 0..MaxFaults]
  <1>0. bounds.faults \in 0..MaxFaults
    BY DEF RestOK
  <1>1. bounds.faults - 1 \in 0..MaxFaults
    BY <1>0, Constants
  <1> QED
    BY <1>1 DEF RestOK

(* Using an id leaves the next one within its bound.                         *)
LEMMA SpendId ==
    ASSUME RestOK, bounds.nextId \in Ids, bounds' = [bounds EXCEPT !.nextId = @ + 1]
    PROVE  bounds' \in [nextId : 1..(MaxTasks + 1), faults : 0..MaxFaults]
  <1>0. bounds.nextId \in 1..MaxTasks
    BY DEF Ids
  <1>1. bounds.nextId + 1 \in 1..(MaxTasks + 1)
    BY <1>0, Constants
  <1> QED
    BY <1>1 DEF RestOK

(* A task_done is an event, and so is a restart request.                     *)
LEMMA DoneIsEvent ==
    ASSUME NEW id \in Ids, NEW meta \in 0..MaxTasks, NEW ok \in BOOLEAN
    PROVE  Done(id, meta, ok) \in Events
  BY DEF Done, Events, DoneEvents

(* The queue of events grows by events.                                      *)
LEMMA AppendsEvent ==
    ASSUME NEW s \in Seq(Events), NEW e \in Events
    PROVE  Append(s, e) \in Seq(Events)
  OBVIOUS

(* A process that goes down leaves nothing behind.                           *)
LEMMA DownRest ==
    ASSUME NEW next \in {"down", "stopped"}, Down(next)
    PROVE  /\ life' \in {"up", "down", "stopped"} /\ phase' \in Phases
           /\ task' \in TaskRecords \cup {NoTask} /\ booting' \in BOOLEAN
           /\ asking' \in BOOLEAN /\ events' \in Seq(Events)
  <1>1. <<>> \in Seq(Events)
    OBVIOUS
  <1> QED
    BY <1>1 DEF Down, Phases

(* Every action keeps the types of the rest: of the launcher,                *)
LEMMA LauncherRest ==
    ASSUME IInv, Launcher
    PROVE  RestOK'
  <1>0. RestOK
    BY DEF IInv, TypeOK, RestOK
  <1>1. CASE Boot
    <2>1. repo' \in [dev : 0..MaxCommits, dirty : BOOLEAN, stable : BOOLEAN]
      BY <1>0, <1>1, CheckedOutDev DEF Boot, RestOK
    <2>2. lives' \in 0..MaxLives
      BY <1>0, <1>1, Constants DEF Boot, RestOK
    <2>3. st' \in [enabled : BOOLEAN, failures : Nat]
      <3>1. (st.enabled /\ ~Protected(campaign)) \in BOOLEAN
        BY <1>0 DEF RestOK
      <3> QED
        BY <1>0, <1>1, <3>1 DEF Boot, RestOK
    <2> QED
      BY <1>0, <1>1, <2>1, <2>2, <2>3 DEF Boot, RestOK, Phases
  <1>2. CASE Crash
    BY <1>0, <1>2, DownRest DEF Crash, RestOK
  <1>3. CASE GiveUp
    BY <1>0, <1>3 DEF GiveUp, RestOK
  <1> QED
    BY <1>1, <1>2, <1>3 DEF Launcher

(* ... of a worker that boots,                                               *)
LEMMA BootingRest ==
    ASSUME IInv, BootingWorker
    PROVE  RestOK'
  <1>1. NoClaim \in 0..(MaxCommits + 1)
    BY Constants DEF NoClaim
  <1>2. RestOK
    BY DEF IInv, TypeOK, RestOK
  <1> QED
    BY <1>1, <1>2 DEF RestOK, BootingWorker, BootClaims, BootFindsNothing, BootWrites

(* ... of the worker that executes the task,                                 *)
LEMMA WorkerRest ==
    ASSUME IInv, Worker
    PROVE  RestOK'
  <1>0. RestOK
    BY DEF IInv, TypeOK, RestOK
  <1>1. CASE Edit
    BY <1>0, <1>1 DEF Edit, RestOK
  <1>2. CASE Commit
    <2>1. repo.dev + 1 \in Commits /\ lives \in 0..MaxLives
      BY <1>0, <1>2, Constants DEF Commit, RestOK, Commits
    <2>2. task' \in TaskRecords
      BY <1>0, <1>2, <2>1, Constants DEF Commit, Working, RestOK, TaskRecords
    <2> QED
      BY <1>0, <1>2, <2>1, <2>2, Constants DEF Commit, RestOK
  <1>3. CASE RequestRestart
    <2>1. task' \in TaskRecords
      <3>1. task \in TaskRecords
        BY <1>0, <1>3 DEF RequestRestart, Working, RestOK
      <3>2. task' = [task EXCEPT !.reviewed = 0, !.wants = TRUE]
        BY <1>3 DEF RequestRestart
      <3> QED
        BY <3>1, <3>2, Constants DEF TaskRecords
    <2>2. claim' \in 0..(MaxCommits + 1)
      BY <1>3, Parts, Constants DEF RequestRestart
    <2> QED
      BY <1>0, <1>3, <2>1, <2>2 DEF RequestRestart, RestOK
  <1>4. CASE WorkerWrites
    BY <1>0, <1>4 DEF WorkerWrites, RestOK
  <1>5. CASE Report
    <2>1. task \in TaskRecords
      BY <1>0, <1>5 DEF Report, Working, RestOK
    <2>2. task' \in TaskRecords
      BY <1>5, <2>1 DEF Report, TaskRecords, TaskStates
    <2>3. events' \in Seq(Events)
      <3>1. PICK ok \in BOOLEAN : events' = Append(events, Done(task.id, 0, ok))
        BY <1>5 DEF Report
      <3>2. Done(task.id, 0, ok) \in Events
        BY <2>1, DoneIsEvent, Constants DEF TaskRecords
      <3> QED
        BY <1>0, <3>1, <3>2 DEF RestOK
    <2>4. asking' \in BOOLEAN
      BY <1>0, <1>5, <2>1 DEF Report, RestOK, TaskRecords
    <2> QED
      BY <1>0, <1>5, <2>2, <2>3, <2>4 DEF Report, RestOK
  <1>6. CASE AskRestart
    <2>1. [type |-> "restart"] \in Events
      BY DEF Events
    <2> QED
      BY <1>0, <1>6, <2>1, AppendsEvent DEF AskRestart, RestOK
  <1>7. CASE WorkerDies
    <2>1. task' \in TaskRecords
      BY <1>0, <1>7 DEF WorkerDies, RestOK, TaskRecords, TaskStates
    <2>2. bounds' \in [nextId : 1..(MaxTasks + 1), faults : 0..MaxFaults]
      BY <1>0, <1>7, SpendFault DEF WorkerDies, RestOK
    <2> QED
      BY <1>0, <1>7, <2>1, <2>2 DEF WorkerDies, RestOK
  <1> QED
    BY <1>1, <1>2, <1>3, <1>4, <1>5, <1>6, <1>7 DEF Worker

(* A retry keeps its record, with the next attempt and perhaps a new id.     *)
LEMMA TriedAgain ==
    ASSUME NEW t \in TaskRecords, NEW n \in 1..(MaxRetries + 1), NEW i \in Ids
    PROVE  [t EXCEPT !.id = i, !.at = "pending", !.attempt = n,
                     !.reviewed = 0, !.wants = FALSE] \in TaskRecords
           /\ [t EXCEPT !.at = "pending", !.attempt = n,
                        !.reviewed = 0, !.wants = FALSE] \in TaskRecords
  <1>1. 0 \in 0..MaxCommits /\ "pending" \in TaskStates
    BY Constants DEF TaskStates
  <1> QED
    BY <1>1 DEF TaskRecords

(* ... and of the loop.                                                      *)
LEMMA LoopRest ==
    ASSUME IInv, Loop
    PROVE  RestOK'
  <1>0. RestOK
    BY DEF IInv, TypeOK, RestOK
  <1>1. CASE ReapFails \/ TimeoutFails \/ OffCancels
    <2>1. Running => task \in TaskRecords /\ task.id \in Ids /\ task.tx \in 0..MaxTasks
      BY <1>0, Constants DEF RestOK, Running, TaskRecords
    <2>2. ReapFails => task.id \in Ids
      BY <1>0 DEF RestOK, ReapFails, TaskRecords
    <2>3. events' \in Seq(Events)
      <3>1. CASE ReapFails
        BY <1>0, <2>2, <3>1, DoneIsEvent, AppendsEvent, Constants
        DEF RestOK, ReapFails
      <3>2. CASE TimeoutFails
        BY <1>0, <2>1, <3>2, DoneIsEvent, AppendsEvent DEF RestOK, TimeoutFails
      <3>3. CASE OffCancels
        BY <1>0, <2>1, <3>3, DoneIsEvent, AppendsEvent DEF RestOK, OffCancels
      <3> QED
        BY <1>1, <3>1, <3>2, <3>3
    <2>4. booting' \in BOOLEAN /\ task' = NoTask /\ snapshot' \in {snapshot, NoTask}
      BY <1>0, <1>1 DEF RestOK, ReapFails, TimeoutFails, OffCancels
    <2> QED
      BY <1>0, <1>1, <2>3, <2>4 DEF RestOK, ReapFails, TimeoutFails, OffCancels
  <1>2. CASE ReapRetries \/ TimeoutRetries
    <2>1. task \in TaskRecords /\ task.attempt <= MaxRetries
      BY <1>0, <1>2
      DEF RestOK, ReapRetries, TimeoutRetries, Running, WillRetry, MayRetry
    <2>2. task.attempt + 1 \in 1..(MaxRetries + 1)
      BY <2>1, Constants DEF TaskRecords
    <2>3. task' \in TaskRecords
      <3>1. CASE ReapRetries
        BY <2>1, <2>2, <3>1, TriedAgain DEF ReapRetries, TaskRecords
      <3>2. CASE TimeoutRetries
        BY <2>1, <2>2, <3>2, TriedAgain DEF TimeoutRetries, TaskRecords
      <3> QED
        BY <1>2, <3>1, <3>2
    <2>4. bounds' \in [nextId : 1..(MaxTasks + 1), faults : 0..MaxFaults]
      BY <1>0, <1>2, SpendId DEF RestOK, ReapRetries, TimeoutRetries
    <2> QED
      BY <1>0, <1>2, <2>3, <2>4 DEF RestOK, ReapRetries, TimeoutRetries
  <1>3. CASE DrainDone
    <2>1. events' \in Seq(Events)
      BY <1>0, <1>3 DEF DrainDone, RestOK
    <2>2. task' \in {task, NoTask}
      BY <1>3 DEF DrainDone
    <2> QED
      BY <1>0, <1>3, <2>1, <2>2 DEF DrainDone, RestOK
  <1>4. CASE TallyWrites
    <2>1. st.failures + 1 \in Nat
      BY <1>0 DEF RestOK
    <2>2. st' \in [enabled : BOOLEAN, failures : Nat]
      BY <1>0, <1>4, <2>1 DEF TallyWrites, RestOK
    <2> QED
      BY <1>0, <1>4, <2>2 DEF TallyWrites, RestOK
  <1>5. CASE RestartGoes \/ OwnerRestart
    BY <1>0, <1>5, DownRest, CheckedOutDev DEF RestartGoes, OwnerRestart, RestOK
  <1>6. CASE Panic
    BY <1>0, <1>6, DownRest DEF Panic, RestOK
  <1>7. CASE RestartBlocked
    BY <1>0, <1>7 DEF RestartBlocked, RestOK
  <1>8. CASE PauseAfterRescue \/ EvolveRefused \/ EvolveBegins \/ Proceed
    BY <1>0, <1>8 DEF PauseAfterRescue, EvolveRefused, EvolveBegins, Proceed, RestOK
  <1>9. CASE EvolveStarts \/ EvolveOn \/ EvolveOff
    <2>1. bounds' \in [nextId : 1..(MaxTasks + 1), faults : 0..MaxFaults]
      BY <1>0, <1>9, SpendFault, SpendId DEF EvolveStarts, EvolveOn, EvolveOff
    <2>2. st' \in [enabled : BOOLEAN, failures : Nat]
      <3>1. CASE EvolveStarts
        BY <1>0, <3>1 DEF RestOK, EvolveStarts
      <3>2. CASE EvolveOn
        BY <3>2 DEF EvolveOn
      <3>3. CASE EvolveOff
        BY <1>0, <3>3 DEF RestOK, EvolveOff
      <3> QED
        BY <1>9, <3>1, <3>2, <3>3
    <2> QED
      BY <1>0, <1>9, <2>1, <2>2 DEF RestOK, EvolveStarts, EvolveOn, EvolveOff
  <1>10. CASE EvolveEnqueues
    <2>1. draft["supervisor"].id \in Ids
      BY <1>10 DEF EvolveEnqueues, IInv, Beginning
    <2>2. task' \in TaskRecords
      BY <1>10, <2>1, Constants DEF EvolveEnqueues, TaskRecords, TaskStates
    <2> QED
      BY <1>0, <1>10, <2>2 DEF EvolveEnqueues, RestOK
  <1>11. CASE Assign \/ AssignDrops
    <2>1. task' \in TaskRecords \cup {NoTask}
      BY <1>0, <1>11 DEF Assign, AssignDrops, RestOK, TaskRecords, TaskStates
    <2> QED
      BY <1>0, <1>11, <2>1 DEF Assign, AssignDrops, RestOK
  <1>12. CASE DrainEnd \/ TickEnd
    BY <1>0, <1>12 DEF DrainEnd, TickEnd, RestOK, Phases
  <1> QED
    BY <1>1, <1>2, <1>3, <1>4, <1>5, <1>6, <1>7, <1>8, <1>9, <1>10, <1>11, <1>12
    DEF Loop

(* So does every step.                                                       *)
LEMMA RestStep ==
    ASSUME IInv, [Next]_vars
    PROVE  RestOK'
  <1>1. CASE UNCHANGED vars
    BY <1>1 DEF vars, IInv, TypeOK, RestOK
  <1> QED
    BY <1>1, LauncherRest, BootingRest, WorkerRest, LoopRest DEF Next

(* A server that is down has nothing to write.                               *)
LEMMA NoOneWrites ==
    ASSUME IInv, NEW a \in Actors, draft[a] # None
    PROVE  life = "up"
  BY DEF IInv, Unwritten

(* A cycle begins, and is queued, while evolution is enabled: no other step  *)
(* of the supervisor comes between its read of the state and its writes, and *)
(* the server's end takes the writes with it.                                *)
LEMMA BeginningStep ==
    ASSUME IInv, [Next]_vars
    PROVE  Beginning' /\ Unwritten'
  <1>0. IInv /\ "supervisor" \in Actors
    BY DEF Actors
  <1>1. CASE Launcher
    BY <1>0, <1>1
    DEF Launcher, Boot, Crash, GiveUp, Down, IInv, Beginning, Unwritten, TypeOK
  <1>2. CASE BootingWorker
    BY <1>0, <1>2
    DEF BootingWorker, BootClaims, BootFindsNothing, BootWrites, Prepare, IInv,
        Beginning, Unwritten, TypeOK, Actors
  <1>3. CASE Worker
    BY <1>0, <1>3
    DEF Worker, Working, Edit, Commit, RequestRestart, WorkerWrites, Report, AskRestart,
        WorkerDies, WithoutWorker, Prepare, IInv, Beginning, Unwritten, TypeOK, Actors
  <1>4. CASE Loop
    <2>1. life = "up"
      BY <1>0, <1>4, NoOneWrites
      DEF Loop, In, ReapFails, ReapRetries, DrainDone, TallyWrites, RestartGoes,
          RestartBlocked, PauseAfterRescue, DrainEnd, TimeoutFails, TimeoutRetries,
          EvolveRefused, MayEvolve, EvolveStarts, EvolveBegins, EvolveEnqueues, Assign,
          AssignDrops, TickEnd, EvolveOn, EvolveOff, OffCancels, Proceed, OwnerRestart,
          Panic
    <2>2. CASE RestartGoes \/ OwnerRestart \/ Panic
      BY <1>0, <2>2 DEF RestartGoes, OwnerRestart, Panic, Down, Beginning, Unwritten
    <2>3. CASE EvolveStarts
      <3>1. draft'["supervisor"].id = bounds.nextId /\ bounds.nextId \in Ids
        BY <1>0, <2>3 DEF EvolveStarts, Prepare, Drafted, IInv, TypeOK
      <3> QED
        BY <2>1, <2>3, <3>1 DEF EvolveStarts, MayEvolve, Beginning, Unwritten
    <2>4. CASE EvolveBegins
      <3>1. draft'["supervisor"].id = draft["supervisor"].id
        BY <1>0, <2>4 DEF EvolveBegins, Prepare, Drafted, IInv, TypeOK
      <3> QED
        BY <1>0, <2>1, <2>4, <3>1 DEF EvolveBegins, IInv, Beginning, Unwritten
    <2>5. CASE DrainDone
      <3>1. draft'["supervisor"].then \in {"replayed", "succeeded", "failed"}
        BY <1>0, <2>5 DEF DrainDone, Prepare, Drafted, IInv, TypeOK
      <3> QED
        BY <2>1, <2>5, <3>1 DEF DrainDone, Beginning, Unwritten
    <2>6. CASE RestartBlocked \/ PauseAfterRescue \/ EvolveRefused \/ EvolveOn
               \/ EvolveOff
      <3>1. draft'["supervisor"].then \in {"pause", "proceed", "cancel"}
        BY <1>0, <2>6
        DEF RestartBlocked, PauseAfterRescue, EvolveRefused, EvolveOn, EvolveOff,
            Prepare, Drafted, IInv, TypeOK
      <3>2. UNCHANGED life
        BY <2>6
        DEF RestartBlocked, PauseAfterRescue, EvolveRefused, EvolveOn, EvolveOff
      <3> QED
        BY <2>1, <3>1, <3>2 DEF Beginning, Unwritten
    <2>7. CASE TallyWrites \/ EvolveEnqueues \/ OffCancels \/ Proceed
      <3>1. draft'["supervisor"] = None /\ UNCHANGED life
        BY <1>0, <2>7
        DEF TallyWrites, EvolveEnqueues, OffCancels, Proceed, WithoutWorker, IInv,
            TypeOK
      <3> QED
        BY <2>1, <3>1 DEF Beginning, Unwritten
    <2>8. CASE UNCHANGED <<life, st>> /\ draft'["supervisor"] = draft["supervisor"]
      BY <1>0, <2>1, <2>8 DEF IInv, Beginning, Unwritten
    <2>9. ReapFails \/ ReapRetries \/ DrainEnd \/ TimeoutFails \/ TimeoutRetries
            \/ Assign \/ AssignDrops \/ TickEnd
          => UNCHANGED <<life, st>> /\ draft'["supervisor"] = draft["supervisor"]
      BY <1>0
      DEF ReapFails, ReapRetries, DrainEnd, TimeoutFails, TimeoutRetries, Assign,
          AssignDrops, TickEnd, WithoutWorker, IInv, TypeOK
    <2> QED
      BY <1>4, <2>2, <2>3, <2>4, <2>5, <2>6, <2>7, <2>8, <2>9 DEF Loop
  <1>5. CASE UNCHANGED vars
    BY <1>0, <1>5 DEF vars, IInv, Beginning, Unwritten
  <1> QED
    BY <1>1, <1>2, <1>3, <1>4, <1>5 DEF Next

(* The inductive invariant.                                                  *)
LEMMA Inductive == Spec => []IInv
  <1>1. ASSUME Init PROVE IInv
    <2> USE <1>1
    <2>1. Good(campaign, repo.dev)
      <3>1. campaign \in Campaigns
        BY DEF Init, Campaigns
      <3> QED
        BY <3>1 DEF Init, Good, Distinct, Made
    <2>2. \A a \in Actors : draft[a] = None
      BY DEF Init
    <2>3. TypeOK
      <3>1. /\ lives \in 0..MaxLives /\ claim \in 0..(MaxCommits + 1)
            /\ madeIn \in [Commits -> 0..MaxLives]
            /\ bounds \in [nextId : 1..(MaxTasks + 1), faults : 0..MaxFaults]
        BY Constants DEF Init, NoClaim
      <3>2. repo \in [dev : 0..MaxCommits, dirty : BOOLEAN, stable : BOOLEAN]
        BY Constants DEF Init
      <3>3. events \in Seq(Events) /\ phase \in Phases
            /\ draft \in [Actors -> Drafts \cup {None}]
        <4>1. <<>> \in Seq(Events)
          OBVIOUS
        <4> QED
          BY <4>1 DEF Init, Phases
      <3>4. campaign \in Campaigns
        BY <2>1 DEF Good
      <3>5. st \in [enabled : BOOLEAN, failures : Nat]
        <4>1. {TRUE} \subseteq BOOLEAN /\ {0} \subseteq Nat
          OBVIOUS
        <4>2. st \in [enabled : {TRUE}, failures : {0}]
          BY DEF Init
        <4> QED
          BY <4>1, <4>2
      <3> QED
        BY <3>1, <3>2, <3>3, <3>4, <3>5 DEF Init, TypeOK
    <2>4. "supervisor" \in Actors
      BY DEF Actors
    <2> QED
      BY <2>1, <2>2, <2>3, <2>4 DEF Init, IInv, Copies, Beginning, Unwritten
  <1>2. ASSUME IInv, [Next]_vars PROVE IInv'
    <2>1. RestOK' /\ DraftsOK /\ FileOK
      BY <1>2, RestStep, CopiesStep
    <2>2. TypeOK'
      BY <2>1 DEF TypeOK, RestOK, DraftsOK, FileOK, Good
    <2> QED
      BY <1>2, <2>1, <2>2, BeginningStep DEF IInv, Copies, DraftsOK, FileOK
  <1> QED
    BY <1>1, <1>2, PTL DEF Spec

(* Whatever part of a cycle a crash cuts off, the campaign file, the copies  *)
(* of it that wait to be written, the claim and the events are of their      *)
(* types (queue.py, agent_startup_checks.py, control.py).                    *)
THEOREM CampaignTyping == Spec => []TypeOK
  <1>1. IInv => TypeOK
    BY DEF IInv
  <1> QED
    BY <1>1, Inductive, PTL

(* TalliedOncePerTransaction: update_evolution_campaign_after_task looks for *)
(* the row in the very copy it appends to (queue.py), so that no overwriting *)
(* of copies doubles a row.                                                  *)
THEOREM RowsNeverDoubled == Spec => []TalliedOncePerTransaction
  <1>1. IInv => TalliedOncePerTransaction
    BY DEF IInv, Copies, Good, Distinct, TalliedOncePerTransaction, RowsDistinct
  <1> QED
    BY <1>1, Inductive, PTL

(* AbsorbedOnce: the write that absorbs a commit also ends its transaction   *)
(* (_mark_campaign_restart_verified), and each commit is new when it enters  *)
(* one: a stale copy may forget an absorbed commit, but never doubles it.    *)
THEOREM NeverAbsorbedTwice == Spec => []AbsorbedOnce
  <1>1. IInv => AbsorbedOnce
    BY DEF IInv, Copies, Good, Distinct, AbsorbedOnce, AbsorbedOnceIn
  <1> QED
    BY <1>1, Inductive, PTL

(* StopIsFinal: once the owner's stop, the failure limit or a blocked        *)
(* restart has cleared evolution_mode_enabled, neither the start of a cycle  *)
(* nor a retry puts an evolution task into PENDING (queue.py).               *)
THEOREM StopStaysFinal == Spec => StopIsFinal
  <1> DEFINE A == task' # task /\ task' # NoTask /\ task'.at = "pending" => st.enabled
  <1>1. ASSUME IInv, [Next]_vars PROVE A
    <2>0. TypeOK
      BY <1>1 DEF IInv
    <2>1. CASE UNCHANGED task
      BY <2>1
    <2>2. CASE Loop
      <3>1. CASE ReapRetries \/ TimeoutRetries
        BY <3>1 DEF ReapRetries, TimeoutRetries, WillRetry, MayRetry
      <3>2. CASE EvolveEnqueues
        BY <1>1, <3>2 DEF EvolveEnqueues, IInv, Beginning
      <3>3. CASE Assign
        BY <2>0, <3>3 DEF Assign, TypeOK, TaskRecords
      <3>4. CASE task' \in {task, NoTask}
        BY <3>4
      <3> QED
        BY <2>2, <3>1, <3>2, <3>3, <3>4
        DEF Loop, ReapFails, DrainDone, TallyWrites, RestartGoes, RestartBlocked,
            PauseAfterRescue, DrainEnd, TimeoutFails, EvolveRefused, EvolveStarts,
            EvolveBegins, AssignDrops, TickEnd, EvolveOn, EvolveOff, OffCancels,
            Proceed, OwnerRestart, Panic, Down
    <2>3. CASE Worker
      <3>1. CASE Commit \/ RequestRestart \/ Report \/ WorkerDies
        BY <2>0, <3>1
        DEF Commit, RequestRestart, Report, WorkerDies, Working, TypeOK, TaskRecords
      <3> QED
        BY <2>3, <3>1 DEF Worker, Edit, WorkerWrites, AskRestart
    <2>4. CASE BootingWorker
      BY <2>4 DEF BootingWorker, BootClaims, BootFindsNothing, BootWrites
    <2>5. CASE Launcher
      BY <2>5 DEF Launcher, Boot, Crash, GiveUp, Down
    <2> QED
      BY <1>1, <2>1, <2>2, <2>3, <2>4, <2>5 DEF Next, vars
  <1>2. IInv /\ [Next]_vars => [A]_vars
    BY <1>1
  <1> QED
    BY <1>2, Inductive, PTL DEF Spec, StopIsFinal

(* What an agent has edited and not committed while its cycle is unfinished  *)
(* goes only into a commit, or away when the owner restarts the server.      *)
EditsKept ==
    [][UnfinishedCycle(campaign) /\ repo.dirty /\ ~repo'.dirty
       => Commit \/ OwnerRestart]_vars

(* EditsSurviveBoot, and more: neither a crash, a blocked or a carried out   *)
(* restart request nor the boot after any of them (safe_restart,             *)
(* _bootstrap_supervisor_repo) resets the edits of an unfinished cycle,      *)
(* whatever the campaign file was overwritten with in between.               *)
THEOREM UnfinishedEditsKept == Spec => EditsKept /\ EditsSurviveBoot
  <1> DEFINE A == UnfinishedCycle(campaign) /\ repo.dirty /\ ~repo'.dirty
                      => Commit \/ OwnerRestart
             B == Boot /\ UnfinishedCycle(campaign) /\ repo.dirty => repo'.dirty
  <1>1. ASSUME [Next]_vars PROVE A
    <2> SUFFICES ASSUME UnfinishedCycle(campaign), repo.dirty, ~repo'.dirty,
                        ~Commit, ~OwnerRestart
                 PROVE  FALSE
      OBVIOUS
    <2>1. repo' # repo
      OBVIOUS
    <2>2. ~Loop
      BY <2>1
      DEF Loop, ReapFails, ReapRetries, DrainDone, TallyWrites, RestartGoes,
          RestartBlocked, PauseAfterRescue, DrainEnd, TimeoutFails, TimeoutRetries,
          EvolveRefused, EvolveStarts, EvolveBegins, EvolveEnqueues, Assign,
          AssignDrops, TickEnd, EvolveOn, EvolveOff, OffCancels, Proceed, Panic
    <2>3. ~Worker
      BY <2>1 DEF Worker, Edit, RequestRestart, WorkerWrites, Report, AskRestart, WorkerDies
    <2>4. ~BootingWorker
      BY <2>1 DEF BootingWorker, BootClaims, BootFindsNothing, BootWrites
    <2>5. ~Launcher
      BY <2>1 DEF Launcher, Boot, Protected, Blocked, Crash, GiveUp
    <2> QED
      BY <1>1, <2>1, <2>2, <2>3, <2>4, <2>5 DEF Next, vars
  <1>2. B
    BY DEF Boot, Protected, Blocked
  <1>3. [Next]_vars => [A]_vars /\ [B]_vars
    BY <1>1, <1>2
  <1> QED
    BY <1>3, PTL DEF Spec, EditsKept, EditsSurviveBoot
=============================================================================
