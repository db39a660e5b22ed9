---------------------------- MODULE TaskResults -----------------------------
(* The durable result files, one per task, and the threads and processes     *)
(* that write them: the supervisor's main loop, the HTTP event loop, the     *)
(* worker processes and the parent agent's cancel tool.  write_task_result   *)
(* loads the file, refuses a regression against what it LOADED, merges its   *)
(* fields into what it loaded, and atomically replaces the file.  Nothing    *)
(* locks the file between the load and the replace, so the two are separate  *)
(* steps here and other writers come in between.                             *)
(*                                                                           *)
(* A file's contents are its status and the set of writers whose fields it   *)
(* carries: the payload is {**existing, **fields}, with the existing fields  *)
(* as they were loaded.                                                      *)
EXTENDS TaskStatus

CONSTANTS
    Tasks,      \* task ids
    Writers,    \* threads and processes that write results
    MayWrite    \* MayWrite[w][t]: the statuses writer w passes to write_task_result for t

ASSUME MayWriteAssumption == MayWrite \in [Writers -> [Tasks -> SUBSET Statuses]]

VARIABLES
    file,       \* file[t]: the contents of task_results/<t>.json
    inflight    \* inflight[w]: the write w has decided on and not yet performed

vars == <<file, inflight>>

Idle == [kind |-> "idle"]

Contents == [status : Files, fields : SUBSET Writers]

Absent == [status |-> NoResult, fields |-> {}]

Decided ==
    [kind : {"decided"}, task : Tasks, status : Statuses, fields : SUBSET Writers]

TypeOK ==
    /\ file \in [Tasks -> Contents]
    /\ inflight \in [Writers -> Decided \cup {Idle}]

Init ==
    /\ file = [t \in Tasks |-> Absent]
    /\ inflight = [w \in Writers |-> Idle]

(* write_task_result up to the guard: load the file and, unless the write is *)
(* a regression of the loaded status, go on to replace it.                   *)
Load(w, t, s) ==
    /\ inflight[w] = Idle
    /\ s \in MayWrite[w][t]
    /\ \/ file[t].status = NoResult
       \/ ~IsRegression(file[t].status, s)
    /\ inflight' = [inflight EXCEPT ![w] =
            [kind |-> "decided", task |-> t, status |-> s,
             fields |-> file[t].fields \cup {w}]]
    /\ UNCHANGED file

(* The loaded status forbids the write: write_task_result returns what it    *)
(* loaded and leaves the file alone.                                         *)
Refuse(w, t, s) ==
    /\ inflight[w] = Idle
    /\ s \in MayWrite[w][t]
    /\ file[t].status # NoResult
    /\ IsRegression(file[t].status, s)
    /\ UNCHANGED vars

(* The payload built from the loaded contents replaces the file.             *)
Replace(w) ==
    /\ inflight[w] # Idle
    /\ file' = [file EXCEPT ![inflight[w].task] =
            [status |-> inflight[w].status,
             fields |-> inflight[w].fields]]
    /\ inflight' = [inflight EXCEPT ![w] = Idle]

(* A seeded bug: the file is written in place.                               *)
KilledInPlace(w) ==
    /\ inflight[w] # Idle
    /\ file' = [file EXCEPT ![inflight[w].task].status = "truncated"]
    /\ inflight' = [inflight EXCEPT ![w] = Idle]

(* The writer is killed in between (a worker torn down by its supervisor): a *)
(* temporary file may be left behind, the result file is as it was.          *)
Killed(w) ==
    /\ inflight[w] # Idle
    /\ inflight' = [inflight EXCEPT ![w] = Idle]
    /\ UNCHANGED file

Next ==
    \E w \in Writers :
        \/ \E t \in Tasks, s \in Statuses : Load(w, t, s) \/ Refuse(w, t, s)
        \/ Replace(w)
        \/ Killed(w)

Spec == Init /\ [][Next]_vars
-----------------------------------------------------------------------------
(* Who is about to overwrite t, and with what. *)
Incoming(t) == {w \in Writers : inflight[w] # Idle /\ inflight[w].task = t}

(* t is terminal and no write decided on an older status is still to land.   *)
Settled(t) ==
    /\ file[t].status \in TrulyTerminal
    /\ \A w \in Incoming(t) : inflight[w].status = file[t].status

(* A cancel was requested and every write still to land respects it.         *)
Latched(t) ==
    /\ file[t].status \in {"cancel_requested", "cancelled", "failed"}
    /\ \A w \in Incoming(t) :
          inflight[w].status \in {"cancel_requested", "cancelled", "failed"}

(* The lifecycle is final once it has settled: whatever the writers do next, *)
(* a terminal status that no write in flight contradicts is never changed    *)
(* again ("Truly-terminal is sticky", _is_status_regression), and it stays   *)
(* settled.                                                                  *)
SettledIsFinal ==
    [][\A t \in Tasks :
          Settled(t) => Settled(t)' /\ file'[t].status = file[t].status]_vars

(* Once a cancel request has latched with no contrary write in flight, no    *)
(* later write turns the task into a success, a duplicate or a running task. *)
LatchHolds == [][\A t \in Tasks : Latched(t) => Latched(t)']_vars

(* "once completed/failed/cancelled/rejected, only a same-status rewrite is  *)
(* allowed" (the docstring of _is_status_regression), with no proviso about  *)
(* writes in flight.                                                         *)
TerminalIsSticky ==
    [][\A t \in Tasks :
          file[t].status \in TrulyTerminal => file'[t].status = file[t].status]_vars
-----------------------------------------------------------------------------
(* The results that only one thread or process writes.                       *)
Sole == {t \in Tasks : \A v, w \in Writers :
                           MayWrite[v][t] # {} /\ MayWrite[w][t] # {} => v = w}

(* The abstract result store, of those results.                              *)
SoleFile == [t \in Sole |-> file[t]]
Atomic == INSTANCE AtomicResults WITH Tasks <- Sole, file <- SoleFile

(* The load, the guard and the replace behave as one guarded update of the   *)
(* file where a single writer writes it, whatever the writers of the other   *)
(* results do.                                                               *)
AtomicSpec == Atomic!Spec
=============================================================================
