----------------------------- MODULE CacheStore -----------------------------
(***************************************************************************)
(* The cache store (internal/cachestore) and the handlers around it.  A    *)
(* batch of entries is ingested for a run that persists its cache and is   *)
(* running: the row is read first, the file is written later, under a      *)
(* mutex of the pair (run, service).  Entries are appended line by line;   *)
(* a line reaches the file in two chunks, so that a crash, a full disk or  *)
(* a reader that takes no lock may come between them.                      *)
(***************************************************************************)
EXTENDS Naturals, Sequences, FiniteSets

CONSTANTS
  Runs, Persists,  \* runs; those with persist_cache
  Keys, RunOf,     \* (run, service) pairs; RunOf[k]
  Requests, Target, Size,  \* ingest requests: the pair, the number of entries
  Readers, Source,         \* reads of a file: the pair
  Preloads,        \* readers that seed an isolation run: of a completed run only
  Stuck,           \* pairs whose disk may never answer
  MaxCrashes,      \* (bound)
  Faults           \* "rows": reading a row may fail; "disk": a write or a read
                   \*   of a file may; "volume": a crash may take the files

ConstantsOK ==
  /\ Persists \subseteq Runs /\ RunOf \in [Keys -> Runs]
  /\ Target \in [Requests -> Keys] /\ Size \in [Requests -> Nat]
  /\ Source \in [Readers -> Keys] /\ Preloads \subseteq Readers
  /\ Stuck \subseteq Keys /\ MaxCrashes \in Nat /\ Faults \subseteq {"rows", "disk", "volume"}

VARIABLES
  status,        \* status[r], the run's row
  locks, held,   \* Store.locks: a mutex is named {q} for the request q that made
                 \*   it, {} if there is none; the mutexes that are locked
  file,          \* file[k], a sequence of chunks <<entry, 1>> and <<entry, 2>>
  pc, mine, n,   \* requests: where each is, its mutex, the entries it has written
  at, got,       \* readers: where each is, the entries decoded so far
  answer,        \*   what Read returned
  before,        \* history: the requests answered 204 when the read began, but
                 \*   for those whose files a crash has taken
  crashes

store  == <<locks, held, file>>
ingest == <<pc, mine, n>>
reads  == <<at, got, answer, before>>
vars   == <<status, locks, held, file, pc, mine, n, at, got, answer, before, crashes>>

Entries  == Requests \X Nat
Critical == {"head", "tail"}
Over     == {"ok", "failed", "refused", "lost", "gone"}

TypeOK ==
  /\ status \in [Runs -> {"pending", "running", "completed"}]
  /\ locks \in [Keys -> SUBSET Requests] /\ held \subseteq SUBSET Requests
  /\ file \in [Keys -> Seq(Entries \X {1, 2})]
  /\ pc \in [Requests -> {"idle", "lookup", "wait"} \cup Critical \cup Over]
  /\ mine \in [Requests -> SUBSET Requests] /\ n \in [Requests -> Nat]
  /\ at \in [Readers -> {"idle", "read", "ok", "cut", "failed", "lost"}]
  /\ got \in [Readers -> Seq(Entries)] /\ answer \in [Readers -> Seq(Entries)]
  /\ before \in [Readers -> SUBSET Requests]
  /\ crashes \in 0 .. MaxCrashes

Init ==
  /\ status = [r \in Runs |-> "pending"]
  /\ locks = [k \in Keys |-> {}] /\ held = {} /\ file = [k \in Keys |-> <<>>]
  /\ pc = [q \in Requests |-> "idle"] /\ mine = [q \in Requests |-> {}]
  /\ n = [q \in Requests |-> 0]
  /\ at = [d \in Readers |-> "idle"] /\ got = [d \in Readers |-> <<>>]
  /\ answer = [d \in Readers |-> <<>>] /\ before = [d \in Readers |-> {}]
  /\ crashes = 0

(* Chunks 2i - 1 and 2i are one line: what Decode accepts.                 *)
Line(f, i) ==
  /\ 2 * i <= Len(f)
  /\ f[2 * i - 1][2] = 1 /\ f[2 * i] = <<f[2 * i - 1][1], 2>>

(* The number of lines before the first that cannot be decoded.            *)
Whole(f, m)  == \A i \in 1 .. m : Line(f, i)
Lines(f)     == CHOOSE m \in 0 .. Len(f) : Whole(f, m) /\ ~Line(f, m + 1)
Readable(f)  == [i \in 1 .. Lines(f) |-> f[2 * i][1]]

-----------------------------------------------------------------------------
(* The run's row, as the orchestrator moves it.                            *)
StartRun(r) ==
  /\ status[r] = "pending" /\ status' = [status EXCEPT ![r] = "running"]
  /\ UNCHANGED <<store, ingest, reads, crashes>>

CompleteRun(r) ==
  /\ status[r] = "running" /\ status' = [status EXCEPT ![r] = "completed"]
  /\ UNCHANGED <<store, ingest, reads, crashes>>

-----------------------------------------------------------------------------
(* handleCacheIngest.                                                      *)
Goto(q, l) == pc' = [pc EXCEPT ![q] = l]

Admissible(k) == RunOf[k] \in Persists /\ status[RunOf[k]] = "running"

CheckRun(q) ==
  /\ pc[q] = "idle"
  /\ \/ Goto(q, CASE Size[q] = 0 -> "ok"
                  [] Size[q] > 0 /\ Admissible(Target[q]) -> "lookup"
                  [] OTHER -> "refused")
     \/ "rows" \in Faults /\ Size[q] > 0 /\ Goto(q, "failed")
  /\ UNCHANGED <<status, store, mine, n, reads, crashes>>

(* lockFor, under locksMu: the pair's mutex, made on first use.            *)
(* Mutant: a new mutex each time.                                          *)
LockForNew(q) ==
  /\ pc[q] = "lookup" /\ Goto(q, "wait")
  /\ locks' = [locks EXCEPT ![Target[q]] = {q}]
  /\ mine' = [mine EXCEPT ![q] = {q}]
  /\ UNCHANGED <<status, held, file, n, reads, crashes>>

LockFor(q) ==
  /\ pc[q] = "lookup" /\ Goto(q, "wait")
  /\ locks' = [locks EXCEPT ![Target[q]] = IF @ = {} THEN {q} ELSE @]
  /\ mine' = [mine EXCEPT ![q] = locks'[Target[q]]]
  /\ UNCHANGED <<status, held, file, n, reads, crashes>>

Lock(q) ==
  /\ pc[q] = "wait" /\ mine[q] \notin held /\ Goto(q, "head")
  /\ held' = held \cup {mine[q]}
  /\ UNCHANGED <<status, locks, file, mine, n, reads, crashes>>

(* Every return of Write unlocks.                                          *)
Return(q, l) == Goto(q, l) /\ held' = held \ {mine[q]}

(* Encode hands a line to the file in one write, which need not be atomic. *)
Extend(q, part) ==
  file' = [file EXCEPT ![Target[q]] = Append(@, <<<<q, n[q] + 1>>, part>>)]

WriteHead(q) ==
  /\ pc[q] = "head" /\ n[q] < Size[q]
  /\ Extend(q, 1) /\ Goto(q, "tail")
  /\ UNCHANGED <<status, locks, held, mine, n, reads, crashes>>

WriteTail(q) ==
  /\ pc[q] = "tail"
  /\ Extend(q, 2) /\ Goto(q, "head") /\ n' = [n EXCEPT ![q] = @ + 1]
  /\ UNCHANGED <<status, locks, held, mine, reads, crashes>>

WriteDone(q) ==
  /\ pc[q] = "head" /\ n[q] = Size[q] /\ Return(q, "ok")
  /\ UNCHANGED <<status, locks, file, mine, n, reads, crashes>>

(* MkdirAll, OpenFile or a write fails, before the line or within it.      *)
(* Mutant: an error path that does not unlock.                             *)
WriteFailsLocked(q) ==
  /\ "disk" \in Faults /\ pc[q] \in Critical /\ n[q] < Size[q] /\ Goto(q, "failed")
  /\ UNCHANGED <<status, store, mine, n, reads, crashes>>

WriteFails(q) ==
  /\ "disk" \in Faults /\ pc[q] \in Critical /\ n[q] < Size[q] /\ Return(q, "failed")
  /\ UNCHANGED <<status, locks, file, mine, n, reads, crashes>>

-----------------------------------------------------------------------------
(* Read, for handleCacheEntries and for preloadCacheEntries.               *)
GotoRead(d, l) == at' = [at EXCEPT ![d] = l]

OpenRead(d) ==
  /\ at[d] = "idle" /\ GotoRead(d, "read")
  /\ d \in Preloads => status[RunOf[Source[d]]] = "completed"
  /\ before' = [before EXCEPT ![d] = {q \in Requests : pc[q] = "ok" /\ Target[q] = Source[d]}]
  /\ UNCHANGED <<status, store, ingest, got, answer, crashes>>

Decode(d) ==
  LET f == file[Source[d]] i == Len(got[d]) + 1 IN
  /\ at[d] = "read" /\ Line(f, i)
  /\ got' = [got EXCEPT ![d] = Append(@, f[2 * i][1])]
  /\ UNCHANGED <<status, store, ingest, at, answer, before, crashes>>

(* A line that is cut short, a file that cannot be opened and a disk that  *)
(* fails within a line are errors, and the read returns nothing.           *)
(* Mutant: the entries before it are returned.                             *)
DecodeStops(d) ==
  LET f == file[Source[d]] i == Len(got[d]) + 1 IN
  /\ at[d] = "read" /\ Len(f) > 2 * Len(got[d]) /\ ~Line(f, i) /\ GotoRead(d, "ok")
  /\ answer' = [answer EXCEPT ![d] = got[d]]
  /\ UNCHANGED <<status, store, ingest, got, before, crashes>>

DecodeFails(d) ==
  LET f == file[Source[d]] i == Len(got[d]) + 1 IN
  /\ at[d] = "read" /\ GotoRead(d, "failed")
  /\ \/ Len(f) > 2 * Len(got[d]) /\ ~Line(f, i)
     \/ "disk" \in Faults /\ (got[d] = <<>> \/ Len(f) > 2 * Len(got[d]))
  /\ UNCHANGED <<status, store, ingest, got, answer, before, crashes>>

(* More says that there is no next line ...                                *)
Finish(d, l) ==
  /\ at[d] = "read" /\ GotoRead(d, l)
  /\ answer' = [answer EXCEPT ![d] = got[d]]
  /\ UNCHANGED <<status, store, ingest, got, before, crashes>>

EndOfFile(d) == Len(file[Source[d]]) = 2 * Len(got[d]) /\ Finish(d, "ok")

(* ... and says so too when the disk fails at the start of one: Read       *)
(* returns what it has, and no error.                                      *)
ReadCut(d) == "disk" \in Faults /\ Finish(d, "cut")

-----------------------------------------------------------------------------
(* The process dies and comes up again.                                    *)
Restart(answered) ==
  /\ crashes < MaxCrashes /\ crashes' = crashes + 1
  /\ locks' = [k \in Keys |-> {}] /\ held' = {}
  /\ pc' = [q \in Requests |-> CASE pc[q] \in {"lookup", "wait"} \cup Critical -> "lost"
                                 [] pc[q] = "ok" -> answered
                                 [] OTHER -> pc[q]]
  /\ at' = [d \in Readers |-> IF at[d] = "read" THEN "lost" ELSE at[d]]
  /\ UNCHANGED <<status, mine, n, got, answer, before>>

(* The files stay as they are, on a host of its own; in a container, which *)
(* kubernetes-manifests/manteion.yaml gives no volume, they are gone.      *)
Crash           == Restart("ok") /\ UNCHANGED file
CrashLosesFiles == "volume" \in Faults /\ Restart("gone") /\ file' = [k \in Keys |-> <<>>]

Write(q) == \/ LockFor(q) \/ Lock(q) \/ WriteHead(q) \/ WriteTail(q) \/ WriteDone(q)
            \/ WriteFails(q)
Read(d)  == OpenRead(d) \/ Decode(d) \/ DecodeFails(d) \/ EndOfFile(d) \/ ReadCut(d)

Next ==
  \/ \E r \in Runs : StartRun(r) \/ CompleteRun(r)
  \/ \E q \in Requests : CheckRun(q) \/ Write(q)
  \/ \E d \in Readers : Read(d)
  \/ Crash \/ CrashLosesFiles

Spec == Init /\ [][Next]_vars

(* Goroutines run, and so do writes to a disk that answers.                *)
LiveSpec ==
  Spec /\ \A q \in Requests : Target[q] \notin Stuck => WF_vars(Write(q))

-----------------------------------------------------------------------------
(* The store is the log of CacheLog, line by line: batches for a pair are  *)
(* not mixed, nothing that can be read is taken back but with the files,   *)
(* and a read that succeeds is of one moment, although it takes no lock    *)
(* (store.go:52-54); one beneath which the disk has failed got a part.     *)
Log == INSTANCE CacheLog WITH
  log <- [k \in Keys |-> Readable(file[k])], cut <- {d \in Readers : at[d] = "cut"}
ImplementsLog == Log!Spec

(* A read that has come to the end of the file has every entry of every    *)
(* batch answered 204 before it began, unless a crash took the files: what *)
(* a crash or a full disk has cut short makes the reads after it fail, and *)
(* never return less.                                                      *)
NoSilentLoss ==
  \A d \in Readers : at[d] = "ok" =>
    \A q \in before[d] : \A i \in 1 .. Size[q] :
      \E j \in 1 .. Len(answer[d]) : answer[d][j] = <<q, i>>

(* Every ingest that is admitted is answered, whatever fails, and a pair   *)
(* whose disk hangs keeps none for another pair waiting.                   *)
IngestEnds ==
  \A q \in Requests : Target[q] \notin Stuck => []<>(pc[q] \in {"idle"} \cup Over)

(* What the code's comments say and the code does not do.                  *)

(* "Read returns all entries stored for a (runID, service) pair"           *)
(* (store.go:81): also when the disk fails beneath it, or else it reports  *)
(* an error.                                                               *)
ReadReturnsAll ==
  \A d \in Readers : at[d] \in {"ok", "cut"} =>
    \A q \in before[d] : \A i \in 1 .. Size[q] :
      \E j \in 1 .. Len(answer[d]) : answer[d][j] = <<q, i>>
=============================================================================
