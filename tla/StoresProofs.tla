---------------------------- MODULE StoresProofs ----------------------------
(* Proofs about the components of Stores, side by side: the cache          *)
(* store, which implements CacheLog and whose reads miss nothing that was  *)
(* acknowledged; the catalog of endpoints; the pages of the workflow list. *)
(* Each is on its own here, with constants of its own.                     *)
EXTENDS Stores, FiniteSetTheorems, TLAPS

Chunks == Entries \X {1, 2}

(* Where the lines of a file end: m of them, and then one that is cut      *)
(* short or none.                                                          *)
Scanned(f, m) == m \in 0 .. Len(f) /\ Whole(f, m) /\ ~Line(f, m + 1)

-----------------------------------------------------------------------------
(* Files.                                                                  *)

LEMMA LinesIs ==
  ASSUME NEW f \in Seq(Chunks), NEW m, Scanned(f, m)
  PROVE  Lines(f) = m /\ Readable(f) = [i \in 1 .. m |-> f[2 * i][1]]
<1>1. \A o \in 0 .. Len(f) : Whole(f, o) /\ ~Line(f, o + 1) => o = m
  BY DEF Scanned, Whole
<1>2. Lines(f) = m
  BY <1>1 DEF Lines, Scanned
<1> QED
  BY <1>2 DEF Readable

LEMMA LineLength ==
  ASSUME NEW f \in Seq(Chunks), NEW m \in Nat, Whole(f, m)
  PROVE  2 * m <= Len(f)
<1>1. CASE m = 0
  BY <1>1
<1>2. CASE m > 0
  BY <1>2 DEF Whole, Line
<1> QED
  BY <1>1, <1>2

LEMMA LineStays ==
  ASSUME NEW f \in Seq(Chunks), NEW c \in Chunks, NEW i \in Nat \ {0}, Line(f, i)
  PROVE  Line(Append(f, c), i) /\ Append(f, c)[2 * i] = f[2 * i]
BY DEF Line

LEMMA WholeStays ==
  ASSUME NEW f \in Seq(Chunks), NEW c \in Chunks, NEW m \in Nat, Whole(f, m)
  PROVE  Whole(Append(f, c), m) /\ \A i \in 1 .. m : Append(f, c)[2 * i] = f[2 * i]
<1> SUFFICES ASSUME NEW i \in 1 .. m
             PROVE  Line(Append(f, c), i) /\ Append(f, c)[2 * i] = f[2 * i]
  BY DEF Whole
<1> i \in Nat \ {0} /\ Line(f, i)
  BY DEF Whole
<1> QED
  BY LineStays

(* A chunk completes the line that is one chunk short, or no line at all.  *)
LEMMA AppendScans ==
  ASSUME NEW f \in Seq(Chunks), NEW c \in Chunks, NEW m, Scanned(f, m)
  PROVE  \/ Scanned(Append(f, c), m)
         \/ /\ Scanned(Append(f, c), m + 1)
            /\ Len(f) = 2 * m + 1 /\ f[Len(f)][2] = 1 /\ c = <<f[Len(f)][1], 2>>
<1> DEFINE g == Append(f, c)
<1>1. m \in Nat /\ Len(f) \in Nat /\ 2 * m <= Len(f)
  BY LineLength DEF Scanned
<1>2. Len(g) = Len(f) + 1 /\ g[Len(g)] = c /\ \A i \in 1 .. Len(f) : g[i] = f[i]
  OBVIOUS
<1>3. Whole(g, m)
  BY <1>1, WholeStays DEF Scanned
<1>4. CASE ~Line(g, m + 1)
  BY <1>1, <1>2, <1>3, <1>4 DEF Scanned
<1>5. CASE Line(g, m + 1)
  <2>1. Len(f) = 2 * m + 1
    <3>1. 2 * m + 1 <= Len(f)
      BY <1>1, <1>2, <1>5 DEF Line
    <3>2. CASE Len(f) > 2 * m + 1
      <4>1. g[2 * (m + 1)] = f[2 * (m + 1)] /\ g[2 * (m + 1) - 1] = f[2 * (m + 1) - 1]
        BY <1>1, <1>2, <3>2
      <4> QED
        BY <1>1, <1>5, <3>2, <4>1 DEF Line, Scanned
    <3> QED
      BY <1>1, <3>1, <3>2
  <2>2. f[Len(f)][2] = 1 /\ c = <<f[Len(f)][1], 2>>
    <3>1. g[2 * (m + 1)] = c /\ g[2 * (m + 1) - 1] = f[Len(f)]
      BY <1>1, <1>2, <2>1
    <3> QED
      BY <1>5, <3>1 DEF Line
  <2>3. Whole(g, m + 1)
    BY <1>1, <1>3, <1>5 DEF Whole
  <2>4. ~Line(g, m + 2)
    BY <1>1, <1>2, <2>1 DEF Line
  <2> QED
    BY <1>1, <1>2, <2>1, <2>2, <2>3, <2>4 DEF Scanned
<1> QED
  BY <1>4, <1>5

LEMMA EmptyScans == Scanned(<<>>, 0)
BY DEF Scanned, Whole, Line

(* Every place in such a file is the first or the second half of a line.   *)
LEMMA HalfOfIndex ==
  ASSUME NEW m \in Nat, NEW j \in 1 .. 2 * m
  PROVE  \E i \in 1 .. m : j = 2 * i \/ j = 2 * i - 1
<1> DEFINE half == (j + 1) \div 2
<1>1. half \in Int /\ 2 * half <= j + 1 /\ j + 1 < 2 * half + 2
  OBVIOUS
<1> HIDE DEF half
<1>2. half \in 1 .. m /\ (j = 2 * half \/ j = 2 * half - 1)
  BY <1>1
<1> QED BY <1>2

(* In a file of whole lines, a second half is where a line ends.           *)
LEMMA TailIsEven ==
  ASSUME NEW f \in Seq(Chunks), NEW m \in Nat, Whole(f, m), Len(f) = 2 * m,
         NEW j \in 1 .. Len(f), f[j][2] = 2
  PROVE  \E i \in 1 .. m : j = 2 * i
<1>1. PICK i \in 1 .. m : j = 2 * i \/ j = 2 * i - 1
  BY HalfOfIndex
<1>2. f[2 * i - 1][2] = 1
  BY DEF Whole, Line
<1> QED
  BY <1>1, <1>2

-----------------------------------------------------------------------------
(* The inductive invariant.  A pair has one mutex, and one request in its  *)
(* critical section.                                                       *)
Mutexes ==
  /\ \A k \in Keys : \A p \in locks[k] : Target[p] = k
  /\ \A q \in Requests : pc[q] \in {"wait"} \cup Critical =>
       mine[q] # {} /\ mine[q] = locks[Target[q]]
  /\ \A q \in Requests : pc[q] \in Critical => mine[q] \in held
  /\ \A p, q \in Requests :
       pc[p] \in Critical /\ pc[q] \in Critical /\ Target[p] = Target[q] => p = q

Files ==
  \A k \in Keys :
    /\ \E m \in Nat : Scanned(file[k], m)
    /\ \A j \in 1 .. Len(file[k]) :
         file[k][j][2] = 2 => file[k][j][1][2] \in 1 .. n[file[k][j][1][1]]

(* What a request has written: all of its lines so far, and the last one   *)
(* is where the file ends while it holds the mutex.                        *)
Written(q, i) ==
  \E j \in 1 .. Len(file[Target[q]]) : file[Target[q]][j] = <<<<q, i>>, 2>>

Writing ==
  \A q \in Requests :
    /\ pc[q] \in {"idle", "lookup", "wait"} => n[q] = 0
    /\ pc[q] = "ok" => n[q] = Size[q]
    /\ pc[q] \in Critical => n[q] <= Size[q]
    /\ pc[q] \in Critical \cup {"ok"} => \A i \in 1 .. n[q] : Written(q, i)

AtEnd ==
  \A q \in Requests : LET f == file[Target[q]] IN
    /\ pc[q] = "head" /\ n[q] > 0 => Len(f) > 0 /\ f[Len(f)] = <<<<q, n[q]>>, 2>>
    /\ pc[q] = "tail" =>
         /\ n[q] < Size[q] /\ Len(f) > 0 /\ f[Len(f)] = <<<<q, n[q] + 1>>, 1>>
         /\ n[q] > 0 => Len(f) > 1 /\ f[Len(f) - 1] = <<<<q, n[q]>>, 2>>

Reading ==
  \A d \in Readers :
    /\ at[d] = "idle" => got[d] = <<>>
    /\ at[d] = "read" =>
         /\ Whole(file[Source[d]], Len(got[d]))
         /\ \A j \in 1 .. Len(got[d]) : got[d][j] = file[Source[d]][2 * j][1]
         /\ \A q \in before[d] : pc[q] = "ok" /\ Target[q] = Source[d]

IInv == TypeOK /\ Mutexes /\ Files /\ Writing /\ AtEnd /\ Reading /\ NoSilentLoss

-----------------------------------------------------------------------------
LEMMA InitInv == ASSUME ConstantsOK, Init PROVE IInv
<1>1. TypeOK
  BY DEF ConstantsOK, Init, TypeOK
<1>2. Mutexes
  BY DEF Init, Mutexes, Critical
<1>3. Files
  BY EmptyScans DEF Init, Files
<1>4. Writing /\ AtEnd /\ Reading /\ NoSilentLoss
  BY DEF Init, Writing, AtEnd, Reading, NoSilentLoss, Critical
<1> QED
  BY <1>1, <1>2, <1>3, <1>4 DEF IInv

LEMMA TypeNext == ASSUME ConstantsOK, TypeOK, [Next]_vars PROVE TypeOK'
<1> USE DEF ConstantsOK, TypeOK, Critical, Over
<1>1. ASSUME NEW r \in Runs, StartRun(r) \/ CompleteRun(r) PROVE TypeOK'
  BY <1>1 DEF StartRun, CompleteRun, store, ingest, reads
<1>2. ASSUME NEW q \in Requests, CheckRun(q) PROVE TypeOK'
  <2> \E l \in Over \cup {"lookup"} : pc' = [pc EXCEPT ![q] = l]
    BY <1>2 DEF CheckRun, Goto
  <2> QED
    BY <1>2 DEF CheckRun, store, reads
<1>3. ASSUME NEW q \in Requests, LockFor(q) PROVE TypeOK'
  BY <1>3 DEF LockFor, Goto, reads
<1>4. ASSUME NEW q \in Requests, Lock(q) PROVE TypeOK'
  BY <1>4 DEF Lock, Goto, reads
<1>5. ASSUME NEW q \in Requests, WriteHead(q) PROVE TypeOK'
  <2> <<<<q, n[q] + 1>>, 1>> \in Entries \X {1, 2}
    BY DEF Entries
  <2> file' \in [Keys -> Seq(Entries \X {1, 2})]
    BY <1>5 DEF WriteHead, Extend
  <2> QED
    BY <1>5 DEF WriteHead, Goto, reads
<1>6. ASSUME NEW q \in Requests, WriteTail(q) PROVE TypeOK'
  <2> <<<<q, n[q] + 1>>, 2>> \in Entries \X {1, 2}
    BY DEF Entries
  <2> file' \in [Keys -> Seq(Entries \X {1, 2})]
    BY <1>6 DEF WriteTail, Extend
  <2> QED
    BY <1>6 DEF WriteTail, Goto, reads
<1>7. ASSUME NEW q \in Requests, WriteDone(q) \/ WriteFails(q) PROVE TypeOK'
  <2> \E l \in {"ok", "failed"} : pc' = [pc EXCEPT ![q] = l] /\ held' = held \ {mine[q]}
    BY <1>7 DEF WriteDone, WriteFails, Return, Goto
  <2> QED
    BY <1>7 DEF WriteDone, WriteFails, reads
<1>8. ASSUME NEW d \in Readers, OpenRead(d) PROVE TypeOK'
  BY <1>8 DEF OpenRead, GotoRead, store, ingest
<1>9. ASSUME NEW d \in Readers, Decode(d) PROVE TypeOK'
  <2> DEFINE f == file[Source[d]]
             i == Len(got[d]) + 1
  <2>1. f \in Seq(Entries \X {1, 2}) /\ 2 * i \in 1 .. Len(f)
    BY <1>9 DEF Decode, Line
  <2>2. f[2 * i][1] \in Entries
    BY <2>1
  <2> QED
    BY <1>9, <2>2 DEF Decode, store, ingest
<1>10. ASSUME NEW d \in Readers, DecodeFails(d) \/ EndOfFile(d) \/ ReadCut(d) PROVE TypeOK'
  <2>1. /\ UNCHANGED <<status, store, ingest, got, before, crashes>>
        /\ \E l \in {"ok", "cut", "failed"} : at' = [at EXCEPT ![d] = l]
        /\ UNCHANGED answer \/ answer' = [answer EXCEPT ![d] = got[d]]
    BY <1>10 DEF DecodeFails, EndOfFile, ReadCut, Finish, GotoRead
  <2>2. at' \in [Readers -> {"idle", "read", "ok", "cut", "failed", "lost"}]
    BY <2>1
  <2>3. answer' \in [Readers -> Seq(Entries)]
    BY <2>1
  <2> QED
    BY <2>1, <2>2, <2>3 DEF store, ingest
<1>11. CASE Crash \/ CrashLosesFiles
  <2>1. PICK l \in {"ok", "gone"} : Restart(l)
    BY <1>11 DEF Crash, CrashLosesFiles
  <2>2. file' \in [Keys -> Seq(Entries \X {1, 2})]
    <3>1. <<>> \in Seq(Entries \X {1, 2})
      OBVIOUS
    <3>2. file' = file \/ file' = [k \in Keys |-> <<>>]
      BY <1>11 DEF Crash, CrashLosesFiles
    <3> QED
      BY <3>1, <3>2
  <2>3. pc' \in [Requests -> {"idle", "lookup", "wait"} \cup Critical \cup Over]
    BY <2>1 DEF Restart
  <2> QED
    BY <2>1, <2>2, <2>3 DEF Restart
<1>12. CASE UNCHANGED vars
  BY <1>12 DEF vars
<1> QED
  BY <1>1, <1>2, <1>3, <1>4, <1>5, <1>6, <1>7, <1>8, <1>9, <1>10, <1>11, <1>12
  DEF Next, Write, Read

(* What a crash leaves of a request and of a read.                         *)
LEMMA AfterCrash ==
  ASSUME TypeOK, Crash
  PROVE  /\ UNCHANGED <<file, n, got, answer, before>>
         /\ \A q \in Requests :
              /\ pc'[q] \notin {"lookup", "wait"} \cup Critical
              /\ pc'[q] = pc[q] \/ (pc'[q] = "lost" /\ pc[q] # "ok")
         /\ \A d \in Readers : at'[d] # "read" /\ (at'[d] = at[d] \/ at'[d] = "lost")
BY DEF TypeOK, Crash, Restart, Critical, Over

LEMMA AfterLoss ==
  ASSUME TypeOK, CrashLosesFiles
  PROVE  /\ file' = [k \in Keys |-> <<>>] /\ UNCHANGED <<n, got, answer, before>>
         /\ \A q \in Requests :
              /\ pc'[q] \notin {"lookup", "wait", "ok"} \cup Critical
              /\ pc'[q] = "idle" => pc[q] = "idle"
         /\ \A d \in Readers : at'[d] # "read" /\ (at'[d] = at[d] \/ at'[d] = "lost")
BY DEF TypeOK, CrashLosesFiles, Restart, Critical, Over

LEMMA MutexesNext == ASSUME ConstantsOK, TypeOK, Mutexes, [Next]_vars PROVE Mutexes'
<1> USE DEF ConstantsOK, TypeOK, Mutexes, Critical
<1>1. ASSUME NEW r \in Runs, StartRun(r) \/ CompleteRun(r) PROVE Mutexes'
  BY <1>1 DEF StartRun, CompleteRun, store, ingest
<1>2. ASSUME NEW q \in Requests, CheckRun(q) PROVE Mutexes'
  <2> \E l \in Over \cup {"lookup"} : pc' = [pc EXCEPT ![q] = l]
    BY <1>2 DEF CheckRun, Goto, Over
  <2> QED
    BY <1>2 DEF CheckRun, store, Over
<1>3. ASSUME NEW q \in Requests, LockFor(q) PROVE Mutexes'
  BY <1>3 DEF LockFor, Goto
<1>4. ASSUME NEW q \in Requests, Lock(q) PROVE Mutexes'
  BY <1>4 DEF Lock, Goto
<1>5. ASSUME NEW q \in Requests, WriteHead(q) \/ WriteTail(q) PROVE Mutexes'
  <2> pc[q] \in Critical /\ \E l \in Critical : pc' = [pc EXCEPT ![q] = l]
    BY <1>5 DEF WriteHead, WriteTail, Goto
  <2> UNCHANGED <<locks, held, mine>>
    BY <1>5 DEF WriteHead, WriteTail
  <2> \A p \in Requests : (pc'[p] \in Critical <=> pc[p] \in Critical) /\ (pc'[p] = "wait" <=> pc[p] = "wait")
    OBVIOUS
  <2> QED
    OBVIOUS
<1>6. ASSUME NEW q \in Requests, WriteDone(q) \/ WriteFails(q) PROVE Mutexes'
  <2>1. pc[q] \in Critical /\ pc'[q] \notin {"wait"} \cup Critical
        /\ held' = held \ {mine[q]} /\ UNCHANGED <<locks, mine>>
        /\ \A p \in Requests \ {q} : pc'[p] = pc[p]
    BY <1>6 DEF WriteDone, WriteFails, Return, Goto
  <2>2. \A p \in Requests \ {q} : pc[p] \in Critical => mine[p] # mine[q]
    <3> SUFFICES ASSUME NEW p \in Requests \ {q}, pc[p] \in Critical, mine[p] = mine[q]
                 PROVE  FALSE
      OBVIOUS
    <3>1. PICK o \in mine[p] : TRUE
      OBVIOUS
    <3>2. o \in locks[Target[p]] /\ o \in locks[Target[q]]
      BY <2>1, <3>1
    <3>3. Target[p] = Target[q]
      BY <3>2
    <3> QED
      BY <2>1, <3>3
  <2> QED
    BY <2>1, <2>2
<1>7. ASSUME NEW d \in Readers, Read(d) PROVE Mutexes'
  BY <1>7 DEF Read, OpenRead, Decode, DecodeFails, EndOfFile, ReadCut, Finish, store, ingest
<1>8. CASE Crash \/ CrashLosesFiles
  <2>1. \A k \in Keys : locks'[k] = {}
    BY <1>8 DEF Crash, CrashLosesFiles, Restart
  <2> QED
    BY <1>8, <2>1, AfterCrash, AfterLoss
<1>9. CASE UNCHANGED vars
  BY <1>9 DEF vars
<1> QED
  BY <1>1, <1>2, <1>3, <1>4, <1>5, <1>6, <1>7, <1>8, <1>9 DEF Next, Write

-----------------------------------------------------------------------------
(* Only WriteHead and WriteTail write, one chunk each, to one pair's file. *)
LEMMA FileStep ==
  ASSUME ConstantsOK, TypeOK, NEW q \in Requests, NEW part \in {1, 2}, Extend(q, part)
  PROVE  /\ <<<<q, n[q] + 1>>, part>> \in Chunks
         /\ file'[Target[q]] = Append(file[Target[q]], <<<<q, n[q] + 1>>, part>>)
         /\ \A k \in Keys \ {Target[q]} : file'[k] = file[k]
BY DEF ConstantsOK, TypeOK, Extend, Chunks, Entries

LEMMA WhoWrites ==
  ASSUME [Next]_vars
  PROVE  \/ \E q \in Requests : WriteHead(q) \/ WriteTail(q)
         \/ UNCHANGED <<file, n>>
         \/ CrashLosesFiles
BY DEF Next, vars, StartRun, CompleteRun, CheckRun, Write, LockFor, Lock, WriteDone,
       WriteFails, Read, OpenRead, Decode, DecodeFails, EndOfFile, ReadCut, Finish, Crash,
       Restart, store, ingest

LEMMA FilesNext == ASSUME ConstantsOK, TypeOK, Files, [Next]_vars PROVE Files'
<1>1. ASSUME NEW q \in Requests, WriteHead(q) \/ WriteTail(q) PROVE Files'
  <2>1. PICK part \in {1, 2} :
          /\ Extend(q, part) /\ n' = [n EXCEPT ![q] = @ + (part - 1)]
    <3>1. CASE WriteHead(q)
      <4> n' = [n EXCEPT ![q] = @ + (1 - 1)] /\ Extend(q, 1)
        BY <3>1 DEF WriteHead, TypeOK
      <4> QED
        OBVIOUS
    <3>2. CASE WriteTail(q)
      <4> n' = [n EXCEPT ![q] = @ + (2 - 1)] /\ Extend(q, 2)
        BY <3>2 DEF WriteTail
      <4> QED
        OBVIOUS
    <3> QED
      BY <1>1, <3>1, <3>2
  <2> DEFINE t == Target[q]
             c == <<<<q, n[q] + 1>>, part>>
  <2>2. t \in Keys /\ c \in Chunks /\ file[t] \in Seq(Chunks)
        /\ file'[t] = Append(file[t], c) /\ \A k \in Keys \ {t} : file'[k] = file[k]
    BY <2>1, FileStep DEF ConstantsOK, TypeOK, Chunks
  <2>3. SUFFICES ASSUME NEW k \in Keys
                 PROVE  /\ \E m \in Nat : Scanned(file'[k], m)
                        /\ \A j \in 1 .. Len(file'[k]) :
                             file'[k][j][2] = 2 => file'[k][j][1][2] \in 1 .. n'[file'[k][j][1][1]]
    BY DEF Files
  <2>4. PICK m \in Nat : Scanned(file[k], m)
    BY DEF Files
  <2>5. \A j \in 1 .. Len(file[k]) :
          /\ file[k][j] \in Chunks
          /\ file[k][j][2] = 2 => file[k][j][1][2] \in 1 .. n'[file[k][j][1][1]]
    <3> TAKE j \in 1 .. Len(file[k])
    <3>1. file[k][j] \in Chunks
      BY DEF TypeOK, Chunks
    <3>2. file[k][j][1][1] \in Requests
      BY <3>1 DEF Chunks, Entries
    <3>3. n[file[k][j][1][1]] \in Nat /\ n'[file[k][j][1][1]] \in Nat
          /\ n[file[k][j][1][1]] <= n'[file[k][j][1][1]]
      BY <2>1, <3>2 DEF TypeOK
    <3>4. file[k][j][2] = 2 => file[k][j][1][2] \in 1 .. n[file[k][j][1][1]]
      BY DEF Files
    <3> QED
      BY <3>1, <3>3, <3>4
  <2>6. CASE k = t
    <3>0. file[k] \in Seq(Chunks) /\ c \in Chunks /\ file'[k] = Append(file[k], c)
      BY <2>2, <2>6
    <3>1. \E o \in Nat : Scanned(file'[k], o)
      <4>1. Scanned(Append(file[k], c), m) \/ Scanned(Append(file[k], c), m + 1)
        BY <2>4, <3>0, AppendScans
      <4> QED
        BY <3>0, <4>1
    <3>2. Len(file'[k]) = Len(file[k]) + 1 /\ file'[k][Len(file[k]) + 1] = c
          /\ \A j \in 1 .. Len(file[k]) : file'[k][j] = file[k][j]
      BY <3>0
    <3>3. c[2] = 2 => c[1][2] \in 1 .. n'[c[1][1]]
      BY <2>1 DEF TypeOK
    <3> SUFFICES ASSUME NEW j \in 1 .. Len(file'[k]), file'[k][j][2] = 2
                 PROVE  file'[k][j][1][2] \in 1 .. n'[file'[k][j][1][1]]
      BY <3>1
    <3>4. Len(file[k]) \in Nat
      BY <3>0
    <3>5. CASE j = Len(file[k]) + 1
      BY <3>2, <3>3, <3>5
    <3>6. CASE j # Len(file[k]) + 1
      <4> j \in 1 .. Len(file[k])
        BY <3>2, <3>4, <3>6
      <4> QED
        BY <2>5, <3>2
    <3> QED
      BY <3>5, <3>6
  <2>7. CASE k # t
    BY <2>2, <2>4, <2>5, <2>7
  <2> QED
    BY <2>6, <2>7
<1>2. CASE UNCHANGED <<file, n>>
  BY <1>2 DEF Files
<1>3. CASE CrashLosesFiles
  BY <1>3, AfterLoss, EmptyScans DEF Files
<1> QED
  BY <1>1, <1>2, <1>3, WhoWrites

(* What has been written stays while the files do.                         *)
LEMMA WrittenStays ==
  ASSUME ConstantsOK, TypeOK, TypeOK', [Next]_vars, ~CrashLosesFiles, NEW q \in Requests, NEW i, Written(q, i)
  PROVE  Written(q, i)'
<1>1. ASSUME NEW p \in Requests, WriteHead(p) \/ WriteTail(p) PROVE Written(q, i)'
  <2>1. PICK part \in {1, 2} : Extend(p, part)
    BY <1>1 DEF WriteHead, WriteTail
  <2>2. PICK j \in 1 .. Len(file[Target[q]]) : file[Target[q]][j] = <<<<q, i>>, 2>>
    BY DEF Written
  <2>3. file[Target[q]] \in Seq(Chunks) /\ Target[q] \in Keys
    BY DEF ConstantsOK, TypeOK, Chunks
  <2>4. CASE Target[q] = Target[p]
    <3>1. PICK c \in Chunks : file'[Target[q]] = Append(file[Target[q]], c)
      BY <2>1, <2>4, FileStep
    <3>2. j \in 1 .. Len(file'[Target[q]]) /\ file'[Target[q]][j] = file[Target[q]][j]
      BY <2>3, <3>1
    <3> QED
      BY <2>2, <3>2 DEF Written
  <2>5. CASE Target[q] # Target[p]
    BY <2>1, <2>2, <2>3, <2>5, FileStep DEF Written
  <2> QED
    BY <2>4, <2>5
<1>2. CASE UNCHANGED <<file, n>>
  BY <1>2 DEF Written
<1> QED
  BY <1>1, <1>2, WhoWrites

LEMMA WritingNext ==
  ASSUME ConstantsOK, TypeOK, TypeOK', Writing, AtEnd, [Next]_vars
  PROVE  Writing'
<1> USE DEF Critical, Over
<1>1. SUFFICES ASSUME NEW q \in Requests
               PROVE  /\ pc'[q] \in {"idle", "lookup", "wait"} => n'[q] = 0
                      /\ pc'[q] = "ok" => n'[q] = Size[q]
                      /\ pc'[q] \in Critical => n'[q] <= Size[q]
                      /\ pc'[q] \in Critical \cup {"ok"} => \A i \in 1 .. n'[q] : Written(q, i)'
  BY DEF Writing
<1>2. /\ pc[q] \in {"idle", "lookup", "wait"} => n[q] = 0
      /\ pc[q] = "ok" => n[q] = Size[q]
      /\ pc[q] \in Critical => n[q] <= Size[q]
      /\ pc[q] \in Critical \cup {"ok"} =>
           \A i \in 1 .. n[q] : Written(q, i)' \/ CrashLosesFiles
  BY WrittenStays DEF Writing
<1>3. n[q] \in Nat /\ Size[q] \in Nat
  BY DEF ConstantsOK, TypeOK
<1>4. CASE CrashLosesFiles
  BY <1>2, <1>4, AfterLoss
<1>5. SUFFICES ASSUME ~CrashLosesFiles
                PROVE  /\ pc'[q] \in {"idle", "lookup", "wait"} => n'[q] = 0
                       /\ pc'[q] = "ok" => n'[q] = Size[q]
                       /\ pc'[q] \in Critical => n'[q] <= Size[q]
                       /\ pc'[q] \in Critical \cup {"ok"} => \A i \in 1 .. n'[q] : Written(q, i)'
  BY <1>4
<1>6. CASE CheckRun(q)
  <2>1. UNCHANGED n /\ pc[q] = "idle"
        /\ pc'[q] \in {"ok", "lookup", "refused", "failed"} /\ (pc'[q] = "ok" => Size[q] = 0)
    BY <1>3, <1>6 DEF CheckRun, Goto, TypeOK
  <2> QED
    BY <1>2, <1>5, <2>1
<1>7. CASE LockFor(q) \/ Lock(q) \/ WriteHead(q) \/ WriteDone(q) \/ WriteFails(q)
  <2>1. UNCHANGED n /\ pc'[q] \in {"wait", "head", "tail", "ok", "failed"}
        /\ (pc'[q] = "wait" => pc[q] = "lookup")
        /\ (pc'[q] = "head" => pc[q] = "wait")
        /\ (pc'[q] = "tail" => pc[q] = "head")
        /\ (pc'[q] = "ok" => pc[q] = "head" /\ n[q] = Size[q])
    BY <1>7 DEF LockFor, Lock, WriteHead, WriteDone, WriteFails, Return, Goto, TypeOK
  <2> QED
    BY <1>2, <1>3, <1>5, <2>1
<1>8. CASE WriteTail(q)
  <2>1. pc[q] = "tail" /\ pc'[q] = "head" /\ n'[q] = n[q] + 1 /\ Extend(q, 2) /\ n[q] < Size[q]
    BY <1>8 DEF WriteTail, Goto, TypeOK, AtEnd
  <2>2. file[Target[q]] \in Seq(Chunks)
    BY DEF ConstantsOK, TypeOK, Chunks
  <2>3. \A i : i = n[q] + 1 => Written(q, i)'
    <3> DEFINE f == file[Target[q]]
    <3>1. file'[Target[q]] = Append(f, <<<<q, n[q] + 1>>, 2>>) /\ <<<<q, n[q] + 1>>, 2>> \in Chunks
      BY <2>1, FileStep
    <3>2. Len(f) + 1 \in 1 .. Len(file'[Target[q]]) /\ file'[Target[q]][Len(f) + 1] = <<<<q, n[q] + 1>>, 2>>
      BY <2>2, <3>1
    <3> QED
      BY <3>2 DEF Written
  <2>4. \A i \in 1 .. n[q] + 1 : i \in 1 .. n[q] \/ i = n[q] + 1
    BY <1>3
  <2>5. \A i \in 1 .. n[q] + 1 : Written(q, i)'
    BY <1>2, <1>5, <2>1, <2>3, <2>4
  <2> QED
    BY <1>3, <2>1, <2>5
<1>9. CASE Crash
  <2>1. UNCHANGED n /\ (pc'[q] = pc[q] \/ pc'[q] = "lost")
    BY <1>9, AfterCrash
  <2> QED
    BY <1>2, <1>5, <2>1
<1>10. CASE pc'[q] = pc[q] /\ n'[q] = n[q]
  BY <1>2, <1>5, <1>10
<1>11. \/ CheckRun(q) \/ LockFor(q) \/ Lock(q) \/ WriteHead(q) \/ WriteDone(q) \/ WriteFails(q)
       \/ WriteTail(q) \/ Crash
       \/ pc'[q] = pc[q] /\ n'[q] = n[q]
  <2>1. ASSUME NEW p \in Requests \ {q}, CheckRun(p) \/ Write(p)
        PROVE  pc'[q] = pc[q] /\ n'[q] = n[q]
    BY <2>1 DEF TypeOK, CheckRun, Write, LockFor, Lock, WriteHead, WriteTail, WriteDone,
                WriteFails, Return, Goto
  <2>2. ASSUME NEW r \in Runs, StartRun(r) \/ CompleteRun(r)
        PROVE  pc'[q] = pc[q] /\ n'[q] = n[q]
    BY <2>2 DEF StartRun, CompleteRun, ingest
  <2>3. ASSUME NEW d \in Readers, Read(d) PROVE pc'[q] = pc[q] /\ n'[q] = n[q]
    BY <2>3 DEF Read, OpenRead, Decode, DecodeFails, EndOfFile, ReadCut, Finish, ingest
  <2> QED
    <3>1. UNCHANGED vars => pc'[q] = pc[q] /\ n'[q] = n[q]
      BY DEF vars
    <3>2. ASSUME NEW p \in Requests, CheckRun(p) \/ Write(p)
          PROVE  \/ CheckRun(q) \/ Write(q)
                 \/ pc'[q] = pc[q] /\ n'[q] = n[q]
      BY <2>1, <3>2
    <3>3. \/ CheckRun(q) \/ Write(q) \/ Crash
          \/ pc'[q] = pc[q] /\ n'[q] = n[q]
      BY <1>5, <2>2, <2>3, <3>1, <3>2 DEF Next
    <3> QED
      BY <3>3 DEF Write
<1> QED
  BY <1>6, <1>7, <1>8, <1>9, <1>10, <1>11

LEMMA AtEndNext ==
  ASSUME ConstantsOK, TypeOK, TypeOK', Mutexes, Writing, AtEnd, [Next]_vars
  PROVE  AtEnd'
<1> USE DEF Critical, Over
<1>1. ASSUME NEW q \in Requests, WriteHead(q) PROVE AtEnd'
  <2>1. /\ pc[q] = "head" /\ n[q] < Size[q] /\ UNCHANGED n
        /\ pc' = [pc EXCEPT ![q] = "tail"] /\ Extend(q, 1)
    BY <1>1 DEF WriteHead, Goto
  <2>2. file[Target[q]] \in Seq(Chunks)
        /\ file'[Target[q]] = Append(file[Target[q]], <<<<q, n[q] + 1>>, 1>>)
        /\ \A k \in Keys \ {Target[q]} : file'[k] = file[k]
    BY <2>1, FileStep DEF ConstantsOK, TypeOK, Chunks
  <2>3. ASSUME NEW p \in Requests \ {q}, pc'[p] \in Critical
        PROVE  pc[p] = pc'[p] /\ n[p] = n'[p] /\ file'[Target[p]] = file[Target[p]]
    BY <2>1, <2>2, <2>3 DEF ConstantsOK, TypeOK, Mutexes
  <2> DEFINE f == file[Target[q]]
             g == file'[Target[q]]
  <2>4. pc'[q] = "tail" /\ n'[q] = n[q] /\ n'[q] < Size[q]
    BY <2>1 DEF TypeOK
  <2>5. Len(f) \in Nat /\ Len(g) = Len(f) + 1 /\ g[Len(g)] = <<<<q, n[q] + 1>>, 1>>
        /\ \A j \in 1 .. Len(f) : g[j] = f[j]
    BY <2>2
  <2>6. n[q] > 0 => Len(f) > 0 /\ f[Len(f)] = <<<<q, n[q]>>, 2>>
    BY <2>1 DEF AtEnd
  <2>7. n[q] > 0 => Len(g) > 1 /\ g[Len(g) - 1] = <<<<q, n[q]>>, 2>>
    BY <2>5, <2>6
  <2>8. Len(g) > 0
    BY <2>5
  <2> HIDE DEF f, g
  <2>9. ASSUME NEW p \in Requests
        PROVE  /\ pc'[p] = "head" /\ n'[p] > 0 =>
                    Len(file'[Target[p]]) > 0 /\ file'[Target[p]][Len(file'[Target[p]])] = <<<<p, n'[p]>>, 2>>
               /\ pc'[p] = "tail" =>
                    /\ n'[p] < Size[p] /\ Len(file'[Target[p]]) > 0
                    /\ file'[Target[p]][Len(file'[Target[p]])] = <<<<p, n'[p] + 1>>, 1>>
                    /\ n'[p] > 0 => /\ Len(file'[Target[p]]) > 1
                                    /\ file'[Target[p]][Len(file'[Target[p]]) - 1] = <<<<p, n'[p]>>, 2>>
    <3>1. CASE p = q
      BY <2>4, <2>5, <2>7, <2>8, <3>1 DEF g
    <3>2. CASE p # q
      BY <2>3, <3>2 DEF AtEnd
    <3> QED
      BY <3>1, <3>2
  <2> QED
    BY <2>9 DEF AtEnd
<1>2. ASSUME NEW q \in Requests, WriteTail(q) PROVE AtEnd'
  <2>1. /\ pc[q] = "tail" /\ n'[q] = n[q] + 1 /\ n' = [n EXCEPT ![q] = @ + 1]
        /\ pc' = [pc EXCEPT ![q] = "head"] /\ Extend(q, 2)
    BY <1>2 DEF WriteTail, Goto, TypeOK
  <2>2. file[Target[q]] \in Seq(Chunks)
        /\ file'[Target[q]] = Append(file[Target[q]], <<<<q, n[q] + 1>>, 2>>)
        /\ \A k \in Keys \ {Target[q]} : file'[k] = file[k]
    BY <2>1, FileStep DEF ConstantsOK, TypeOK, Chunks
  <2>3. ASSUME NEW p \in Requests \ {q}, pc'[p] \in Critical
        PROVE  pc[p] = pc'[p] /\ n[p] = n'[p] /\ file'[Target[p]] = file[Target[p]]
    BY <2>1, <2>2, <2>3 DEF ConstantsOK, TypeOK, Mutexes
  <2>4. /\ pc'[q] = "head" /\ Len(file'[Target[q]]) > 0
        /\ file'[Target[q]][Len(file'[Target[q]])] = <<<<q, n'[q]>>, 2>>
    BY <2>1, <2>2 DEF TypeOK
  <2> QED
    BY <2>3, <2>4 DEF AtEnd
<1>3. CASE UNCHANGED <<file, n>>
  <2>1. SUFFICES ASSUME NEW q \in Requests, pc'[q] \in Critical
                 PROVE  pc'[q] = pc[q] \/ (pc'[q] = "head" /\ n[q] = 0)
                        \/ \E p \in Requests : WriteHead(p) \/ WriteTail(p)
    BY <1>1, <1>2, <1>3 DEF AtEnd
  <2>2. ASSUME NEW p \in Requests, CheckRun(p) \/ Write(p)
        PROVE  pc'[q] = pc[q] \/ (pc'[q] = "head" /\ n[q] = 0)
               \/ WriteHead(p) \/ WriteTail(p)
    <3>1. CASE CheckRun(p)
      <4> \E l \in Over \cup {"lookup"} : pc' = [pc EXCEPT ![p] = l]
        BY <3>1 DEF CheckRun, Goto
      <4> QED
        BY <2>1 DEF TypeOK
    <3>2. CASE LockFor(p) \/ Lock(p) \/ WriteDone(p) \/ WriteFails(p)
      BY <2>1, <3>2
      DEF TypeOK, Writing, LockFor, Lock, WriteDone, WriteFails, Return, Goto
    <3> QED
      BY <2>2, <3>1, <3>2 DEF Write
  <2>3. CASE \E r \in Runs : StartRun(r) \/ CompleteRun(r)
    BY <2>3 DEF StartRun, CompleteRun, ingest
  <2>4. CASE \E d \in Readers : Read(d)
    BY <2>4 DEF Read, OpenRead, Decode, DecodeFails, EndOfFile, ReadCut, Finish, ingest
  <2>5. CASE Crash \/ CrashLosesFiles
    BY <2>1, <2>5, AfterCrash, AfterLoss
  <2>6. CASE UNCHANGED vars
    BY <2>6 DEF vars
  <2> QED
    BY <2>2, <2>3, <2>4, <2>5, <2>6 DEF Next
<1>4. CASE CrashLosesFiles
  BY <1>4, AfterLoss DEF AtEnd
<1> QED
  BY <1>1, <1>2, <1>3, <1>4, WhoWrites

-----------------------------------------------------------------------------
(* The readers.  A file grows until it is gone, so that what has been      *)
(* decoded stays.                                                          *)
LEMMA FilesGrow ==
  ASSUME ConstantsOK, TypeOK, [Next]_vars, ~CrashLosesFiles,
         NEW k \in Keys, NEW m \in Nat, Whole(file[k], m)
  PROVE  Whole(file'[k], m) /\ \A i \in 1 .. m : file'[k][2 * i] = file[k][2 * i]
<1>1. ASSUME NEW q \in Requests, WriteHead(q) \/ WriteTail(q)
      PROVE  file'[k] = file[k] \/ \E c \in Chunks : file'[k] = Append(file[k], c)
  <2>1. PICK part \in {1, 2} : Extend(q, part)
    BY <1>1 DEF WriteHead, WriteTail
  <2> QED
    BY <2>1, FileStep
<1>2. file'[k] = file[k] \/ \E c \in Chunks : file'[k] = Append(file[k], c)
  BY <1>1, WhoWrites
<1>3. file[k] \in Seq(Chunks)
  BY DEF TypeOK, Chunks
<1> QED
  BY <1>2, <1>3, WholeStays

(* Requests that have been answered 204 stay so.                           *)
LEMMA OkStays ==
  ASSUME TypeOK, [Next]_vars, ~CrashLosesFiles, NEW q \in Requests, pc[q] = "ok"
  PROVE  pc'[q] = "ok"
<1>1. ASSUME NEW p \in Requests, CheckRun(p) \/ Write(p) PROVE pc'[q] = "ok"
  BY <1>1 DEF TypeOK, CheckRun, Write, LockFor, Lock, WriteHead, WriteTail, WriteDone,
              WriteFails, Return, Goto, Critical
<1>2. ASSUME NEW r \in Runs, StartRun(r) \/ CompleteRun(r) PROVE pc'[q] = "ok"
  BY <1>2 DEF StartRun, CompleteRun, ingest
<1>3. ASSUME NEW d \in Readers, Read(d) PROVE pc'[q] = "ok"
  BY <1>3 DEF Read, OpenRead, Decode, DecodeFails, EndOfFile, ReadCut, Finish, ingest
<1>4. CASE Crash
  BY <1>4, AfterCrash
<1>5. CASE UNCHANGED vars
  BY <1>5 DEF vars
<1> QED
  BY <1>1, <1>2, <1>3, <1>4, <1>5 DEF Next

LEMMA WhoReads ==
  ASSUME ConstantsOK, TypeOK, [Next]_vars, NEW d \in Readers
  PROVE  \/ Read(d)
         \/ /\ at'[d] = at[d] \/ at'[d] = "lost"
            /\ got'[d] = got[d] /\ answer'[d] = answer[d] /\ before'[d] = before[d]
<1> DEFINE Same == /\ at'[d] = at[d] \/ at'[d] = "lost"
                   /\ got'[d] = got[d] /\ answer'[d] = answer[d] /\ before'[d] = before[d]
<1>1. ASSUME NEW r \in Runs, StartRun(r) \/ CompleteRun(r) PROVE Same
  BY <1>1 DEF StartRun, CompleteRun, reads
<1>2. ASSUME NEW q \in Requests, CheckRun(q) \/ Write(q) PROVE Same
  BY <1>2
  DEF CheckRun, Write, LockFor, Lock, WriteHead, WriteTail, WriteDone, WriteFails,
      reads
<1>3. ASSUME NEW e \in Readers \ {d}, Read(e) PROVE Same
  BY <1>3 DEF TypeOK, Read, OpenRead, Decode, DecodeFails, EndOfFile, ReadCut, Finish,
             GotoRead
<1>4. Crash \/ CrashLosesFiles => Same
  BY AfterCrash, AfterLoss
<1>5. UNCHANGED vars => Same
  BY DEF vars
<1> HIDE DEF Same
<1>6. Read(d) \/ Same
  <2>1. ASSUME NEW e \in Readers, Read(e) PROVE Read(d) \/ Same
    BY <1>3, <2>1
  <2> QED
    BY <1>1, <1>2, <1>4, <1>5, <2>1 DEF Next
<1> QED
  BY <1>6 DEF Same

LEMMA ReadingNext ==
  ASSUME ConstantsOK, TypeOK, TypeOK', Files, Reading, [Next]_vars
  PROVE  Reading'
<1>1. SUFFICES ASSUME NEW d \in Readers
               PROVE  /\ at'[d] = "idle" => got'[d] = <<>>
                      /\ at'[d] = "read" =>
                           /\ Whole(file'[Source[d]], Len(got'[d]))
                           /\ \A j \in 1 .. Len(got'[d]) : got'[d][j] = file'[Source[d]][2 * j][1]
                           /\ \A q \in before'[d] : pc'[q] = "ok" /\ Target[q] = Source[d]
  BY DEF Reading
<1> DEFINE f == file[Source[d]]
<1>2. Source[d] \in Keys /\ f \in Seq(Chunks) /\ got[d] \in Seq(Entries) /\ before[d] \subseteq Requests
  BY DEF ConstantsOK, TypeOK, Chunks
<1>3. CASE OpenRead(d)
  <2>1. /\ at[d] = "idle" /\ at'[d] = "read" /\ UNCHANGED <<got, pc>>
        /\ before'[d] = {q \in Requests : pc[q] = "ok" /\ Target[q] = Source[d]}
    BY <1>3 DEF OpenRead, GotoRead, TypeOK, ingest
  <2>2. got'[d] = <<>> /\ Len(got'[d]) = 0
    BY <2>1 DEF Reading
  <2> QED
    BY <2>1, <2>2 DEF Whole
<1>4. CASE Decode(d)
  <2> DEFINE m == Len(got[d])
  <2>1. /\ at[d] = "read" /\ UNCHANGED <<at, pc, file, before>> /\ Line(f, m + 1)
        /\ got'[d] = Append(got[d], f[2 * (m + 1)][1])
    BY <1>4 DEF Decode, TypeOK, ingest, store
  <2>2. /\ Whole(f, m) /\ \A j \in 1 .. m : got[d][j] = f[2 * j][1]
        /\ \A q \in before[d] : pc[q] = "ok" /\ Target[q] = Source[d]
    BY <2>1 DEF Reading
  <2>3. m \in Nat /\ Len(got'[d]) = m + 1 /\ got'[d][m + 1] = f[2 * (m + 1)][1]
        /\ \A j \in 1 .. m : got'[d][j] = got[d][j]
    BY <1>2, <2>1 DEF TypeOK
  <2>4. Whole(f, m + 1)
    BY <2>1, <2>2, <2>3 DEF Whole
  <2>5. \A j \in 1 .. m + 1 : got'[d][j] = f[2 * j][1]
    <3> TAKE j \in 1 .. m + 1
    <3> j \in 1 .. m \/ j = m + 1
      BY <2>3
    <3> QED
      BY <2>2, <2>3
  <2> HIDE DEF m
  <2> QED
    BY <2>1, <2>2, <2>3, <2>4, <2>5
<1>5. CASE DecodeFails(d) \/ EndOfFile(d) \/ ReadCut(d)
  BY <1>5 DEF DecodeFails, EndOfFile, ReadCut, Finish, GotoRead, TypeOK
<1>6. CASE /\ at'[d] = at[d] \/ at'[d] = "lost"
           /\ got'[d] = got[d] /\ before'[d] = before[d]
  <2>1. CASE at'[d] = "read"
    <3>1. at[d] = "read" /\ ~CrashLosesFiles
      BY <1>6, <2>1, AfterLoss
    <3>2. /\ Whole(f, Len(got[d]))
          /\ \A j \in 1 .. Len(got[d]) : got[d][j] = f[2 * j][1]
          /\ \A q \in before[d] : pc[q] = "ok" /\ Target[q] = Source[d]
      BY <3>1 DEF Reading
    <3>3. /\ Whole(file'[Source[d]], Len(got[d]))
          /\ \A j \in 1 .. Len(got[d]) : file'[Source[d]][2 * j] = f[2 * j]
      <4>1. ASSUME NEW m \in Nat, m = Len(got[d])
            PROVE  Whole(file'[Source[d]], m) /\ \A j \in 1 .. m : file'[Source[d]][2 * j] = f[2 * j]
        BY <1>2, <3>1, <3>2, <4>1, FilesGrow
      <4> QED
        BY <1>2, <4>1
    <3>4. \A q \in before[d] : pc'[q] = "ok"
      BY <1>2, <3>1, <3>2, OkStays
    <3> QED
      BY <1>6, <2>1, <3>2, <3>3, <3>4
  <2>2. CASE at'[d] # "read"
    BY <1>6, <2>2 DEF Reading
  <2> QED
    BY <2>1, <2>2
<1> QED
  BY <1>3, <1>4, <1>5, <1>6, WhoReads DEF Read

(* The file ended where the reader had got to: every chunk was read.       *)
LEMMA NoSilentLossNext ==
  ASSUME ConstantsOK, TypeOK, TypeOK', Writing, Reading, NoSilentLoss, [Next]_vars
  PROVE  NoSilentLoss'
<1>1. SUFFICES ASSUME NEW d \in Readers, at'[d] = "ok", NEW q \in before'[d], NEW i \in 1 .. Size[q]
               PROVE  \E j \in 1 .. Len(answer'[d]) : answer'[d][j] = <<q, i>>
  BY DEF NoSilentLoss
<1>2. CASE EndOfFile(d)
  <2> DEFINE f == file[Source[d]]
             m == Len(got[d])
  <2>1. at[d] = "read" /\ Len(f) = 2 * m /\ answer'[d] = got[d] /\ before'[d] = before[d]
    BY <1>2 DEF EndOfFile, Finish, TypeOK
  <2>2. /\ Whole(f, m) /\ \A j \in 1 .. m : got[d][j] = f[2 * j][1]
        /\ pc[q] = "ok" /\ Target[q] = Source[d]
    BY <2>1 DEF Reading
  <2>3. q \in Requests /\ f \in Seq(Chunks) /\ m \in Nat
    BY <2>1 DEF ConstantsOK, TypeOK, Chunks
  <2>4. PICK j \in 1 .. Len(f) : f[j] = <<<<q, i>>, 2>>
    <3>1. n[q] = Size[q] /\ \A o \in 1 .. n[q] : Written(q, o)
      BY <2>2, <2>3 DEF Writing
    <3> QED
      BY <2>2, <3>1 DEF Written
  <2>5. PICK o \in 1 .. m : j = 2 * o
    <3>1. f[j][2] = 2
      BY <2>4
    <3> HIDE DEF f, m
    <3> QED
      BY <2>1, <2>2, <2>3, <3>1, TailIsEven
  <2>6. answer'[d][o] = <<q, i>> /\ o \in 1 .. Len(answer'[d])
    <3>1. got[d][o] = f[2 * o][1]
      BY <2>2
    <3> QED
      BY <2>1, <2>4, <2>5, <3>1
  <2> QED
    BY <2>6
<1>3. CASE OpenRead(d) \/ Decode(d) \/ DecodeFails(d) \/ ReadCut(d)
  BY <1>1, <1>3 DEF OpenRead, Decode, DecodeFails, ReadCut, Finish, GotoRead, TypeOK
<1>4. CASE /\ at'[d] = at[d] \/ at'[d] = "lost"
           /\ answer'[d] = answer[d] /\ before'[d] = before[d]
  BY <1>1, <1>4 DEF NoSilentLoss
<1> QED
  BY <1>2, <1>3, <1>4, WhoReads DEF Read

LEMMA InvNext == ASSUME ConstantsOK, IInv, [Next]_vars PROVE IInv'
BY TypeNext, MutexesNext, FilesNext, WritingNext, AtEndNext, ReadingNext, NoSilentLossNext
DEF IInv

(* The variables keep their types.                                         *)
THEOREM TypeCorrect == ASSUME ConstantsOK PROVE Spec => []TypeOK
<1>1. IInv => TypeOK
  BY DEF IInv
<1> QED
  BY <1>1, InitInv, InvNext, PTL DEF Spec

(* store.go:81-104: whatever a crash, a full disk or a writer in progress  *)
(* has left in the file, a read that comes to its end has every entry of   *)
(* every batch acknowledged before it began, but those of a container that *)
(* was replaced.                                                           *)
THEOREM ReadsMissNothing == ASSUME ConstantsOK PROVE Spec => []NoSilentLoss
<1>1. IInv => NoSilentLoss
  BY DEF IInv
<1> QED
  BY <1>1, InitInv, InvNext, PTL DEF Spec

-----------------------------------------------------------------------------
(* The refinement: a file, as CacheLog sees it.                            *)
LEMMA ReadableType ==
  ASSUME NEW f \in Seq(Chunks), NEW m, Scanned(f, m)
  PROVE  Readable(f) \in Seq(Entries) /\ Len(Readable(f)) = m
         /\ \A i \in 1 .. m : Readable(f)[i] = f[2 * i][1]
<1>1. m \in Nat /\ 2 * m <= Len(f)
  BY LineLength DEF Scanned
<1>2. Readable(f) = [i \in 1 .. m |-> f[2 * i][1]]
  BY LinesIs
<1>3. \A i \in 1 .. m : f[2 * i][1] \in Entries
  <2> TAKE i \in 1 .. m
  <2>1. 2 * i \in 1 .. Len(f)
    BY <1>1
  <2> QED
    BY <2>1 DEF Chunks
<1>4. Readable(f) \in [1 .. m -> Entries]
  BY <1>2, <1>3
<1>5. Readable(f) \in Seq(Entries) /\ Len(Readable(f)) = m
  BY <1>1, <1>4
<1>6. \A i \in 1 .. m : Readable(f)[i] = f[2 * i][1]
  BY <1>2
<1> QED
  BY <1>5, <1>6

LEMMA HeadReadsSame ==
  ASSUME NEW f \in Seq(Chunks), NEW c \in Chunks, NEW m \in Nat, Scanned(f, m), Scanned(Append(f, c), m)
  PROVE  Readable(Append(f, c)) = Readable(f)
<1>1. 2 * m <= Len(f) /\ Append(f, c) \in Seq(Chunks)
  BY LineLength DEF Scanned
<1>2. \A i \in 1 .. m : Append(f, c)[2 * i] = f[2 * i]
  BY WholeStays DEF Scanned
<1>3. Readable(f) = [i \in 1 .. m |-> f[2 * i][1]]
  BY LinesIs
<1>4. Readable(Append(f, c)) = [i \in 1 .. m |-> Append(f, c)[2 * i][1]]
  BY <1>1, LinesIs
<1> HIDE DEF Readable
<1> QED
  BY <1>2, <1>3, <1>4

LEMMA TailReadsOne ==
  ASSUME NEW f \in Seq(Chunks), NEW c \in Chunks, NEW m \in Nat,
         Scanned(f, m), Scanned(Append(f, c), m + 1), Len(f) = 2 * m + 1
  PROVE  Readable(Append(f, c)) = Append(Readable(f), c[1])
<1> DEFINE g == Append(f, c)
<1>1. g \in Seq(Chunks) /\ g[2 * (m + 1)] = c
  OBVIOUS
<1>2. \A i \in 1 .. m : g[2 * i] = f[2 * i]
  BY WholeStays DEF Scanned
<1>3. Readable(g) = [i \in 1 .. m + 1 |-> g[2 * i][1]]
  BY <1>1, LinesIs
<1>4. Readable(f) \in Seq(Entries) /\ Len(Readable(f)) = m
      /\ \A i \in 1 .. m : Readable(f)[i] = f[2 * i][1]
  BY ReadableType
<1>5. Append(Readable(f), c[1]) =
        [i \in 1 .. m + 1 |-> IF i <= m THEN Readable(f)[i] ELSE c[1]]
  BY <1>4
<1>6. \A i \in 1 .. m + 1 : g[2 * i][1] = IF i <= m THEN Readable(f)[i] ELSE c[1]
  <2> TAKE i \in 1 .. m + 1
  <2>1. CASE i <= m
    BY <1>2, <1>4, <2>1
  <2>2. CASE i = m + 1
    BY <1>1, <2>2
  <2> QED
    BY <2>1, <2>2
<1> HIDE DEF g
<1>7. Readable(g) = Append(Readable(f), c[1])
  BY <1>3, <1>5, <1>6
<1> QED
  BY <1>7 DEF g

Logs == [k \in Keys |-> Readable(file[k])]
Cuts == {d \in Readers : at[d] = "cut"}

LEMMA EmptyReads == Readable(<<>>) = <<>>
<1>1. <<>> \in Seq(Chunks)
  OBVIOUS
<1>2. Readable(<<>>) \in Seq(Entries) /\ Len(Readable(<<>>)) = 0
  BY <1>1, EmptyScans, ReadableType
<1> QED
  BY <1>2

LEMMA InitRefines == ASSUME ConstantsOK, Init PROVE Log!Init
BY EmptyReads DEF Init, Log!Init

(* An abstract step on one log.                                            *)
LEMMA LogStep ==
  ASSUME ConstantsOK, TypeOK, Files, NEW q \in Requests, NEW part \in {1, 2}, Extend(q, part)
  PROVE  LET t == Target[q] IN
         \/ Logs' = Logs
         \/ /\ part = 2 /\ file[t][Len(file[t])] = <<file[t][Len(file[t])][1], 1>>
            /\ Len(file[t]) = 2 * Len(Logs[t]) + 1
            /\ Logs' = [Logs EXCEPT ![t] = Append(@, <<q, n[q] + 1>>)]
<1> DEFINE t == Target[q]
           f == file[t]
           c == <<<<q, n[q] + 1>>, part>>
<1>1. t \in Keys /\ f \in Seq(Chunks) /\ c \in Chunks /\ file'[t] = Append(f, c)
      /\ \A k \in Keys \ {t} : file'[k] = file[k]
  BY FileStep DEF ConstantsOK, TypeOK, Chunks
<1>2. PICK m \in Nat : Scanned(f, m)
  BY <1>1 DEF Files
<1>3. CASE Scanned(Append(f, c), m)
  <2>1. \A k \in Keys : Readable(file'[k]) = Readable(file[k])
    BY <1>1, <1>2, <1>3, HeadReadsSame
  <2> QED
    BY <2>1 DEF Logs
<1>4. CASE /\ Scanned(Append(f, c), m + 1)
           /\ Len(f) = 2 * m + 1 /\ f[Len(f)][2] = 1 /\ c = <<f[Len(f)][1], 2>>
  <2>1. Readable(file'[t]) = Append(Readable(f), <<q, n[q] + 1>>)
    BY <1>1, <1>2, <1>4, TailReadsOne
  <2>2. Logs' = [Logs EXCEPT ![t] = Append(@, <<q, n[q] + 1>>)]
    BY <1>1, <2>1 DEF Logs
  <2>3. Len(Logs[t]) = m
    BY <1>1, <1>2, ReadableType DEF Logs
  <2>4. f[Len(f)] = <<f[Len(f)][1], 1>>
    <3> f[Len(f)] \in Chunks
      BY <1>1, <1>4
    <3> QED
      BY <1>4 DEF Chunks
  <2>5. part = 2
    BY <1>4
  <2> QED
    BY <1>4, <2>2, <2>3, <2>4, <2>5
<1> QED
  BY <1>1, <1>2, <1>3, <1>4, AppendScans

LEMMA StepRefines ==
  ASSUME ConstantsOK, IInv, [Next]_vars
  PROVE  [Log!Next]_<<Logs, answer, Cuts>>
<1> USE DEF IInv
<1>1. ASSUME NEW q \in Requests, WriteHead(q) PROVE UNCHANGED <<Logs, answer, Cuts>>
  BY <1>1, LogStep DEF WriteHead, Cuts, reads
<1>2. ASSUME NEW q \in Requests, WriteTail(q) PROVE [Log!Next]_<<Logs, answer, Cuts>>
  <2> DEFINE t == Target[q]
             f == file[t]
             l == Logs[t]
  <2>1. pc[q] = "tail" /\ Extend(q, 2) /\ UNCHANGED <<answer, Cuts>>
    BY <1>2 DEF WriteTail, Cuts, reads
  <2>2. CASE Logs' = Logs
    BY <2>1, <2>2
  <2>3. CASE /\ Len(f) = 2 * Len(l) + 1
             /\ Logs' = [Logs EXCEPT ![t] = Append(@, <<q, n[q] + 1>>)]
    <3>1. t \in Keys /\ f \in Seq(Chunks) /\ n[q] \in Nat /\ n[q] < Size[q]
      BY <2>1 DEF ConstantsOK, TypeOK, Chunks, AtEnd
    <3>2. PICK m \in Nat : Scanned(f, m)
      BY <3>1 DEF Files
    <3>3. Len(l) = m /\ l \in Seq(Entries) /\ \A i \in 1 .. m : l[i] = f[2 * i][1]
      BY <3>1, <3>2, ReadableType DEF Logs
    <3>4. CASE n[q] = 0
      <4>1. \A j \in 1 .. Len(l) : l[j][1] # q
        <5> SUFFICES ASSUME NEW j \in 1 .. m, f[2 * j][1][1] = q PROVE FALSE
          BY <3>3
        <5>1. 2 * j \in 1 .. Len(f)
          BY <2>3, <3>3
        <5>2. f[2 * j][2] = 2
          BY <3>2 DEF Scanned, Whole, Line
        <5>3. f[2 * j][1][2] \in 1 .. n[q]
          BY <3>1, <5>1, <5>2 DEF Files
        <5> QED
          BY <3>4, <5>3
      <4>2. Logs' = [Logs EXCEPT ![t] = Append(@, <<q, 1>>)]
        BY <2>3, <3>4
      <4>3. Log!Begin(q)
        BY <2>1, <4>1, <4>2 DEF Log!Begin, Log!Put, Logs, Cuts
      <4> QED
        BY <4>3 DEF Log!Next
    <3>5. CASE n[q] > 0
      <4>1. Len(f) > 1 /\ f[Len(f) - 1] = <<<<q, n[q]>>, 2>>
        BY <2>1, <3>5 DEF AtEnd
      <4>2. m > 0 /\ l[m] = <<q, n[q]>>
        BY <2>3, <3>3, <4>1
      <4>3. l # <<>> /\ l[Len(l)] = <<q, n[q]>>
        BY <3>3, <4>2
      <4>4. Log!Continue(q, n[q])
        BY <2>1, <2>3, <3>1, <4>3 DEF Log!Continue, Log!Put, Logs, Cuts
      <4>5. n[q] \in 1 .. Size[q]
        BY <3>1, <3>5 DEF ConstantsOK
      <4> QED
        BY <4>4, <4>5 DEF Log!Next
    <3> QED
      BY <3>1, <3>4, <3>5
  <2> QED
    BY <2>1, <2>2, <2>3, LogStep
<1>3. ASSUME NEW d \in Readers, EndOfFile(d) PROVE Log!Read(d)
  <2> DEFINE f == file[Source[d]]
             m == Len(got[d])
  <2>1. at[d] = "read" /\ Len(f) = 2 * m /\ answer' = [answer EXCEPT ![d] = got[d]] /\ UNCHANGED file /\ UNCHANGED Cuts
    BY <1>3 DEF EndOfFile, Finish, GotoRead, Cuts, TypeOK, store
  <2>2. Source[d] \in Keys /\ f \in Seq(Chunks) /\ m \in Nat /\ got[d] \in Seq(Entries)
    BY DEF ConstantsOK, TypeOK, Chunks
  <2>3. Whole(f, m) /\ \A j \in 1 .. m : got[d][j] = f[2 * j][1]
    BY <2>1 DEF Reading
  <2>4. Scanned(f, m)
    BY <2>1, <2>2, <2>3 DEF Scanned, Line
  <2>5. Readable(f) \in Seq(Entries) /\ Len(Readable(f)) = m
        /\ \A i \in 1 .. m : Readable(f)[i] = f[2 * i][1]
    BY <2>2, <2>4, ReadableType
  <2>6. Readable(f) = got[d]
    <3> \A i \in 1 .. m : Readable(f)[i] = got[d][i]
      BY <2>3, <2>5
    <3> HIDE DEF f
    <3> QED
      BY <2>2, <2>5
  <2> QED
    BY <2>1, <2>2, <2>6 DEF Log!Read, Logs, Cuts
<1>4. ASSUME NEW d \in Readers, ReadCut(d) PROVE Log!ReadCut(d)
  <2> DEFINE f == file[Source[d]]
             m == Len(got[d])
             l == Readable(f)
  <2>1. /\ at[d] = "read" /\ UNCHANGED file
        /\ answer' = [answer EXCEPT ![d] = got[d]] /\ at' = [at EXCEPT ![d] = "cut"]
    BY <1>4 DEF ReadCut, Finish, GotoRead, store
  <2>2. Source[d] \in Keys /\ f \in Seq(Chunks) /\ m \in Nat /\ got[d] \in Seq(Entries)
    BY DEF ConstantsOK, TypeOK, Chunks
  <2>3. Whole(f, m) /\ \A j \in 1 .. m : got[d][j] = f[2 * j][1]
    BY <2>1 DEF Reading
  <2>4. PICK o \in Nat : Scanned(f, o)
    BY <2>2 DEF Files
  <2>5. m <= o
    <3> SUFFICES ASSUME o < m PROVE FALSE
      BY <2>2
    <3>1. o + 1 \in 1 .. m
      BY <2>2
    <3> QED
      BY <2>3, <2>4, <3>1 DEF Scanned, Whole
  <2>6. l \in Seq(Entries) /\ Len(l) = o /\ \A i \in 1 .. o : l[i] = f[2 * i][1]
    BY <2>2, <2>4, ReadableType
  <2> HIDE DEF f, l
  <2>7. ASSUME NEW i \in 1 .. m PROVE got[d][i] = l[i]
    <3>1. i \in 1 .. o
      BY <2>2, <2>5
    <3> QED
      BY <2>3, <2>6, <3>1
  <2>8. SubSeq(l, 1, m) = got[d]
    <3>1. SubSeq(l, 1, m) = [i \in 1 .. m |-> l[i]]
      BY <2>2, <2>5, <2>6
    <3>2. got[d] = [i \in 1 .. m |-> got[d][i]]
      BY <2>2
    <3> QED
      BY <2>7, <3>1, <3>2
  <2>9. Logs[Source[d]] = l
    BY <2>2 DEF Logs, f, l
  <2>10. UNCHANGED Logs
    BY <2>1 DEF Logs
  <2>11. Cuts' = Cuts \cup {d}
    BY <2>1 DEF Cuts, TypeOK
  <2>12. \E i \in 0 .. Len(Logs[Source[d]]) :
           answer' = [answer EXCEPT ![d] = SubSeq(Logs[Source[d]], 1, i)]
    <3> m \in 0 .. Len(Logs[Source[d]])
      BY <2>2, <2>5, <2>6, <2>9
    <3> QED
      BY <2>1, <2>8, <2>9
  <2> QED
    BY <2>10, <2>11, <2>12 DEF Log!ReadCut, Logs, Cuts
<1>5. ASSUME NEW d \in Readers, OpenRead(d) \/ Decode(d) \/ DecodeFails(d)
      PROVE  UNCHANGED <<file, answer, Cuts>>
  BY <1>5 DEF OpenRead, Decode, DecodeFails, GotoRead, Cuts, TypeOK, store
<1>6. ASSUME NEW q \in Requests, CheckRun(q) \/ LockFor(q) \/ Lock(q) \/ WriteDone(q) \/ WriteFails(q)
      PROVE  UNCHANGED <<file, answer, Cuts>>
  BY <1>6 DEF CheckRun, LockFor, Lock, WriteDone, WriteFails, Cuts, store, reads
<1>7. ASSUME NEW r \in Runs, StartRun(r) \/ CompleteRun(r) PROVE UNCHANGED <<file, answer, Cuts>>
  BY <1>7 DEF StartRun, CompleteRun, Cuts, store, reads
<1>8. (Crash => UNCHANGED <<file, answer, Cuts>>) /\ (UNCHANGED vars => UNCHANGED <<file, answer, Cuts>>)
  BY DEF Crash, Restart, Cuts, TypeOK, vars
<1>9. UNCHANGED <<file, answer, Cuts>> => UNCHANGED <<Logs, answer, Cuts>>
  BY DEF Logs
<1>10. CrashLosesFiles => Log!Lose
  BY EmptyReads DEF CrashLosesFiles, Restart, Cuts, TypeOK, Logs, Log!Lose
<1>11. ASSUME NEW d \in Readers, Read(d) PROVE [Log!Next]_<<Logs, answer, Cuts>>
  BY <1>3, <1>4, <1>9, <1>11, <1>5 DEF Read, Log!Next
<1>12. ASSUME NEW q \in Requests, CheckRun(q) \/ Write(q) PROVE [Log!Next]_<<Logs, answer, Cuts>>
  BY <1>1, <1>2, <1>6, <1>9, <1>12 DEF Write
<1> QED
  BY <1>7, <1>8, <1>9, <1>11, <1>12, <1>10 DEF Next, Log!Next

(* store.go:52-54: batches for a pair never interleave, what can be read   *)
(* is never taken back but with the files, and a read that succeeds is of  *)
(* one moment, or of a part of it when the disk has failed beneath it.     *)
THEOREM ImplementsCacheLog == ASSUME ConstantsOK PROVE Spec => ImplementsLog
<1>1. IInv /\ [Next]_vars =>
        [Log!Next]_<<[k \in Keys |-> Readable(file[k])], answer, {d \in Readers : at[d] = "cut"}>>
  BY StepRefines DEF Logs, Cuts
<1> QED
  BY <1>1, InitInv, InvNext, InitRefines, PTL DEF Spec, ImplementsLog, Log!Spec

-----------------------------------------------------------------------------
(* The catalog of endpoints.                                               *)

Holding == {"test", "query", "store"}

(* The mutex is held by the request that is past it, and by no other.      *)
Exclusive ==
  /\ \A q \in CatalogRequests : q \in mu <=> ePc[q] \in Holding
  /\ \A q \in mu : mu = {q}

(* An instance that is not live has not been so for any time.              *)
SteadyIsLive == \A i \in Instances : steady[i] > 0 => i \in Endpoints!Live

(* Every endpoint of P was published by an instance that last polled a     *)
(* units before the freshness ran out or later, and P has the endpoints of *)
(* all that have been live for longer than s.                              *)
Current(P, a, s) ==
  /\ \A e \in P : \E i \in Instances : e \in Routes[i] /\ age[i] < Freshness + a
  /\ \A i \in Instances : steady[i] > s => Routes[i] \subseteq P

(* What a query has found is as old as the query at most; what the cache   *)
(* holds, as old as the longest query and the time it has been there.      *)
FoundIsCurrent ==
  \A q \in CatalogRequests : ePc[q] = "store" => Current(fresh[q], waited, waited)
CachedIsCurrent ==
  ttl > 0 => Current(payload, MaxQuery + TTL - ttl, MaxQuery + TTL - ttl)

CatalogInv == Endpoints!TypeOK /\ Exclusive /\ SteadyIsLive /\ FoundIsCurrent /\ CachedIsCurrent

LEMMA EndpointsCount == \A S : Endpoints!Cardinality(S) = Cardinality(S)
<1> TAKE S
<1> QED BY Zenon DEF Endpoints!Cardinality, Cardinality

LEMMA MutexCount ==
  ASSUME NEW M, M = {} \/ \E q : M = {q} PROVE Endpoints!Cardinality(M) <= 1
BY EndpointsCount, FS_EmptySet, FS_Singleton

LEMMA CatalogNumbers ==
  ASSUME Endpoints!ConstantsOK
  PROVE  /\ Freshness \in Nat \ {0} /\ TTL \in Nat \ {0} /\ MaxQuery \in Nat
         /\ Endpoints!Old = Freshness + TTL + MaxQuery /\ Endpoints!Old \in Nat
BY DEF Endpoints!ConstantsOK, Endpoints!Old

LEMMA ElapseFacts ==
  ASSUME Endpoints!ConstantsOK, Endpoints!TypeOK, Endpoints!Elapse
  PROVE  /\ waited \in Nat /\ waited' \in 0 .. MaxQuery /\ ttl \in Nat
         /\ ttl' = IF ttl > 0 THEN ttl - 1 ELSE 0
         /\ waited' = IF Endpoints!Querying THEN waited + 1 ELSE waited
         /\ UNCHANGED <<rows, mu, payload, ePc, fresh>>
         /\ \A i \in Instances :
              /\ age[i] \in Nat /\ age'[i] \in 0 .. Endpoints!Old /\ age'[i] <= age[i] + 1
              /\ steady[i] \in Nat /\ steady'[i] \in 0 .. Endpoints!Old
              /\ steady'[i] <= steady[i] + 1
              /\ steady'[i] > 0 => i \in rows /\ age'[i] < Freshness
<1> USE CatalogNumbers
<1>1. waited \in 0 .. MaxQuery /\ ttl \in 0 .. TTL
  BY DEF Endpoints!TypeOK
<1>2. /\ waited' = IF Endpoints!Querying THEN waited + 1 ELSE waited
      /\ Endpoints!Querying => waited < MaxQuery
      /\ ttl' = IF ttl > 0 THEN ttl - 1 ELSE 0
      /\ UNCHANGED <<rows, mu, payload, ePc, fresh>>
  BY DEF Endpoints!Elapse, Endpoints!request
<1>3. ASSUME NEW i \in Instances
      PROVE  /\ age[i] \in Nat /\ age'[i] \in 0 .. Endpoints!Old /\ age'[i] <= age[i] + 1
             /\ steady[i] \in Nat /\ steady'[i] \in 0 .. Endpoints!Old
             /\ steady'[i] <= steady[i] + 1
             /\ steady'[i] > 0 => i \in rows /\ age'[i] < Freshness
  <2>1. age[i] \in 0 .. Endpoints!Old /\ steady[i] \in 0 .. Endpoints!Old
    BY DEF Endpoints!TypeOK
  <2>2. /\ age'[i] = Endpoints!AtMost(age[i] + 1, Endpoints!Old)
        /\ steady'[i] = IF i \in rows /\ age[i] + 1 < Freshness
                        THEN Endpoints!AtMost(steady[i] + 1, Endpoints!Old) ELSE 0
    BY DEF Endpoints!Elapse
  <2> QED BY <2>1, <2>2 DEF Endpoints!AtMost
<1> QED BY <1>1, <1>2, <1>3

LEMMA PollFacts ==
  ASSUME Endpoints!ConstantsOK, Endpoints!TypeOK, NEW i \in Instances,
         Endpoints!Register(i) \/ Endpoints!Poll(i) \/ Endpoints!Deregister(i)
  PROVE  /\ rows' \subseteq Instances /\ UNCHANGED <<mu, payload, ttl, ePc, fresh, waited>>
         /\ age' \in [Instances -> 0 .. Endpoints!Old]
         /\ steady' \in [Instances -> 0 .. Endpoints!Old]
         /\ \A j \in Instances :
              /\ age'[j] \in {age[j], 0} /\ steady'[j] \in {steady[j], 0}
              /\ steady'[j] > 0 => (j \in rows => j \in rows')
<1> USE CatalogNumbers
<1>1. CASE Endpoints!Register(i) \/ Endpoints!Poll(i)
  BY <1>1
  DEF Endpoints!Register, Endpoints!Poll, Endpoints!cache, Endpoints!request,
      Endpoints!TypeOK
<1>2. CASE Endpoints!Deregister(i)
  BY <1>2 DEF Endpoints!Deregister, Endpoints!cache, Endpoints!request, Endpoints!TypeOK
<1> QED BY <1>1, <1>2

(* What is current grows older with time, and polls make it no older.      *)
LEMMA CurrentAges ==
  ASSUME NEW P, NEW v \in Nat, Endpoints!ConstantsOK, Endpoints!TypeOK, Endpoints!TypeOK',
         Current(P, v, v),
         \A i \in Instances : age'[i] <= age[i] + 1 /\ steady'[i] <= steady[i] + 1
  PROVE  /\ \A e \in P : \E i \in Instances : e \in Routes[i] /\ age'[i] < Freshness + (v + 1)
         /\ \A i \in Instances : steady'[i] > v + 1 => Routes[i] \subseteq P
<1>1. \A i \in Instances : /\ age[i] \in Nat /\ age'[i] \in Nat
                           /\ steady[i] \in Nat /\ steady'[i] \in Nat
  BY CatalogNumbers DEF Endpoints!TypeOK
<1>2. ASSUME NEW i \in Instances, age[i] < Freshness + v PROVE age'[i] < Freshness + (v + 1)
  BY <1>1, <1>2, CatalogNumbers
<1>3. ASSUME NEW i \in Instances, steady'[i] > v + 1 PROVE steady[i] > v
  BY <1>1, <1>3
<1> QED BY <1>2, <1>3 DEF Current

LEMMA CurrentStays ==
  ASSUME NEW P, NEW v \in Nat, Endpoints!ConstantsOK, Endpoints!TypeOK, Endpoints!TypeOK',
         Current(P, v, v),
         \A i \in Instances : age'[i] \in {age[i], 0} /\ steady'[i] \in {steady[i], 0}
  PROVE  /\ \A e \in P : \E i \in Instances : e \in Routes[i] /\ age'[i] < Freshness + v
         /\ \A i \in Instances : steady'[i] > v => Routes[i] \subseteq P
<1>1. \A i \in Instances : /\ age[i] \in Nat /\ age'[i] \in Nat
                           /\ steady[i] \in Nat /\ steady'[i] \in Nat
  BY CatalogNumbers DEF Endpoints!TypeOK
<1>2. ASSUME NEW i \in Instances, age[i] < Freshness + v PROVE age'[i] < Freshness + v
  BY <1>1, <1>2, CatalogNumbers
<1>3. ASSUME NEW i \in Instances, steady'[i] > v PROVE steady[i] > v
  BY <1>1, <1>3
<1> QED BY <1>2, <1>3 DEF Current

LEMMA CatalogInit == ASSUME Endpoints!ConstantsOK, Endpoints!Init PROVE CatalogInv
<1> USE CatalogNumbers
<1>1. Endpoints!Cardinality({}) <= 1
  BY MutexCount
<1>2. Endpoints!TypeOK
  BY <1>1 DEF Endpoints!Init, Endpoints!TypeOK
<1>3. Exclusive /\ SteadyIsLive /\ FoundIsCurrent /\ CachedIsCurrent
  BY DEF Endpoints!Init, Exclusive, Holding, SteadyIsLive, FoundIsCurrent,
         CachedIsCurrent
<1> QED BY <1>2, <1>3 DEF CatalogInv

LEMMA CatalogTimeStep ==
  ASSUME Endpoints!ConstantsOK, CatalogInv,
         \/ Endpoints!Elapse
         \/ \E i \in Instances : Endpoints!Register(i) \/ Endpoints!Poll(i) \/ Endpoints!Deregister(i)
  PROVE  CatalogInv'
<1> USE CatalogNumbers DEF CatalogInv
<1>0. waited \in 0 .. MaxQuery /\ ttl \in 0 .. TTL
  BY DEF Endpoints!TypeOK
<1>1. CASE Endpoints!Elapse
  <2>t. Endpoints!TypeOK
    OBVIOUS
  <2>1. Endpoints!TypeOK'
    <3>1. ttl' \in 0 .. TTL /\ waited' \in 0 .. MaxQuery
      BY <1>0, <1>1, ElapseFacts
    <3>2. /\ age' \in [Instances -> 0 .. Endpoints!Old]
          /\ steady' \in [Instances -> 0 .. Endpoints!Old]
      BY <1>1, ElapseFacts DEF Endpoints!Elapse
    <3> QED BY <1>1, <3>1, <3>2, ElapseFacts DEF Endpoints!TypeOK
  <2>2. Exclusive'
    BY <1>1, ElapseFacts DEF Exclusive
  <2>3. SteadyIsLive'
    BY <1>1, ElapseFacts DEF SteadyIsLive, Endpoints!Live
  <2>4. \A i \in Instances : age'[i] <= age[i] + 1 /\ steady'[i] <= steady[i] + 1
    BY <1>1, ElapseFacts
  <2>5. FoundIsCurrent'
    <3> SUFFICES ASSUME NEW q \in CatalogRequests, ePc[q] = "store"
                 PROVE  Current(fresh[q], waited, waited)'
      BY <1>1, ElapseFacts DEF FoundIsCurrent
    <3>1. waited' = waited + 1 /\ fresh' = fresh
      BY <1>1, ElapseFacts DEF Endpoints!Querying
    <3>2. Current(fresh[q], waited, waited)
      BY DEF FoundIsCurrent
    <3>3. /\ \A e \in fresh[q] :
                \E i \in Instances : e \in Routes[i] /\ age'[i] < Freshness + (waited + 1)
          /\ \A i \in Instances : steady'[i] > waited + 1 => Routes[i] \subseteq fresh[q]
      <4>1. waited \in Nat
        BY <1>0
      <4> HIDE DEF CatalogInv
      <4> QED BY <4>1, <2>t, <2>1, <2>4, <3>2, CurrentAges
    <3> QED BY <3>1, <3>3 DEF Current
  <2>6. CachedIsCurrent'
    <3> SUFFICES ASSUME ttl' > 0
                 PROVE  Current(payload, MaxQuery + TTL - ttl, MaxQuery + TTL - ttl)'
      BY DEF CachedIsCurrent
    <3> DEFINE v == MaxQuery + TTL - ttl
    <3>1. ttl > 0 /\ ttl' = ttl - 1 /\ payload' = payload
      BY <1>0, <1>1, ElapseFacts
    <3>2. v \in Nat /\ v + 1 \in Nat /\ MaxQuery + TTL - ttl' = v + 1
      BY <1>0, <3>1
    <3>3. Current(payload, v, v)
      BY <3>1 DEF CachedIsCurrent
    <3> HIDE DEF v
    <3>4. /\ \A e \in payload : \E i \in Instances : e \in Routes[i] /\ age'[i] < Freshness + (v + 1)
          /\ \A i \in Instances : steady'[i] > v + 1 => Routes[i] \subseteq payload
      BY <2>1, <2>4, <3>2, <3>3, CurrentAges
    <3> QED BY <3>1, <3>2, <3>4 DEF Current
  <2> QED BY <2>1, <2>2, <2>3, <2>5, <2>6
<1>2. ASSUME NEW j \in Instances,
             Endpoints!Register(j) \/ Endpoints!Poll(j) \/ Endpoints!Deregister(j)
      PROVE  CatalogInv'
  <2>t. Endpoints!TypeOK
    OBVIOUS
  <2>0. UNCHANGED <<mu, payload, ttl, ePc, fresh, waited>>
    BY <1>2, PollFacts
  <2>1. Endpoints!TypeOK'
    BY <1>2, PollFacts DEF Endpoints!TypeOK
  <2>2. Exclusive'
    BY <2>0 DEF Exclusive
  <2>3. \A i \in Instances : age'[i] \in {age[i], 0} /\ steady'[i] \in {steady[i], 0}
    BY <1>2, PollFacts
  <2>4. SteadyIsLive'
    <3> SUFFICES ASSUME NEW i \in Instances, steady'[i] > 0
                 PROVE  i \in rows' /\ age'[i] < Freshness
      BY DEF SteadyIsLive, Endpoints!Live
    <3>1. i \in rows /\ age[i] < Freshness
      BY <2>3 DEF SteadyIsLive, Endpoints!Live
    <3> QED BY <1>2, <2>3, <3>1, PollFacts
  <2>5. FoundIsCurrent'
    <3> SUFFICES ASSUME NEW q \in CatalogRequests, ePc[q] = "store"
                 PROVE  Current(fresh[q], waited, waited)'
      BY <2>0 DEF FoundIsCurrent
    <3>1. Current(fresh[q], waited, waited)
      BY DEF FoundIsCurrent
    <3>2. /\ \A e \in fresh[q] :
                \E i \in Instances : e \in Routes[i] /\ age'[i] < Freshness + waited
          /\ \A i \in Instances : steady'[i] > waited => Routes[i] \subseteq fresh[q]
      <4>1. waited \in Nat
        BY <1>0
      <4> HIDE DEF CatalogInv
      <4> QED BY <4>1, <2>t, <2>1, <2>3, <3>1, CurrentStays
    <3> QED BY <2>0, <3>2 DEF Current
  <2>6. CachedIsCurrent'
    <3> SUFFICES ASSUME ttl > 0
                 PROVE  Current(payload, MaxQuery + TTL - ttl, MaxQuery + TTL - ttl)'
      BY <2>0 DEF CachedIsCurrent
    <3> DEFINE v == MaxQuery + TTL - ttl
    <3>1. v \in Nat /\ Current(payload, v, v)
      BY <1>0 DEF CachedIsCurrent
    <3> HIDE DEF v
    <3>2. /\ \A e \in payload : \E i \in Instances : e \in Routes[i] /\ age'[i] < Freshness + v
          /\ \A i \in Instances : steady'[i] > v => Routes[i] \subseteq payload
      <4> HIDE DEF CatalogInv
      <4> QED BY <2>t, <2>1, <2>3, <3>1, CurrentStays
    <3> QED BY <2>0, <3>2 DEF Current, v
  <2> QED BY <2>1, <2>2, <2>3, <2>4, <2>5, <2>6
<1> QED BY <1>1, <1>2

(* The steps of a request, which take no time.                             *)
LEMMA ReturnStep ==
  ASSUME Endpoints!ConstantsOK, CatalogInv, NEW q \in CatalogRequests, Endpoints!Return(q),
         ePc[q] \in Holding, UNCHANGED <<rows, age, steady>>
  PROVE  /\ Exclusive' /\ FoundIsCurrent'
         /\ payload' \subseteq Endpoints!Endpoints /\ ttl' \in 0 .. TTL => Endpoints!TypeOK'
<1> USE CatalogNumbers DEF CatalogInv
<1>1. /\ ePc' = [ePc EXCEPT ![q] = "idle"] /\ mu' = {} /\ mu = {q}
      /\ fresh' = [fresh EXCEPT ![q] = {}] /\ waited' = 0
  BY DEF Endpoints!Return, Endpoints!Goto, Exclusive
<1>2. ePc \in [CatalogRequests -> {"idle", "lock", "test", "query", "store"}]
  BY DEF Endpoints!TypeOK
<1>3. Exclusive'
  BY <1>1, <1>2 DEF Exclusive, Holding
<1>4. FoundIsCurrent'
  BY <1>1, <1>2, <1>3 DEF FoundIsCurrent, Exclusive, Holding
<1>5. ASSUME payload' \subseteq Endpoints!Endpoints, ttl' \in 0 .. TTL PROVE Endpoints!TypeOK'
  <2>1. Endpoints!Cardinality({}) <= 1
    BY MutexCount
  <2> QED BY <1>1, <1>5, <2>1 DEF Endpoints!TypeOK
<1> QED BY <1>3, <1>4, <1>5

LEMMA ServeStep ==
  ASSUME Endpoints!ConstantsOK, CatalogInv, NEW q \in CatalogRequests,
         Endpoints!Ask(q) \/ Endpoints!Serve(q)
  PROVE  CatalogInv'
<1> USE CatalogNumbers DEF CatalogInv
<1>0. /\ waited \in 0 .. MaxQuery /\ ttl \in 0 .. TTL
      /\ ePc \in [CatalogRequests -> {"idle", "lock", "test", "query", "store"}]
  BY DEF Endpoints!TypeOK
<1>1. UNCHANGED <<rows, age, steady>>
  BY DEF Endpoints!Ask, Endpoints!Serve, Endpoints!Lock, Endpoints!Hit, Endpoints!Miss,
         Endpoints!ListLive, Endpoints!ListFails, Endpoints!Store, Endpoints!polls
<1>2. SteadyIsLive'
  BY <1>1 DEF SteadyIsLive, Endpoints!Live
<1>3. CASE Endpoints!Hit(q) \/ Endpoints!ListFails(q)
  <2>1. Endpoints!Return(q) /\ ePc[q] \in Holding /\ UNCHANGED <<payload, ttl>>
    BY <1>3 DEF Endpoints!Hit, Endpoints!ListFails, Endpoints!cache, Holding
  <2>2. CachedIsCurrent'
    BY Zenon, <1>1, <2>1 DEF CachedIsCurrent, Current
  <2>3. payload' \subseteq Endpoints!Endpoints /\ ttl' \in 0 .. TTL
    BY <2>1 DEF Endpoints!TypeOK
  <2> QED BY <1>1, <1>2, <2>1, <2>2, <2>3, ReturnStep
<1>4. CASE Endpoints!Store(q)
  <2>1. /\ Endpoints!Return(q) /\ ePc[q] = "store" /\ ePc[q] \in Holding
        /\ payload' = fresh[q] /\ ttl' = TTL
    BY <1>4 DEF Endpoints!Store, Holding
  <2>2. Current(fresh[q], waited, waited)
    BY <2>1 DEF FoundIsCurrent
  <2>3. CachedIsCurrent'
    <3>1. \A i \in Instances : age[i] \in Nat /\ steady[i] \in Nat
      BY DEF Endpoints!TypeOK
    <3>2. \A i \in Instances : /\ age[i] < Freshness + waited => age[i] < Freshness + MaxQuery
                               /\ steady[i] > MaxQuery => steady[i] > waited
      BY <1>0, <3>1
    <3>3. /\ \A e \in fresh[q] : \E i \in Instances : e \in Routes[i] /\ age[i] < Freshness + MaxQuery
          /\ \A i \in Instances : steady[i] > MaxQuery => Routes[i] \subseteq fresh[q]
      <4>1. /\ \A e \in fresh[q] : \E i \in Instances : e \in Routes[i] /\ age[i] < Freshness + waited
            /\ \A i \in Instances : steady[i] > waited => Routes[i] \subseteq fresh[q]
        BY Zenon, <2>2 DEF Current
      <4>2. ASSUME NEW e \in fresh[q]
            PROVE  \E i \in Instances : e \in Routes[i] /\ age[i] < Freshness + MaxQuery
        BY <3>2, <4>1
      <4>3. ASSUME NEW i \in Instances, steady[i] > MaxQuery PROVE Routes[i] \subseteq fresh[q]
        BY Zenon, <3>2, <4>1, <4>3
      <4> QED BY <4>2, <4>3
    <3>4. MaxQuery + TTL - ttl' = MaxQuery
      BY <2>1
    <3> QED BY <1>1, <2>1, <3>3, <3>4 DEF CachedIsCurrent, Current
  <2>4. payload' \subseteq Endpoints!Endpoints /\ ttl' \in 0 .. TTL
    BY <2>1 DEF Endpoints!TypeOK
  <2> QED BY <1>1, <1>2, <2>1, <2>3, <2>4, ReturnStep
<1>5. CASE Endpoints!ListLive(q)
  <2>1. /\ ePc[q] = "query" /\ ePc' = [ePc EXCEPT ![q] = "store"]
        /\ fresh' = [fresh EXCEPT ![q] = UNION {Routes[i] : i \in Endpoints!Live}]
        /\ UNCHANGED <<mu, payload, ttl, waited>>
    BY <1>5 DEF Endpoints!ListLive, Endpoints!Goto, Endpoints!cache
  <2>2. Endpoints!TypeOK'
    <3>1. UNION {Routes[i] : i \in Endpoints!Live} \subseteq Endpoints!Endpoints
      BY DEF Endpoints!Live, Endpoints!Endpoints, Endpoints!TypeOK
    <3> QED BY <1>1, <2>1, <3>1 DEF Endpoints!TypeOK
  <2>3. Exclusive'
    BY <1>0, <2>1 DEF Exclusive, Holding
  <2>4. CachedIsCurrent'
    BY Zenon, <1>1, <2>1 DEF CachedIsCurrent, Current
  <2>5. FoundIsCurrent'
    <3> DEFINE found == UNION {Routes[i] : i \in Endpoints!Live}
    <3>1. \A r \in CatalogRequests : ePc'[r] = "store" => r = q
      BY <1>0, <2>1 DEF Exclusive, Holding
    <3>2. ASSUME NEW e \in found
          PROVE  \E i \in Instances : e \in Routes[i] /\ age[i] < Freshness + waited
      <4>1. PICK i \in Endpoints!Live : e \in Routes[i]
        BY <3>2
      <4>2. i \in Instances /\ age[i] \in Nat /\ age[i] < Freshness
        BY DEF Endpoints!Live, Endpoints!TypeOK
      <4> QED BY <1>0, <4>1, <4>2
    <3>3. ASSUME NEW i \in Instances, steady[i] > waited PROVE Routes[i] \subseteq found
      <4>1. steady[i] \in Nat
        BY DEF Endpoints!TypeOK
      <4>2. i \in Endpoints!Live
        BY <1>0, <3>3, <4>1 DEF SteadyIsLive
      <4> QED BY <4>2
    <3>4. fresh'[q] = found
      BY <2>1 DEF Endpoints!TypeOK
    <3> HIDE DEF found
    <3> QED BY <1>1, <2>1, <3>1, <3>2, <3>3, <3>4 DEF FoundIsCurrent, Current
  <2> QED BY <1>2, <2>2, <2>3, <2>4, <2>5
<1>6. CASE Endpoints!Ask(q) \/ Endpoints!Lock(q) \/ Endpoints!Miss(q)
  <2>1. /\ UNCHANGED <<payload, ttl, fresh, waited>>
        /\ \/ ePc[q] = "idle" /\ ePc' = [ePc EXCEPT ![q] = "lock"] /\ UNCHANGED mu
           \/ ePc[q] = "lock" /\ mu = {} /\ mu' = {q} /\ ePc' = [ePc EXCEPT ![q] = "test"]
           \/ ePc[q] = "test" /\ ePc' = [ePc EXCEPT ![q] = "query"] /\ UNCHANGED mu
    BY <1>6
    DEF Endpoints!Ask, Endpoints!Lock, Endpoints!Miss, Endpoints!Goto, Endpoints!cache
  <2>2. Endpoints!TypeOK'
    <3>1. Endpoints!Cardinality({q}) <= 1
      BY MutexCount
    <3>2. mu' \in SUBSET CatalogRequests /\ Endpoints!Cardinality(mu') <= 1
      BY <2>1, <3>1 DEF Endpoints!TypeOK
    <3>3. ePc' \in [CatalogRequests -> {"idle", "lock", "test", "query", "store"}]
      BY <1>0, <2>1
    <3> QED BY <1>1, <2>1, <3>2, <3>3 DEF Endpoints!TypeOK
  <2>3. Exclusive'
    BY <1>0, <2>1 DEF Exclusive, Holding
  <2>4. CachedIsCurrent'
    BY Zenon, <1>1, <2>1 DEF CachedIsCurrent, Current
  <2>5. FoundIsCurrent'
    <3>1. \A r \in CatalogRequests : ePc'[r] = "store" => ePc[r] = "store"
      BY <1>0, <2>1
    <3> QED BY Zenon, <1>1, <2>1, <3>1 DEF FoundIsCurrent, Current
  <2> QED BY <1>2, <2>2, <2>3, <2>4, <2>5
<1> QED BY <1>3, <1>4, <1>5, <1>6 DEF Endpoints!Serve

LEMMA CatalogStep ==
  ASSUME Endpoints!ConstantsOK, CatalogInv, [Endpoints!Next]_(Endpoints!vars) PROVE CatalogInv'
<1>1. CASE UNCHANGED Endpoints!vars
  BY Zenon, <1>1
  DEF Endpoints!vars, CatalogInv, Endpoints!TypeOK, Exclusive, SteadyIsLive,
      Endpoints!Live, FoundIsCurrent, CachedIsCurrent, Current
<1> QED BY <1>1, CatalogTimeStep, ServeStep DEF Endpoints!Next

(* What an answer needs of the endpoints P it shows.                       *)
Shown(P) ==
  /\ \A e \in P : \E i \in Instances : e \in Routes[i] /\ age[i] <= Endpoints!Old - 2
  /\ \A i \in Instances : steady[i] >= TTL + MaxQuery => Routes[i] \subseteq P

LEMMA CurrentIsShown ==
  ASSUME Endpoints!ConstantsOK, Endpoints!TypeOK, NEW P, NEW a \in 0 .. TTL + MaxQuery - 1,
         Current(P, a, a)
  PROVE  Shown(P)
<1>1. \A i \in Instances : age[i] \in Nat /\ steady[i] \in Nat
  BY CatalogNumbers DEF Endpoints!TypeOK
<1>2. ASSUME NEW i \in Instances, age[i] < Freshness + a PROVE age[i] <= Endpoints!Old - 2
  BY <1>1, <1>2, CatalogNumbers
<1>3. ASSUME NEW i \in Instances, steady[i] >= TTL + MaxQuery PROVE steady[i] > a
  BY <1>1, <1>3, CatalogNumbers
<1> QED BY <1>2, <1>3 DEF Current, Shown

LEMMA AnswerIsShown ==
  ASSUME Endpoints!ConstantsOK, CatalogInv, NEW q \in CatalogRequests, Endpoints!Answer(q)
  PROVE  Shown(payload')
<1> USE CatalogNumbers
<1>0. waited \in 0 .. MaxQuery /\ ttl \in 0 .. TTL /\ Endpoints!TypeOK
  BY DEF CatalogInv, Endpoints!TypeOK
<1>1. CASE Endpoints!Hit(q)
  <2> DEFINE a == MaxQuery + TTL - ttl
  <2>1. ttl > 0 /\ payload' = payload
    BY <1>1 DEF Endpoints!Hit, Endpoints!cache
  <2>2. a \in 0 .. TTL + MaxQuery - 1 /\ Current(payload, a, a)
    BY <1>0, <2>1 DEF CatalogInv, CachedIsCurrent
  <2> HIDE DEF a
  <2>3. Shown(payload)
    BY <1>0, <2>2, CurrentIsShown
  <2> QED BY <2>1, <2>3
<1>2. CASE Endpoints!Store(q)
  <2>1. payload' = fresh[q] /\ ePc[q] = "store"
    BY <1>2 DEF Endpoints!Store
  <2>2. waited \in 0 .. TTL + MaxQuery - 1 /\ Current(fresh[q], waited, waited)
    BY <1>0, <2>1 DEF CatalogInv, FoundIsCurrent
  <2>3. Shown(fresh[q])
    BY <1>0, <2>2, CurrentIsShown
  <2> QED BY <2>1, <2>3
<1> QED BY <1>1, <1>2 DEF Endpoints!Answer

(* The types of the catalog's state, and that its mutex has one holder.    *)
THEOREM CatalogTypeCorrect ==
  ASSUME Endpoints!ConstantsOK PROVE Endpoints!Spec => []Endpoints!TypeOK
<1>1. CatalogInv => Endpoints!TypeOK
  BY DEF CatalogInv
<1> QED BY CatalogInit, CatalogStep, <1>1, PTL DEF Endpoints!Spec

(* Every answer shows nothing older than the freshness, the lifetime of    *)
(* the cache and a query together, and everything that has been live for   *)
(* longer than the cache lives: for any instances, routes and times, and   *)
(* whichever requests come, fail or leave.                                 *)
THEOREM CatalogIsCurrentHolds ==
  ASSUME Endpoints!ConstantsOK PROVE Endpoints!Spec => CatalogIsCurrent
<1>1. CatalogInv /\ [Endpoints!Next]_(Endpoints!vars)
        => [\A q \in CatalogRequests : Endpoints!Answer(q) =>
              /\ \A e \in payload' : \E i \in Instances :
                   e \in Routes[i] /\ age[i] <= Endpoints!Old - 2
              /\ \A i \in Instances :
                   steady[i] >= TTL + MaxQuery => Routes[i] \subseteq payload']_(Endpoints!vars)
  BY AnswerIsShown DEF Shown
<1> QED BY CatalogInit, CatalogStep, <1>1, PTL
DEF Endpoints!Spec, CatalogIsCurrent, Endpoints!CatalogIsCurrent

-----------------------------------------------------------------------------
(* The pages of the workflow list.                                         *)

(* The operators of FiniteSets go by another name in an instance.          *)
LEMMA ListsCount ==
  \A S : Lists!Cardinality(S) = Cardinality(S) /\ Lists!IsFiniteSet(S) = IsFiniteSet(S)
<1> TAKE S
<1>1. Lists!Cardinality(S) = Cardinality(S)
  BY Zenon DEF Lists!Cardinality, Cardinality
<1>2. Lists!IsFiniteSet(S) = IsFiniteSet(S)
  BY Zenon DEF Lists!IsFiniteSet, IsFiniteSet
<1> QED BY <1>1, <1>2

Ahead(w) == {v \in Lists!Stored : Lists!Before(v, w)}

(* The order of the list is strict and total.                              *)
LEMMA ListOrder ==
  ASSUME Lists!ConstantsOK, Lists!TypeOK
  PROVE  /\ \A w \in Workflows : ~Lists!Before(w, w)
         /\ \A u, v, w \in Workflows : Lists!Before(u, v) /\ Lists!Before(v, w) => Lists!Before(u, w)
         /\ \A v, w \in Workflows : v # w => Lists!Before(v, w) \/ Lists!Before(w, v)
<1> \A w \in Workflows : Order[w] \in Nat /\ stamp[w] \in Nat
  BY DEF Lists!ConstantsOK, Lists!TypeOK
<1> \A v, w \in Workflows : Order[v] = Order[w] => v = w
  BY DEF Lists!ConstantsOK
<1> QED BY DEF Lists!Before

LEMMA AheadFacts ==
  ASSUME Lists!ConstantsOK, Lists!TypeOK
  PROVE  /\ IsFiniteSet(Lists!Stored) /\ Cardinality(Lists!Stored) \in Nat
         /\ \A w \in Workflows :
              /\ IsFiniteSet(Ahead(w))
              /\ Lists!Position(w) = Cardinality(Ahead(w)) /\ Lists!Position(w) \in Nat
<1>1. IsFiniteSet(Lists!Stored)
  <2>1. IsFiniteSet(Workflows) /\ Lists!Stored \in SUBSET Workflows
    BY ListsCount DEF Lists!ConstantsOK, Lists!Stored
  <2> QED BY <2>1, FS_Subset
<1>2. ASSUME NEW w \in Workflows
      PROVE  /\ IsFiniteSet(Ahead(w)) /\ Lists!Position(w) = Cardinality(Ahead(w))
             /\ Lists!Position(w) \in Nat
  <2>1. Ahead(w) \in SUBSET Lists!Stored
    BY DEF Ahead
  <2>2. IsFiniteSet(Ahead(w)) /\ Cardinality(Ahead(w)) \in Nat
    BY <1>1, <2>1, FS_Subset, FS_CardinalityType
  <2> QED BY <2>2, ListsCount DEF Ahead, Lists!Position
<1> QED BY <1>1, <1>2, FS_CardinalityType

(* The positions are those of a list: within its length, growing along the *)
(* order, and every one is taken.                                          *)
LEMMA Positions ==
  ASSUME Lists!ConstantsOK, Lists!TypeOK
  PROVE  /\ \A w \in Lists!Stored : Lists!Position(w) \in 0 .. Cardinality(Lists!Stored) - 1
         /\ \A v, w \in Lists!Stored : Lists!Position(v) = Lists!Position(w) => v = w
         /\ \A o \in 0 .. Cardinality(Lists!Stored) - 1 :
              \E w \in Lists!Stored : Lists!Position(w) = o
<1> DEFINE count == Cardinality(Lists!Stored)
           f == [w \in Lists!Stored |-> Lists!Position(w)]
<1>1. /\ IsFiniteSet(Lists!Stored) /\ count \in Nat
      /\ \A w \in Lists!Stored :
           /\ w \in Workflows /\ IsFiniteSet(Ahead(w))
           /\ Lists!Position(w) = Cardinality(Ahead(w)) /\ Lists!Position(w) \in Nat
  BY AheadFacts DEF Lists!Stored
<1> HIDE DEF count
<1>2. ASSUME NEW w \in Lists!Stored PROVE Lists!Position(w) \in 0 .. count - 1
  <2>1. Ahead(w) \in SUBSET Lists!Stored /\ Ahead(w) # Lists!Stored
    BY <1>1, ListOrder DEF Ahead
  <2>2. Cardinality(Ahead(w)) <= count /\ count # Cardinality(Ahead(w))
    BY <1>1, <2>1, FS_Subset DEF count
  <2> QED BY <1>1, <2>2
<1>3. ASSUME NEW v \in Lists!Stored, NEW w \in Lists!Stored, Lists!Before(v, w)
      PROVE  Lists!Position(v) < Lists!Position(w)
  <2>1. Ahead(v) \in SUBSET Ahead(w) /\ v \in Ahead(w) /\ v \notin Ahead(v)
    BY <1>1, <1>3, ListOrder DEF Ahead
  <2>2. Cardinality(Ahead(v)) <= Cardinality(Ahead(w)) /\ Cardinality(Ahead(w)) # Cardinality(Ahead(v))
    BY <1>1, <2>1, FS_Subset
  <2> QED BY <1>1, <2>2
<1>4. ASSUME NEW v \in Lists!Stored, NEW w \in Lists!Stored, Lists!Position(v) = Lists!Position(w)
      PROVE  v = w
  <2>1. ~Lists!Before(v, w) /\ ~Lists!Before(w, v)
    BY <1>1, <1>3, <1>4
  <2> QED BY <1>1, <2>1, ListOrder
<1>5. f \in Surjection(Lists!Stored, 0 .. count - 1)
  <2>1. f \in Injection(Lists!Stored, 0 .. count - 1)
    BY <1>2, <1>4 DEF Injection, IsInjective
  <2>2. IsFiniteSet(0 .. count - 1) /\ Cardinality(0 .. count - 1) = count
    <3>1. 0 \in Int /\ count - 1 \in Int
      BY <1>1
    <3>2. /\ IsFiniteSet(0 .. count - 1)
          /\ Cardinality(0 .. count - 1) = IF 0 > count - 1 THEN 0 ELSE count - 1 - 0 + 1
      BY <3>1, FS_Interval
    <3> QED BY <1>1, <3>2
  <2> QED BY <2>1, <2>2, FS_Injection DEF count
<1> QED BY <1>2, <1>4, <1>5 DEF Surjection, count

-----------------------------------------------------------------------------
(* The handler reports the limit that the query uses.                      *)
LEMMA LimitFacts ==
  ASSUME Lists!ConstantsOK, Lists!TypeOK, NEW c \in Clients
  PROVE  /\ Lists!parsePagination(asked[c]) \in Nat \ {0}
         /\ Lists!ListLimit(Lists!parsePagination(asked[c])) = Lists!parsePagination(asked[c])
<1>1. asked[c] \in Nat
  BY DEF Lists!ConstantsOK, Lists!TypeOK
<1>2. DefaultLimit \in 1 .. MaxLimit /\ MaxLimit \in Nat
  BY DEF Lists!ConstantsOK
<1> QED BY <1>1, <1>2 DEF Lists!parsePagination, Lists!ListLimit, Lists!AtMost

LEMMA ListTypeStep ==
  ASSUME Lists!ConstantsOK, Lists!TypeOK, [Lists!Next]_(Lists!vars) PROVE Lists!TypeOK'
<1> USE DEF Lists!TypeOK, Lists!Stored, Lists!table, Lists!history
<1>1. CASE Lists!Tick
  BY <1>1 DEF Lists!Tick, Lists!ConstantsOK
<1>2. ASSUME NEW w \in Workflows, Lists!BeginCreate(w) PROVE Lists!TypeOK'
  BY <1>2 DEF Lists!BeginCreate
<1>3. ASSUME NEW w \in Workflows, Lists!Create(w) PROVE Lists!TypeOK'
  BY <1>3 DEF Lists!Create
<1>4. ASSUME NEW w \in Workflows, Lists!Update(w) PROVE Lists!TypeOK'
  BY <1>4 DEF Lists!Update
<1>5. ASSUME NEW w \in Workflows, Lists!Delete(w) PROVE Lists!TypeOK'
  <2>1. gone' \in [Clients -> Nat]
    BY <1>5 DEF Lists!Delete
  <2> QED BY <1>5, <2>1 DEF Lists!Delete
<1>6. ASSUME NEW c \in Clients, Lists!Ask(c) PROVE Lists!TypeOK'
  BY <1>6 DEF Lists!Ask
<1>7. ASSUME NEW c \in Clients, Lists!List(c) PROVE Lists!TypeOK'
  <2>1. Lists!parsePagination(asked[c]) \in Nat
    BY LimitFacts
  <2>2. offset' \in [Clients -> Nat]
    BY <1>7, <2>1 DEF Lists!List
  <2>3. seen' \in [Clients -> SUBSET Workflows]
    <3>1. \A o, l : Lists!Page(o, l) \in SUBSET Workflows
      BY DEF Lists!Page
    <3> QED BY <1>7, <3>1 DEF Lists!List
  <2> QED BY <1>7, <2>2, <2>3 DEF Lists!List
<1>8. CASE UNCHANGED Lists!vars
  BY <1>8 DEF Lists!vars
<1> QED BY <1>1, <1>2, <1>3, <1>4, <1>5, <1>6, <1>7, <1>8 DEF Lists!Next

-----------------------------------------------------------------------------
(* The workflows that were there all the time, that a client has not been  *)
(* shown, and that now lie before the place it has come to.                *)
Passed(c) == {w \in present[c] \ seen[c] : Lists!Position(w) < offset[c]}

PageInv(c) ==
  /\ lPc[c] = "idle" => offset[c] = 0
  /\ lPc[c] # "done" => Cardinality(Passed(c)) <= gone[c]
  /\ lPc[c] = "done" => Cardinality(present[c] \ seen[c]) <= gone[c]

ListInv == Lists!TypeOK /\ \A c \in Clients : PageInv(c)

LEMMA PassedFacts ==
  ASSUME Lists!ConstantsOK, Lists!TypeOK, NEW c \in Clients
  PROVE  /\ IsFiniteSet(present[c] \ seen[c]) /\ IsFiniteSet(Passed(c))
         /\ Cardinality(present[c] \ seen[c]) \in Nat /\ Cardinality(Passed(c)) \in Nat
<1>1. /\ present[c] \ seen[c] \in SUBSET Lists!Stored
      /\ Passed(c) \in SUBSET Lists!Stored
  BY DEF Lists!TypeOK, Passed
<1>2. IsFiniteSet(present[c] \ seen[c]) /\ IsFiniteSet(Passed(c))
  BY <1>1, AheadFacts, FS_Subset
<1> QED BY <1>2, FS_CardinalityType

LEMMA NextAheadFacts ==
  ASSUME Lists!ConstantsOK, Lists!TypeOK'
  PROVE  (\A w \in Workflows :
            /\ IsFiniteSet(Ahead(w))
            /\ Lists!Position(w) = Cardinality(Ahead(w)) /\ Lists!Position(w) \in Nat)'
BY AheadFacts, PTL

(* A workflow that goes moves each other by one place at most; what comes  *)
(* moves none towards the front.                                           *)
LEMMA PositionStep ==
  ASSUME Lists!ConstantsOK, Lists!TypeOK, Lists!TypeOK', NEW D, IsFiniteSet(D),
         Lists!Stored \ D \subseteq Lists!Stored',
         \A w \in Lists!Stored : stamp'[w] = stamp[w],
         NEW w \in Lists!Stored, w \in Lists!Stored'
  PROVE  /\ Lists!Position(w) \in Nat /\ Lists!Position(w)' \in Nat
         /\ Lists!Position(w) <= Lists!Position(w)' + Cardinality(D)
<1>1. w \in Workflows
  BY DEF Lists!Stored
<1>2. /\ IsFiniteSet(Ahead(w)) /\ Lists!Position(w) = Cardinality(Ahead(w))
      /\ Lists!Position(w) \in Nat
  BY <1>1, AheadFacts
<1>3. /\ IsFiniteSet(Ahead(w)') /\ Lists!Position(w)' = Cardinality(Ahead(w)')
      /\ Lists!Position(w)' \in Nat
  BY <1>1, NextAheadFacts
<1>4. Ahead(w) \ D \in SUBSET Ahead(w)'
  BY DEF Ahead, Lists!Before, Lists!Stored
<1>5. Cardinality(Ahead(w) \ D) <= Cardinality(Ahead(w)')
  BY <1>3, <1>4, FS_Subset
<1>6. Cardinality(Ahead(w) \ D) = Cardinality(Ahead(w)) - Cardinality(Ahead(w) \cap D)
  BY <1>2, FS_Difference
<1>7. /\ Cardinality(Ahead(w) \cap D) <= Cardinality(D)
      /\ Cardinality(Ahead(w) \cap D) \in Nat /\ Cardinality(D) \in Nat
  BY FS_Intersection, FS_CardinalityType
<1> QED BY <1>2, <1>3, <1>5, <1>6, <1>7

(* A step that deletes nothing and moves no client passes no workflow.     *)
LEMMA KeepStep ==
  ASSUME Lists!ConstantsOK, Lists!TypeOK, Lists!TypeOK', NEW c \in Clients, PageInv(c),
         Lists!Stored \subseteq Lists!Stored', \A w \in Lists!Stored : stamp'[w] = stamp[w],
         UNCHANGED <<lPc, offset, seen, present, gone>>
  PROVE  PageInv(c)'
<1>1. Passed(c)' \in SUBSET Passed(c)
  <2> SUFFICES ASSUME NEW w \in present[c] \ seen[c], Lists!Position(w)' < offset[c]
               PROVE  Lists!Position(w) < offset[c]
    BY DEF Passed
  <2>1. w \in Lists!Stored /\ w \in Lists!Stored'
    BY DEF Lists!TypeOK
  <2>2. IsFiniteSet({}) /\ Cardinality({}) = 0 /\ Lists!Stored \ {} \subseteq Lists!Stored'
    BY FS_EmptySet
  <2>3. /\ Lists!Position(w) \in Nat /\ Lists!Position(w)' \in Nat
        /\ Lists!Position(w) <= Lists!Position(w)' + 0
    BY <2>1, <2>2, PositionStep
  <2>4. offset[c] \in Nat
    BY DEF Lists!TypeOK
  <2> QED BY <2>3, <2>4
<1>2. Cardinality(Passed(c)') <= Cardinality(Passed(c)) /\ Cardinality(Passed(c)') \in Nat
  BY <1>1, PassedFacts, FS_Subset, FS_CardinalityType
<1>3. gone[c] \in Nat /\ Cardinality(Passed(c)) \in Nat
  BY PassedFacts DEF Lists!TypeOK
<1> QED BY <1>2, <1>3 DEF PageInv

(* A deletion lets one workflow at most slip past a client, the one that   *)
(* was next.                                                               *)
LEMMA DeleteStep ==
  ASSUME Lists!ConstantsOK, Lists!TypeOK, Lists!TypeOK', NEW c \in Clients, PageInv(c),
         NEW d \in Workflows, Lists!Delete(d)
  PROVE  PageInv(c)'
<1>1. /\ d \in Lists!Stored /\ row' = [row EXCEPT ![d] = "deleted"]
      /\ present'[c] = present[c] \ {d} /\ UNCHANGED <<stamp, lPc, offset, seen>>
      /\ gone'[c] = IF lPc[c] = "page" THEN gone[c] + 1 ELSE gone[c]
  BY DEF Lists!Delete
<1>2. gone[c] \in Nat /\ offset[c] \in Nat /\ lPc[c] \in {"idle", "page", "done"}
  BY DEF Lists!TypeOK
<1>3. Lists!Stored' = Lists!Stored \ {d}
  BY <1>1 DEF Lists!Stored, Lists!TypeOK
<1>4. CASE lPc[c] = "idle"
  <2>1. Passed(c)' = {}
    <3> SUFFICES ASSUME NEW w \in present'[c], Lists!Position(w)' < 0 PROVE FALSE
      BY <1>1, <1>4 DEF Passed, PageInv
    <3>1. w \in Workflows
      BY DEF Lists!TypeOK, Lists!Stored
    <3> QED BY <3>1, NextAheadFacts
  <2> QED BY <1>1, <1>2, <1>4, <2>1, FS_EmptySet DEF PageInv
<1>5. CASE lPc[c] = "page"
  <2> DEFINE Coming == {w \in Lists!Stored : Lists!Position(w) = offset[c]}
  <2>1. IsFiniteSet(Coming) /\ Cardinality(Coming) \in {0, 1}
    <3>1. \A v, w \in Coming : v = w
      BY Positions
    <3>2. Coming = {} \/ \E w : Coming = {w}
      BY <3>1
    <3> QED BY <3>2, FS_EmptySet, FS_Singleton
  <2> HIDE DEF Coming
  <2>2. Passed(c)' \in SUBSET (Passed(c) \cup Coming)
    <3> SUFFICES ASSUME NEW w \in present'[c] \ seen[c], Lists!Position(w)' < offset[c]
                 PROVE  w \in present[c] /\ (Lists!Position(w) < offset[c] \/ w \in Coming)
      BY <1>1 DEF Passed
    <3>1. w \in Lists!Stored /\ w \in Lists!Stored' /\ w \in present[c]
      BY <1>1 DEF Lists!TypeOK
    <3>2. /\ Lists!Position(w) \in Nat /\ Lists!Position(w)' \in Nat
          /\ Lists!Position(w) <= Lists!Position(w)' + 1
      <4>1. IsFiniteSet({d}) /\ Cardinality({d}) = 1 /\ Lists!Stored \ {d} \subseteq Lists!Stored'
        BY <1>3, FS_Singleton
      <4> QED BY <1>1, <3>1, <4>1, PositionStep
    <3>3. Lists!Position(w) < offset[c] \/ Lists!Position(w) = offset[c]
      BY <1>2, <3>2
    <3> QED BY <3>1, <3>3 DEF Coming
  <2>3. /\ IsFiniteSet(Passed(c) \cup Coming)
        /\ Cardinality(Passed(c) \cup Coming) <= Cardinality(Passed(c)) + 1
        /\ Cardinality(Passed(c)) \in Nat
    <3>1. IsFiniteSet(Passed(c) \cap Coming) /\ Cardinality(Passed(c) \cap Coming) \in Nat
      <4>1. IsFiniteSet(Passed(c) \cap Coming)
        BY <2>1, FS_Intersection
      <4> QED BY <4>1, FS_CardinalityType
    <3>2. IsFiniteSet(Passed(c)) /\ Cardinality(Passed(c)) \in Nat
      BY PassedFacts
    <3>3. /\ IsFiniteSet(Passed(c) \cup Coming)
          /\ Cardinality(Passed(c) \cup Coming)
               = Cardinality(Passed(c)) + Cardinality(Coming) - Cardinality(Passed(c) \cap Coming)
      BY <2>1, <3>2, FS_Union
    <3> QED BY <2>1, <3>1, <3>2, <3>3
  <2>4. /\ Cardinality(Passed(c)') <= Cardinality(Passed(c) \cup Coming)
        /\ Cardinality(Passed(c)') \in Nat /\ Cardinality(Passed(c) \cup Coming) \in Nat
    BY <2>2, <2>3, FS_Subset, FS_CardinalityType
  <2> QED BY <1>1, <1>2, <1>5, <2>3, <2>4 DEF PageInv
<1>6. CASE lPc[c] = "done"
  <2>1. present'[c] \ seen'[c] \in SUBSET (present[c] \ seen[c])
    BY <1>1
  <2>2. /\ Cardinality(present'[c] \ seen'[c]) <= Cardinality(present[c] \ seen[c])
        /\ Cardinality(present'[c] \ seen'[c]) \in Nat
        /\ Cardinality(present[c] \ seen[c]) \in Nat
    BY <2>1, PassedFacts, FS_Subset, FS_CardinalityType
  <2> QED BY <1>1, <1>2, <1>6, <2>2 DEF PageInv
<1> QED BY <1>2, <1>4, <1>5, <1>6

(* A page shows what lies from the client's place to its next one.  After  *)
(* the last page nothing lies beyond.                                      *)
LEMMA PageStep ==
  ASSUME Lists!ConstantsOK, Lists!TypeOK, Lists!TypeOK', NEW c \in Clients, PageInv(c),
         Lists!List(c)
  PROVE  PageInv(c)'
<1> DEFINE limit == Lists!parsePagination(asked[c])
           page  == Lists!Page(offset[c], limit)
<1>1. /\ lPc[c] = "page" /\ UNCHANGED <<row, stamp, present, gone>>
      /\ seen'[c] = seen[c] \cup page /\ offset'[c] = offset[c] + limit
      /\ lPc'[c] = IF offset'[c] >= Lists!Total(page) THEN "done" ELSE "page"
  BY LimitFacts DEF Lists!List, Lists!TypeOK, Lists!table, Lists!history
<1>2. gone[c] \in Nat /\ offset[c] \in Nat /\ limit \in Nat \ {0}
  BY LimitFacts DEF Lists!TypeOK
<1>3. /\ Lists!Stored' = Lists!Stored
      /\ \A w \in Workflows : Lists!Position(w)' = Lists!Position(w)
  <2>1. Lists!Stored' = Lists!Stored
    BY <1>1 DEF Lists!Stored
  <2>2. ASSUME NEW w \in Workflows PROVE Lists!Position(w)' = Lists!Position(w)
    BY <1>1 DEF Lists!Position, Lists!Before, Lists!Stored
  <2> QED BY <2>1, <2>2
<1>4. \A w \in present[c] : w \in Workflows /\ w \in Lists!Stored /\ Lists!Position(w) \in Nat
  BY AheadFacts DEF Lists!TypeOK, Lists!Stored
<1> HIDE DEF limit
<1>5. Passed(c)' \in SUBSET Passed(c)
  <2> SUFFICES ASSUME NEW w \in present[c] \ (seen[c] \cup page),
                      Lists!Position(w) < offset[c] + limit
               PROVE  Lists!Position(w) < offset[c]
    BY <1>1, <1>3, <1>4 DEF Passed
  <2>1. ~(Lists!Position(w) \in offset[c] .. offset[c] + limit - 1)
    BY <1>4 DEF Lists!Page
  <2> QED BY <1>2, <1>4, <2>1
<1>6. /\ Cardinality(Passed(c)') <= Cardinality(Passed(c))
      /\ Cardinality(Passed(c)') \in Nat /\ Cardinality(Passed(c)) \in Nat
  BY <1>5, PassedFacts, FS_Subset, FS_CardinalityType
<1>7. Cardinality(Passed(c)) <= gone[c]
  BY <1>1 DEF PageInv
<1>8. CASE lPc'[c] = "page"
  BY <1>1, <1>2, <1>6, <1>7, <1>8 DEF PageInv
<1>9. CASE lPc'[c] = "done"
  <2> DEFINE count == Cardinality(Lists!Stored)
  <2>0. count \in Nat
    BY AheadFacts
  <2>1. \A w \in Lists!Stored : Lists!Position(w) \in 0 .. count - 1
    BY Positions
  <2>2. count <= offset'[c]
    <3>1. CASE page # {}
      <4>1. Lists!Total(page) = count
        BY <3>1, ListsCount DEF Lists!Total
      <4> QED BY <1>1, <1>2, <1>9, <2>0, <4>1
    <3>2. CASE page = {}
      <4>1. ~\E w \in Lists!Stored : Lists!Position(w) = offset[c]
        BY <1>2, <3>2 DEF Lists!Page
      <4>2. ~(offset[c] \in 0 .. count - 1)
        BY <4>1, Positions
      <4> QED BY <1>1, <1>2, <2>0, <4>2
    <3> QED BY <3>1, <3>2
  <2>3. present'[c] \ seen'[c] = Passed(c)'
    <3> SUFFICES ASSUME NEW w \in present'[c] PROVE Lists!Position(w)' < offset'[c]
      BY DEF Passed
    <3>1. Lists!Position(w)' \in 0 .. count - 1
      BY <1>1, <1>3, <1>4, <2>1
    <3>2. offset'[c] \in Nat
      BY <1>1, <1>2
    <3> QED BY <2>0, <2>2, <3>1, <3>2
  <2>4. Cardinality(present'[c] \ seen'[c]) <= gone'[c]
    <3>1. Cardinality(Passed(c)') <= gone[c]
      BY <1>2, <1>6, <1>7
    <3> QED BY Zenon, <1>1, <2>3, <3>1
  <2> QED BY <1>9, <2>4 DEF PageInv
<1> QED BY <1>1, <1>8, <1>9

LEMMA ListStep ==
  ASSUME Lists!ConstantsOK, ListInv, [Lists!Next]_(Lists!vars) PROVE ListInv'
<1>1. Lists!TypeOK /\ Lists!TypeOK'
  BY ListTypeStep DEF ListInv
<1> SUFFICES ASSUME NEW c \in Clients PROVE PageInv(c)'
  BY <1>1 DEF ListInv
<1>2. PageInv(c)
  BY DEF ListInv
<1>3. CASE Lists!Tick \/ UNCHANGED Lists!vars
  BY <1>1, <1>2, <1>3, KeepStep
  DEF Lists!Tick, Lists!vars, Lists!table, Lists!history, Lists!Stored
<1>4. ASSUME NEW w \in Workflows, Lists!BeginCreate(w) \/ Lists!Create(w) \/ Lists!Update(w)
      PROVE  PageInv(c)'
  <2>1. Lists!Stored \subseteq Lists!Stored'
    BY <1>1, <1>4
    DEF Lists!BeginCreate, Lists!Create, Lists!Update, Lists!Stored, Lists!TypeOK
  <2>2. \A v \in Lists!Stored : stamp'[v] = stamp[v]
    BY <1>1, <1>4
    DEF Lists!BeginCreate, Lists!Create, Lists!Update, Lists!Stored, Lists!TypeOK
  <2>3. UNCHANGED <<lPc, offset, seen, present, gone>>
    BY <1>4 DEF Lists!BeginCreate, Lists!Create, Lists!Update, Lists!history
  <2> QED BY <1>1, <1>2, <2>1, <2>2, <2>3, KeepStep
<1>5. ASSUME NEW w \in Workflows, Lists!Delete(w) PROVE PageInv(c)'
  BY <1>1, <1>2, <1>5, DeleteStep
<1>6. ASSUME NEW d \in Clients, Lists!Ask(d) \/ Lists!List(d), d # c PROVE PageInv(c)'
  <2>1. /\ UNCHANGED <<row, stamp>> /\ lPc'[c] = lPc[c] /\ offset'[c] = offset[c]
        /\ seen'[c] = seen[c] /\ present'[c] = present[c] /\ gone'[c] = gone[c]
    BY <1>1, <1>6 DEF Lists!Ask, Lists!List, Lists!table, Lists!history, Lists!TypeOK
  <2>2. Passed(c)' = Passed(c)
    <3>1. \A w : Lists!Position(w)' = Lists!Position(w)
      BY <2>1 DEF Lists!Position, Lists!Before, Lists!Stored
    <3> QED BY <2>1, <3>1 DEF Passed
  <2> QED BY <1>2, <2>1, <2>2 DEF PageInv
<1>7. CASE Lists!Ask(c)
  <2>1. lPc[c] = "idle" /\ lPc'[c] = "page" /\ offset'[c] = 0 /\ gone'[c] = gone[c]
    BY <1>1, <1>2, <1>7 DEF Lists!Ask, Lists!TypeOK, PageInv
  <2>2. Passed(c)' = {}
    <3> SUFFICES ASSUME NEW w \in present'[c], Lists!Position(w)' < 0 PROVE FALSE
      BY <2>1 DEF Passed
    <3>1. w \in Workflows
      BY <1>1 DEF Lists!TypeOK, Lists!Stored
    <3> QED BY <1>1, <3>1, NextAheadFacts
  <2>3. gone[c] \in Nat
    BY <1>1 DEF Lists!TypeOK
  <2> QED BY <2>1, <2>2, <2>3, FS_EmptySet DEF PageInv
<1>8. CASE Lists!List(c)
  BY <1>1, <1>2, <1>8, PageStep
<1> QED BY <1>3, <1>4, <1>5, <1>6, <1>7, <1>8 DEF Lists!Next

LEMMA ListInit == ASSUME Lists!ConstantsOK, Lists!Init PROVE ListInv
<1>1. Lists!TypeOK
  BY DEF Lists!ConstantsOK, Lists!Init, Lists!TypeOK
<1>2. ASSUME NEW c \in Clients PROVE PageInv(c)
  <2>1. Passed(c) = {} /\ lPc[c] = "idle" /\ offset[c] = 0 /\ gone[c] = 0
    BY DEF Lists!Init, Passed
  <2> QED BY <2>1, FS_EmptySet DEF PageInv
<1> QED BY <1>1, <1>2 DEF ListInv

(* The types of the workflow table and of the clients that page through it.*)
THEOREM ListTypeCorrect == ASSUME Lists!ConstantsOK PROVE Lists!Spec => []Lists!TypeOK
<1>1. ListInv => Lists!TypeOK
  BY DEF ListInv
<1> QED BY ListInit, ListStep, <1>1, PTL DEF Lists!Spec

(* A client that has read all pages has missed no more of the workflows    *)
(* that were there all the time than were deleted meanwhile: for any       *)
(* number of workflows and any limits, and whatever else is created or     *)
(* edited, in any order of the clocks.                                     *)
THEOREM MissesAtMostDeletedHolds ==
  ASSUME Lists!ConstantsOK PROVE Lists!Spec => []MissesAtMostDeleted
<1>1. ListInv => MissesAtMostDeleted
  BY ListsCount DEF ListInv, PageInv, MissesAtMostDeleted, Lists!MissesAtMostDeleted
<1> QED BY ListInit, ListStep, <1>1, PTL DEF Lists!Spec

-----------------------------------------------------------------------------
(* Whatever steps each of the three takes, all keep their types.           *)
THEOREM PartsTypeOKHolds ==
  ASSUME ConstantsOK, Endpoints!ConstantsOK, Lists!ConstantsOK
  PROVE  Spec /\ Endpoints!Spec /\ Lists!Spec => []PartsTypeOK
BY TypeCorrect, CatalogTypeCorrect, ListTypeCorrect, PTL DEF PartsTypeOK
=============================================================================
