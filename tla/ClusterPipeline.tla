--------------------------- MODULE ClusterPipeline ---------------------------
(***************************************************************************)
(* The writer-side cluster pipeline of zim::writer::Creator               *)
(* (src/src/writer/creator.cpp).                                           *)
(*                                                                         *)
(* One producer thread (the Creator's caller) appends blobs to two open   *)
(* clusters, one compressed and one uncompressed (addItemData).  When a   *)
(* cluster would grow past minChunkSize*1024 it is closed (closeCluster): *)
(* stamped with clusterIndex = clustersList.size(), appended to           *)
(* clustersList, and pushed first onto taskList (compression by the       *)
(* worker threads) and then onto clusterToWrite (the writer thread, which *)
(* appends clusters to the file in queue order once their compressed body *)
(* is published).  finishZimCreation closes the open clusters, busy-waits *)
(* until ClusterTask::waiting_task is 0, sends one nullptr per worker,    *)
(* joins them, sends a nullptr to the writer, joins it, writes the        *)
(* pointer tables (write()) and renames the temporary file.               *)
(*                                                                         *)
(* The queues, the workers and the writer (workers.h, clusterWorker.cpp)  *)
(* are not in this repository's source; they follow spec.md section 4.E.  *)
(* Blob contents are abstracted to sizes; a cluster is identified by its  *)
(* kind (compressed or not) and a generation number of that kind.        *)
(***************************************************************************)
EXTENDS Naturals, Sequences, FiniteSets, SequencesExt

CONSTANTS
  Workers,     \* the worker threads (m_nbWorkers of them)
  QueueCap,    \* capacity of taskList and clusterToWrite
  ChunkLimit,  \* minChunkSize * 1024, in the abstract size unit
  ItemSizes,   \* sizes a content provider may report
  MaxItems,    \* bound on addItem/addMetadata calls
  NbHandlers,  \* dirent handlers that emit content at finish
  CanFail,     \* whether a compression task may throw
  NbWorkerValues, \* arguments of configNbWorkers calls after startZimCreation
  Nil          \* nullptr in a queue

ASSUME /\ QueueCap \in Nat \ {0} /\ ChunkLimit \in Nat \ {0}
       /\ ItemSizes \subseteq Nat /\ MaxItems \in Nat /\ NbHandlers \in Nat
       /\ CanFail \in BOOLEAN /\ NbWorkerValues \subseteq Nat

VARIABLES
  open,           \* compCluster / uncompCluster: [BOOLEAN -> [gen, count, size]]
  clustersList,   \* closed clusters, position = clusterIndex + 1
  clusterIndex,   \* the stamp setClusterIndex put on each closed cluster
  clusterSize,    \* cluster->size() of each closed cluster when it closed
  itemCluster,    \* the cluster each dirent's blob went to (dirent->setCluster)
  nItems,         \* number of blobs added so far
  pushes,         \* the pushToQueue calls the producer still has to complete
  taskList,       \* worker queue: cluster ids or Nil
  clusterToWrite, \* writer queue: cluster ids or Nil
  waitingTask,    \* ClusterTask::waiting_task
  compressed,     \* clusters whose compressed body has been published
  worker,         \* per worker: [st |-> "idle" | "busy" | "exited", c]
  writer,         \* "running" | "exited"
  written,        \* clusters in the order the writer appended them to the file
  errorSlot,      \* m_exceptionSlot is set
  pc,             \* where the producer is
  handlersLeft,   \* dirent handlers whose content finish has not added yet
  clusterPtr,     \* cluster pointer table written by write()
  direntCluster,  \* cluster number written into each item dirent by write()
  nbWorkers       \* Creator::m_nbWorkers

vars == <<open, clustersList, clusterIndex, clusterSize, itemCluster, nItems, pushes,
          taskList, clusterToWrite, waitingTask, compressed, worker, writer,
          written, errorSlot, pc, handlersLeft, clusterPtr, direntCluster,
          nbWorkers>>

MaxGen == MaxItems + NbHandlers + 1
Ids == BOOLEAN \X (0 .. MaxGen)
Items == 1 .. (MaxItems + NbHandlers)
NoIndex == -1
Phases == {"adding", "handlers", "waitTasks", "joinWorkers",
           "joinWriter", "done", "errored"}

-----------------------------------------------------------------------------
(* Helpers *)

Id(k) == <<k, open[k].gen>>

EmptyCluster(g) == [gen |-> g, count |-> 0, size |-> 0]

(* Mutant: the stamp taken after nbClusters++ (one past the position).  *)
StampLate(i) == Len(clustersList) + i

(* setClusterIndex(clustersList.size()) for the i-th cluster closed by   *)
(* one step, the clusters before it having been appended already.       *)
Stamp(i) == Len(clustersList) + i - 1

(* Mutant: the ClusterTask is never pushed onto taskList.               *)
ClusterPushesNoTask(c) == << [q |-> "write", v |-> c] >>

(* taskList.pushToQueue(new ClusterTask(cluster)), then                  *)
(* clusterToWrite.pushToQueue(cluster).                                  *)
ClusterPushes(c) == << [q |-> "task", v |-> c], [q |-> "write", v |-> c] >>

(* closeCluster for each kind of ks, in order: stamp, append to           *)
(* clustersList, one new ClusterTask per cluster, and the two pushes.     *)
CloseClusters(ks) ==
  LET ids == [i \in 1 .. Len(ks) |-> Id(ks[i])]
      pos(c) == SelectInSeq(ids, LAMBDA x : x = c)
  IN /\ clustersList' = clustersList \o ids
     /\ clusterIndex' = [c \in Ids |->
          IF pos(c) > 0 THEN Stamp(pos(c)) ELSE clusterIndex[c]]
     /\ clusterSize' = [c \in Ids |->
          IF pos(c) > 0 THEN open[c[1]].size ELSE clusterSize[c]]
     /\ waitingTask' = waitingTask + Len(ks)
     /\ pushes' = pushes \o FlattenSeq([i \in 1 .. Len(ks) |-> ClusterPushes(ids[i])])

(* addItemData: choose the cluster by compressContent, close it first    *)
(* when it is non-empty and the blob would reach minChunkSize*1024, then *)
(* bind the dirent to the (possibly new) cluster and add the content.    *)
(* Mutant: the size test with > instead of >=.                          *)
ClusterFullStrict(k, s) == open[k].count > 0 /\ open[k].size + s > ChunkLimit

ClusterFull(k, s) == open[k].count > 0 /\ open[k].size + s >= ChunkLimit

AddItemData(k, s) ==
  LET full == ClusterFull(k, s)
      cur  == IF full THEN EmptyCluster(open[k].gen + 1) ELSE open[k]
  IN /\ CloseClusters(IF full THEN <<k>> ELSE <<>>)
     /\ open' = [open EXCEPT ![k] = [cur EXCEPT !.count = @ + 1,
                                                !.size = @ + s]]
     /\ itemCluster' = [itemCluster EXCEPT ![nItems + 1] = <<k, cur.gen>>]
     /\ nItems' = nItems + 1

-----------------------------------------------------------------------------
(* Initial state: startZimCreation has launched m_nbWorkers worker      *)
(* threads and the writer.                                               *)

Init ==
  /\ open = [k \in BOOLEAN |-> EmptyCluster(0)]
  /\ clustersList = <<>>
  /\ clusterIndex = [c \in Ids |-> NoIndex]
  /\ clusterSize = [c \in Ids |-> 0]
  /\ itemCluster = [i \in Items |-> Nil]
  /\ nItems = 0
  /\ pushes = <<>>
  /\ taskList = <<>>
  /\ clusterToWrite = <<>>
  /\ waitingTask = 0
  /\ compressed = {}
  /\ worker = [w \in Workers |-> [st |-> "idle", c |-> Nil]]
  /\ writer = "running"
  /\ written = <<>>
  /\ errorSlot = FALSE
  /\ pc = "adding"
  /\ handlersLeft = NbHandlers
  /\ clusterPtr = <<>>
  /\ direntCluster = [i \in Items |-> NoIndex]
  /\ nbWorkers = Cardinality(Workers)

-----------------------------------------------------------------------------
(* Producer thread *)

ThreadVars == <<taskList, clusterToWrite, compressed, worker, writer, written,
                errorSlot>>

(* checkError at the start of a public call: a captured exception is     *)
(* rethrown and the Creator stays in error.                              *)
CheckErrorThrows ==
  /\ pc \in {"adding"}
  /\ pushes = <<>>
  /\ errorSlot
  /\ pc' = "errored"
  /\ UNCHANGED <<open, clustersList, clusterIndex, clusterSize, itemCluster, nItems, pushes,
                 waitingTask, handlersLeft, clusterPtr, direntCluster,
                 ThreadVars, nbWorkers>>

(* addItem / addMetadata: compressContent comes from the hint or the     *)
(* mimetype, the blob goes through addItemData.                          *)
AddItem(compress, s) ==
  /\ pc = "adding"
  /\ pushes = <<>>
  /\ ~errorSlot
  /\ nItems < MaxItems
  /\ AddItemData(compress, s)
  /\ UNCHANGED <<pc, handlersLeft, clusterPtr, direntCluster, ThreadVars, nbWorkers>>

(* configNbWorkers between two calls: it only stores m_nbWorkers, which  *)
(* finishZimCreation reads again to count the nullptrs it sends, while   *)
(* the threads started are those of startZimCreation.                    *)
ConfigNbWorkers(n) ==
  /\ pc = "adding"
  /\ pushes = <<>>
  /\ nbWorkers' = n
  /\ UNCHANGED <<open, clustersList, clusterIndex, clusterSize, itemCluster, nItems,
                 pushes, waitingTask, pc, handlersLeft, clusterPtr, direntCluster,
                 ThreadVars>>

(* One blocking pushToQueue of closeCluster or of finishZimCreation.     *)
ProducerPush ==
  /\ pushes # <<>>
  /\ LET p == Head(pushes) IN
       IF p.q = "task"
       THEN /\ Len(taskList) < QueueCap
            /\ taskList' = Append(taskList, p.v)
            /\ UNCHANGED clusterToWrite
       ELSE /\ Len(clusterToWrite) < QueueCap
            /\ clusterToWrite' = Append(clusterToWrite, p.v)
            /\ UNCHANGED taskList
  /\ pushes' = Tail(pushes)
  /\ UNCHANGED <<open, clustersList, clusterIndex, clusterSize, itemCluster, nItems,
                 waitingTask, compressed, worker, writer, written, errorSlot,
                 pc, handlersLeft, clusterPtr, direntCluster, nbWorkers>>

(* finishZimCreation up to the handlers: checkError passes; favicon and  *)
(* mainPage redirects and redirect/mimetype/title resolution touch no    *)
(* cluster (they are modelled in CreatorDirents).                        *)
FinishStart ==
  /\ pc = "adding"
  /\ pushes = <<>>
  /\ ~errorSlot
  /\ pc' = "handlers"
  /\ UNCHANGED <<open, clustersList, clusterIndex, clusterSize, itemCluster, nItems, pushes,
                 waitingTask, handlersLeft, clusterPtr, direntCluster,
                 ThreadVars, nbWorkers>>

(* handler->stop(); addItemData(handler dirent, provider, false).        *)
FinishAddHandlerData(s) ==
  /\ pc = "handlers"
  /\ pushes = <<>>
  /\ handlersLeft > 0
  /\ AddItemData(FALSE, s)
  /\ handlersLeft' = handlersLeft - 1
  /\ UNCHANGED <<pc, clusterPtr, direntCluster, ThreadVars, nbWorkers>>

(* Close the non-empty open clusters, compressed one first.              *)
FinishCloseClusters ==
  /\ pc = "handlers"
  /\ pushes = <<>>
  /\ handlersLeft = 0
  /\ CloseClusters(SelectSeq(<<TRUE, FALSE>>, LAMBDA k : open[k].count > 0))
  /\ open' = [k \in BOOLEAN |->
               IF open[k].count > 0 THEN EmptyCluster(open[k].gen + 1)
                                    ELSE open[k]]
  /\ pc' = "waitTasks"
  /\ UNCHANGED <<itemCluster, nItems, handlersLeft, clusterPtr, direntCluster,
                 ThreadVars, nbWorkers>>

(* Mutant: one nullptr too few for the workers.                          *)
FinishWaitTasksShort ==
  /\ pc = "waitTasks"
  /\ pushes = <<>>
  /\ waitingTask = 0
  /\ pushes' = [i \in 1 .. nbWorkers - 1 |-> [q |-> "task", v |-> Nil]]
  /\ pc' = "joinWorkers"
  /\ UNCHANGED <<open, clustersList, clusterIndex, clusterSize, itemCluster,
                 nItems, waitingTask, handlersLeft, clusterPtr, direntCluster,
                 ThreadVars, nbWorkers>>

(* Busy-wait until waiting_task is 0, then m_nbWorkers nullptrs.        *)
FinishWaitTasks ==
  /\ pc = "waitTasks"
  /\ pushes = <<>>
  /\ waitingTask = 0
  /\ pushes' = [i \in 1 .. nbWorkers |-> [q |-> "task", v |-> Nil]]
  /\ pc' = "joinWorkers"
  /\ UNCHANGED <<open, clustersList, clusterIndex, clusterSize, itemCluster, nItems,
                 waitingTask, handlersLeft, clusterPtr, direntCluster,
                 ThreadVars, nbWorkers>>

(* Join the workers, then push the nullptr that stops the writer.        *)
FinishJoinWorkers ==
  /\ pc = "joinWorkers"
  /\ pushes = <<>>
  /\ \A w \in Workers : worker[w].st = "exited"
  /\ pushes' = << [q |-> "write", v |-> Nil] >>
  /\ pc' = "joinWriter"
  /\ UNCHANGED <<open, clustersList, clusterIndex, clusterSize, itemCluster, nItems,
                 waitingTask, handlersLeft, clusterPtr, direntCluster,
                 ThreadVars, nbWorkers>>

(* write(): each dirent written with the number of its cluster.         *)
WriteDirentClusters ==
  [i \in Items |-> IF itemCluster[i] = Nil THEN NoIndex ELSE clusterIndex[itemCluster[i]]]

(* write(): the cluster pointer table, each cluster's file offset in     *)
(* clustersList order.                                                   *)
WriteClusterPtrs ==
  [i \in 1 .. Len(clustersList) |-> SelectInSeq(written, LAMBDA x : x = clustersList[i])]

(* Join the writer, then write(), close and rename.                      *)
FinishJoinWriter ==
  /\ pc = "joinWriter"
  /\ pushes = <<>>
  /\ writer = "exited"
  /\ direntCluster' = WriteDirentClusters
  /\ clusterPtr' = WriteClusterPtrs
  /\ pc' = "done"
  /\ UNCHANGED <<open, clustersList, clusterIndex, clusterSize, itemCluster, nItems, pushes,
                 waitingTask, handlersLeft, ThreadVars, nbWorkers>>

-----------------------------------------------------------------------------
(* Worker threads (taskRunner, spec.md 4.E) *)

ProducerVars == <<open, clustersList, clusterIndex, clusterSize, itemCluster, nItems,
                  pushes, pc, handlersLeft, clusterPtr, direntCluster, nbWorkers>>

WorkerPop(w) ==
  /\ worker[w].st = "idle"
  /\ taskList # <<>>
  /\ taskList' = Tail(taskList)
  /\ worker' = [worker EXCEPT ![w] =
                  IF Head(taskList) = Nil THEN [st |-> "exited", c |-> Nil]
                  ELSE [st |-> "busy", c |-> Head(taskList)]]
  /\ UNCHANGED <<ProducerVars, clusterToWrite, waitingTask, compressed,
                 writer, written, errorSlot>>

(* Mutant: waiting_task decremented both by run() and by the destructor. *)
WorkerRunTwiceCounted(w) ==
  /\ worker[w].st = "busy"
  /\ compressed' = compressed \cup {worker[w].c}
  /\ waitingTask' = waitingTask - 2
  /\ worker' = [worker EXCEPT ![w] = [st |-> "idle", c |-> Nil]]
  /\ UNCHANGED <<ProducerVars, taskList, clusterToWrite, writer, written,
                 errorSlot>>

(* ClusterTask::run compresses the cluster and publishes it; deleting    *)
(* the task decrements waiting_task.                                     *)
WorkerRun(w) ==
  /\ worker[w].st = "busy"
  /\ compressed' = compressed \cup {worker[w].c}
  /\ waitingTask' = waitingTask - 1
  /\ worker' = [worker EXCEPT ![w] = [st |-> "idle", c |-> Nil]]
  /\ UNCHANGED <<ProducerVars, taskList, clusterToWrite, writer, written,
                 errorSlot>>

(* The task throws: the exception is stored in the error slot, the task  *)
(* is still deleted, and no compressed body is published.                *)
WorkerFail(w) ==
  /\ CanFail
  /\ worker[w].st = "busy"
  /\ errorSlot' = TRUE
  /\ waitingTask' = waitingTask - 1
  /\ worker' = [worker EXCEPT ![w] = [st |-> "idle", c |-> Nil]]
  /\ UNCHANGED <<ProducerVars, taskList, clusterToWrite, compressed, writer,
                 written>>

-----------------------------------------------------------------------------
(* Writer thread (clusterWriter, spec.md 4.E): writes the head cluster   *)
(* once it is published, and never out of order.                         *)

(* Mutant: the writer takes any published cluster of its queue.         *)
WriterWriteAnyReady ==
  /\ writer = "running"
  /\ \E i \in 1 .. Len(clusterToWrite) :
       /\ clusterToWrite[i] # Nil
       /\ clusterToWrite[i] \in compressed
       /\ clusterToWrite' = RemoveAt(clusterToWrite, i)
       /\ written' = Append(written, clusterToWrite[i])
  /\ UNCHANGED <<ProducerVars, taskList, waitingTask, compressed, worker,
                 writer, errorSlot>>

WriterWrite ==
  /\ writer = "running"
  /\ clusterToWrite # <<>>
  /\ Head(clusterToWrite) # Nil
  /\ Head(clusterToWrite) \in compressed
  /\ clusterToWrite' = Tail(clusterToWrite)
  /\ written' = Append(written, Head(clusterToWrite))
  /\ UNCHANGED <<ProducerVars, taskList, waitingTask, compressed, worker,
                 writer, errorSlot>>

WriterQuit ==
  /\ writer = "running"
  /\ clusterToWrite # <<>>
  /\ Head(clusterToWrite) = Nil
  /\ clusterToWrite' = Tail(clusterToWrite)
  /\ writer' = "exited"
  /\ UNCHANGED <<ProducerVars, taskList, waitingTask, compressed, worker,
                 written, errorSlot>>

-----------------------------------------------------------------------------

FinishStep ==
  \/ ProducerPush
  \/ \E s \in ItemSizes : FinishAddHandlerData(s)
  \/ FinishCloseClusters
  \/ FinishWaitTasks
  \/ FinishJoinWorkers
  \/ FinishJoinWriter

WorkerStep(w) == WorkerPop(w) \/ WorkerRun(w) \/ WorkerFail(w)

WriterStep == WriterWrite \/ WriterQuit

Next ==
  \/ \E k \in BOOLEAN, s \in ItemSizes : AddItem(k, s)
  \/ \E n \in NbWorkerValues : ConfigNbWorkers(n)
  \/ CheckErrorThrows
  \/ FinishStart
  \/ FinishStep
  \/ \E w \in Workers : WorkerStep(w)
  \/ WriterStep

Spec == Init /\ [][Next]_vars

(* The threads are scheduled by the OS and never stop while they can     *)
(* make progress; the producer, once inside finishZimCreation, runs it to *)
(* the end.  Adding items is the caller's choice and is not fair.         *)
FairSpec ==
  /\ Spec
  /\ \A w \in Workers : WF_vars(WorkerStep(w))
  /\ WF_vars(WriterStep)
  /\ WF_vars(FinishStep)

(* The same, with a caller that eventually stops adding and calls         *)
(* finishZimCreation (which either proceeds or throws from checkError).   *)
FairCallerSpec ==
  /\ FairSpec
  /\ WF_vars(FinishStart \/ CheckErrorThrows)

-----------------------------------------------------------------------------
(* Properties *)

TypeOK ==
  /\ open \in [BOOLEAN -> [gen : 0 .. MaxGen, count : Nat, size : Nat]]
  /\ clustersList \in Seq(Ids)
  /\ clusterIndex \in [Ids -> Int]
  /\ itemCluster \in [Items -> Ids \cup {Nil}]
  /\ pushes \in Seq([q : {"task", "write"}, v : Ids \cup {Nil}])
  /\ taskList \in Seq(Ids \cup {Nil}) /\ clusterToWrite \in Seq(Ids \cup {Nil})
  /\ waitingTask \in Nat
  /\ compressed \subseteq Ids
  /\ worker \in [Workers -> [st : {"idle", "busy", "exited"}, c : Ids \cup {Nil}]]
  /\ writer \in {"running", "exited"}
  /\ written \in Seq(Ids)
  /\ pc \in Phases
  /\ nbWorkers \in Nat

(* Cluster packing (addItemData's size test): no cluster is closed empty, *)
(* and a closed cluster holding two or more blobs stayed strictly below  *)
(* minChunkSize*1024; only a single blob may exceed it.                  *)
BlobCount(c) == Cardinality({i \in Items : itemCluster[i] = c})
ClusterPacking ==
  \A j \in 1 .. Len(clustersList) :
    LET c == clustersList[j] IN
      /\ BlobCount(c) > 0
      /\ BlobCount(c) > 1 => clusterSize[c] < ChunkLimit

(* The archive write() produced is consistent with the parallel          *)
(* pipeline: the cluster pointer table is strictly increasing (clusters  *)
(* are in the file in clusterIndex order although compression finished   *)
(* in any order), and the cluster number written into every item dirent  *)
(* leads, through the pointer table, to the cluster holding its blob.    *)
ArchiveConsistent ==
  pc = "done" =>
    /\ \A i \in DOMAIN clusterPtr : clusterPtr[i] > 0
    /\ \A i, j \in DOMAIN clusterPtr : i < j => clusterPtr[i] < clusterPtr[j]
    /\ \A i \in 1 .. nItems :
         LET n == direntCluster[i] + 1 IN
           /\ n \in DOMAIN clusterPtr
           /\ clusterPtr[n] \in DOMAIN written
           /\ written[clusterPtr[n]] = itemCluster[i]

(* Once the caller is inside finishZimCreation past checkError, the call *)
(* returns: the workers and the writer drain their queues and exit, the  *)
(* joins complete and the file is renamed.                               *)
FinishTerminates == (pc = "handlers") ~> (pc = "done")

(* The worker and writer threads are eventually stopped, whatever the    *)
(* compression tasks do, once the caller calls finishZimCreation: spec.md *)
(* 5 says a worker failure puts the Creator in error and that finish still *)
(* drains the queues to avoid leaking threads.  ~CreatorData never joins  *)
(* them, so a Creator destroyed with them running calls std::terminate.   *)
ThreadsStopped == (\A w \in Workers : worker[w].st = "exited") /\ writer = "exited"
ThreadsEventuallyStop == <>ThreadsStopped

(* Backpressure never blocks the producer for ever: a pushToQueue on a   *)
(* full taskList or clusterToWrite (inside addItem, addMetadata or       *)
(* finish) eventually completes because workers and writer drain them.   *)
PushCompletes == (pushes # <<>>) ~> (pushes = <<>>)

(* Refinement: the pipeline implements ClusterSink, clustersList being   *)
(* the closed clusters and the writer's output the file.  Parallel       *)
(* compression never reorders or duplicates clusters in the archive.     *)
Sink == INSTANCE ClusterSink WITH Clusters <- Ids, closed <- clustersList,
                                  file <- written
SinkRefinement == Sink!Spec
====
