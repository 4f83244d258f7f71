----------------------------- MODULE OciPullProofs -----------------------------
(***************************************************************************)
(* A config that is in the repository has the layers that its manifest     *)
(* lists, each of them vouched for, and stays what it is: for any number   *)
(* of processes that pull, any images, also ones whose manifest has fewer  *)
(* or more layers than their config, any parallelism and any failures.     *)
(* And the tree that                                                       *)
(* an image with these layers is made from is the stack of its layers, for *)
(* any entries in any number of layers; a scan of it, unpacked or mounted, *)
(* finds it again, and its dumpfile reads back as the tree, or not at all. *)
(***************************************************************************)
EXTENDS ImageBuild, OciPullSafety, FiniteSetTheorems, DataLemmas

-------------------------------------------------------------------------------
(* The order of the layers *)

\* Starting the large layers first puts the layers in another order, and does no
\* more: of those that zip has left none is left out, and none is added.
LEMMA LayersReordered ==
  ASSUME NEW p \in Process, image[p] \in Images
  PROVE  /\ Layers(p) \in Seq(Paired(p))
         /\ DOMAIN Layers(p) = Pairs(p)
         /\ ToSet(Layers(p)) = Paired(p)
<1> DEFINE ids == image[p].diff_ids
           sizes == image[p].sizes
           n == IF Len(sizes) <= Len(ids) THEN Len(sizes) ELSE Len(ids)
           D == Pairs(p)
           Ahead(i, j) == sizes[i] > sizes[j] \/ (sizes[i] = sizes[j] /\ i < j)
           before == [i \in D |-> {j \in D : Ahead(j, i)}]
           rank(i) == 1 + Cardinality({j \in D : Ahead(j, i)})
           at(r) == CHOOSE i \in D : rank(i) = r
<1>1. ids \in Seq(ToSet(ids)) /\ sizes \in Seq(Nat)
  BY OciConstants
<1>2. n \in Nat /\ D = 1 .. n /\ \A i \in D : sizes[i] \in Nat
  <2>1. Len(ids) \in Nat /\ Len(sizes) \in Nat
    BY <1>1
  <2>2. D = 1 .. n
    BY DEF Pairs
  <2>3. n \in Nat /\ n <= Len(sizes)
    <3> HIDE DEF ids, sizes
    <3>1. QED BY <2>1
  <2>4. \A i \in 1 .. n : sizes[i] \in Nat
    <3> HIDE DEF n, ids, sizes
    <3>1. QED BY <1>1, <2>1, <2>3
  <2> HIDE DEF n, D, ids, sizes
  <2>5. QED BY <2>2, <2>3, <2>4
<1> HIDE DEF n
<1>3. IsFiniteSet(D) /\ Cardinality(D) = n
  BY <1>2, FS_Interval
<1>4. before \in [D -> SUBSET D]
  OBVIOUS
<1>5. /\ \A i \in D : ~Ahead(i, i)
      /\ \A i, j, k \in D : Ahead(k, i) /\ Ahead(i, j) => Ahead(k, j)
      /\ \A i, j \in D : i = j \/ Ahead(i, j) \/ Ahead(j, i)
  <2>1. \A i \in D : i \in Nat
    BY <1>2
  <2> HIDE DEF D, sizes
  <2>2. QED BY <2>1, <1>2
<1> HIDE DEF D, ids, sizes, Ahead
<1>6. \A i \in D : before[i] = {j \in D : Ahead(j, i)}
  OBVIOUS
<1> HIDE DEF before
<1>7. /\ \A i \in D : rank(i) \in D
      /\ \A i, j \in D : rank(i) = rank(j) => i = j
      /\ \A r \in D : \E i \in D : rank(i) = r
  <2>1. /\ \A i \in D : 1 + Cardinality(before[i]) \in 1 .. Cardinality(D)
        /\ \A i, j \in D : 1 + Cardinality(before[i]) = 1 + Cardinality(before[j]) => i = j
        /\ \A r \in 1 .. Cardinality(D) : \E i \in D : 1 + Cardinality(before[i]) = r
    <3>1. /\ \A i \in D : i \notin before[i]
          /\ \A i, j \in D : i \in before[j] => before[i] \subseteq before[j]
          /\ \A i, j \in D : i = j \/ i \in before[j] \/ j \in before[i]
      BY <1>5, <1>6
    <3>2. QED BY <1>3, <1>4, <3>1, Ranking
  <2>2. 1 .. Cardinality(D) = D
    BY <1>2, <1>3
  <2>3. \A i \in D : 1 + Cardinality(before[i]) = rank(i)
    BY <1>6
  <2> HIDE DEF rank
  <2>4. \A i \in D : rank(i) \in D
    BY <2>1, <2>2, <2>3
  <2>5. \A i, j \in D : rank(i) = rank(j) => i = j
    BY <2>1, <2>3
  <2>6. ASSUME NEW r \in D PROVE \E i \in D : rank(i) = r
    <3>1. PICK i \in D : 1 + Cardinality(before[i]) = r
      BY <2>1, <2>2
    <3>2. QED BY <3>1, <2>3
  <2>7. QED BY <2>4, <2>5, <2>6
<1> HIDE DEF rank
<1>8. \A r \in D : at(r) \in D /\ rank(at(r)) = r
  BY <1>7
<1>9. \A i \in D : at(rank(i)) = i
  BY <1>7, <1>8
<1>10. Layers(p) = [r \in D |-> ids[at(r)]]
  BY DEF Layers, D, ids, sizes, rank, Ahead
<1> HIDE DEF at
<1>11. Paired(p) = {ids[i] : i \in D}
  BY DEF Paired, ids, D
<1>12. Layers(p) \in [1 .. n -> Paired(p)]
  BY <1>2, <1>8, <1>10, <1>11
<1>13. Layers(p) \in Seq(Paired(p))
  BY <1>2, <1>12
<1>14. \A i \in D : Layers(p)[rank(i)] = ids[i]
  BY <1>7, <1>9, <1>10
<1>15. ToSet(Layers(p)) = Paired(p)
  <2>1. DOMAIN Layers(p) = D
    BY <1>10
  <2>2. \A r \in D : Layers(p)[r] \in Paired(p)
    BY <1>12, <1>2
  <2>3. \A i \in D : \E r \in D : Layers(p)[r] = ids[i]
    BY <1>14, <1>7
  <2>4. QED BY <2>1, <2>2, <2>3, <1>11 DEF ToSet
<1>16. QED
  BY <1>10, <1>13, <1>15 DEF D

\* What a stream's writer holds after the references of a config were added is a
\* list of them all, and of nothing else.
LEMMA RefsComplete ==
  ASSUME NEW X, NEW order \in Seq(X)
  PROVE  Refs(order) \in Seq(X) /\ ToSet(Refs(order)) = ToSet(order)
<1> DEFINE n == Len(order)
           add(x) == IF order[x[1]] \in {x[2][j] : j \in DOMAIN x[2]} THEN x[2]
                     ELSE Append(x[2], order[x[1]])
           step == [x \in (1 .. n) \X Seq(X) |-> add(x)]
           Def(f) == f = [i \in 0 .. Len(order) |->
                            IF i = 0 THEN <<>>
                            ELSE IF order[i] \in {f[i - 1][j] : j \in DOMAIN f[i - 1]} THEN f[i - 1]
                            ELSE Append(f[i - 1], order[i])]
           added == CHOOSE f : Def(f)
<1>1. n \in Nat /\ \A i \in 1 .. n : order[i] \in X
  OBVIOUS
<1>2. step \in [(1 .. n) \X Seq(X) -> Seq(X)]
  <2>1. ASSUME NEW x \in (1 .. n) \X Seq(X) PROVE add(x) \in Seq(X)
    <3>1. x[1] \in 1 .. n /\ x[2] \in Seq(X) /\ order[x[1]] \in X
      BY <1>1
    <3>2. Append(x[2], order[x[1]]) \in Seq(X)
      BY <3>1
    <3>3. QED BY <3>1, <3>2
  <2> HIDE DEF add
  <2>2. QED BY <2>1
<1>3. <<>> \in Seq(X)
  OBVIOUS
<1>4. PICK f \in [0 .. n -> Seq(X)] : Iterates(f, n, <<>>, step)
  <2> HIDE DEF step, n
  <2>1. QED BY <1>1, <1>2, <1>3, Iteration
<1>5. f[0] = <<>> /\ \A i \in 1 .. n : f[i] = step[<<i, f[i - 1]>>]
  BY <1>4 DEF Iterates
<1>6. ASSUME NEW i \in 1 .. n
      PROVE  f[i] = IF order[i] \in {f[i - 1][j] : j \in DOMAIN f[i - 1]} THEN f[i - 1]
                    ELSE Append(f[i - 1], order[i])
  <2>1. i - 1 \in 0 .. n
    BY <1>1
  <2>2. <<i, f[i - 1]>> \in (1 .. n) \X Seq(X)
    BY <2>1
  <2>3. step[<<i, f[i - 1]>>] = add(<<i, f[i - 1]>>)
    <3> HIDE DEF add
    <3>1. QED BY <2>2
  <2>4. f[i] = step[<<i, f[i - 1]>>]
    BY <1>5
  <2>5. add(<<i, f[i - 1]>>) = IF order[i] \in {f[i - 1][j] : j \in DOMAIN f[i - 1]} THEN f[i - 1]
                               ELSE Append(f[i - 1], order[i])
    OBVIOUS
  <2> HIDE DEF step, add
  <2>6. QED BY <2>3, <2>4, <2>5
<1>7. Def(f)
  <2>1. \A i \in 1 .. n : i # 0
    BY <1>1
  <2>2. \A i \in 0 .. n : i = 0 \/ i \in 1 .. n
    BY <1>1
  <2>3. \A i \in 0 .. n :
          f[i] = IF i = 0 THEN <<>>
                 ELSE IF order[i] \in {f[i - 1][j] : j \in DOMAIN f[i - 1]} THEN f[i - 1]
                 ELSE Append(f[i - 1], order[i])
    BY <1>5, <1>6, <2>1, <2>2
  <2>4. f = [i \in 0 .. n |-> f[i]]
    <3> HIDE DEF n, Def, step
    <3>1. f \in [0 .. n -> Seq(X)]
      BY <1>4
    <3>2. QED BY <3>1
  <2>5. QED BY <2>3, <2>4
<1>8. Def(added)
  <2> HIDE DEF Def
  <2>1. QED BY <1>7
<1> HIDE DEF added
<1>9. added[0] = <<>>
  BY <1>1, <1>8
<1>10. ASSUME NEW i \in 1 .. n
       PROVE  added[i] = IF order[i] \in ToSet(added[i - 1]) THEN added[i - 1]
                         ELSE Append(added[i - 1], order[i])
  <2>1. i \in 0 .. n /\ i # 0
    BY <1>1
  <2>2. added[i] = IF order[i] \in {added[i - 1][j] : j \in DOMAIN added[i - 1]} THEN added[i - 1]
                   ELSE Append(added[i - 1], order[i])
    BY <2>1, <1>8
  <2>3. QED BY <2>2 DEF ToSet
<1> DEFINE upto(k) == {order[i] : i \in 1 .. k}
           G == {k \in 0 .. n : added[k] \in Seq(X) /\ ToSet(added[k]) = upto(k)}
<1>11. 0 \in G
  <2>1. ToSet(<<>>) = {} /\ upto(0) = {} /\ <<>> \in Seq(X)
    BY DEF ToSet
  <2>2. 0 \in 0 .. n
    BY <1>1
  <2> HIDE DEF upto
  <2>3. QED BY <1>9, <2>1, <2>2
<1>12. ASSUME NEW k \in 1 .. n, k - 1 \in G PROVE k \in G
  <2>1. added[k - 1] \in Seq(X) /\ ToSet(added[k - 1]) = upto(k - 1)
    BY <1>12
  <2>2. upto(k) = upto(k - 1) \cup {order[k]}
    BY <1>1
  <2>3. added[k] \in Seq(X) /\ ToSet(added[k]) = ToSet(added[k - 1]) \cup {order[k]}
    <3>1. CASE order[k] \in ToSet(added[k - 1])
      BY <3>1, <2>1, <1>10
    <3>2. CASE order[k] \notin ToSet(added[k - 1])
      <4>1. added[k] = Append(added[k - 1], order[k])
        BY <3>2, <1>10
      <4>2. QED BY <4>1, <2>1, <1>1, AppendedSet
    <3>3. QED BY <3>1, <3>2
  <2>4. k \in 0 .. n
    BY <1>1
  <2>5. ToSet(added[k]) = upto(k)
    <3> HIDE DEF upto
    <3>1. QED BY <2>1, <2>2, <2>3
  <2> HIDE DEF upto, n
  <2>6. QED BY <2>3, <2>4, <2>5
<1>13. n \in G
  <2> HIDE DEF G, n
  <2>1. n \in Nat
    BY <1>1
  <2>2. n \in 0 .. n
    BY <2>1
  <2>3. QED BY <1>11, <1>12, <2>1, <2>2, IndexInduction
<1>14. Refs(order) = added[n]
  BY DEF Refs, added
<1>15. upto(n) = ToSet(order)
  BY DEF ToSet
<1>16. QED
  BY <1>13, <1>14, <1>15

\* The config of an image that was pulled lists the layers that zip has left.
LEMMA ConfigLists ==
  ASSUME NEW p \in Process, image[p] \in Images
  PROVE  /\ Refs(Layers(p)) \in Seq(Paired(p))
         /\ ToSet(Refs(Layers(p))) = Paired(p)
BY LayersReordered, RefsComplete

-------------------------------------------------------------------------------
(* The invariant *)

TaskState == {"none", "ensure", "split", "driver", "bad", "register", "done", "failed"}

Typed ==
  /\ image \in [Process -> Images]
  /\ pull \in [Process -> {"manifest", "spawn", "name", "done", "sealed", "error"}]
  /\ DOMAIN task = Process
  /\ \A p \in Process : task[p] \in [Pairs(p) -> TaskState]
  /\ faults \in 0 .. MaxFaults

\* The semaphore.
Permits == \A p \in Process : IsFiniteSet(Running(p)) /\ Cardinality(Running(p)) <= Threads

\* What has been done is there to stay.
DoneLayers ==
  \A p \in Process : \A i \in DOMAIN task[p] :
    task[p][i] = "done" => has_stream(layer_identifier(Layers(p)[i]))

DoneConfigs ==
  \A p \in Process :
    pull[p] \in {"name", "done", "sealed"} => has_stream(config_identifier(image[p].config))

Complete ==
  \A p \in Process : \A c \in Configs :
    c[2] \in {image[p].config, Sealed(image[p].config)} =>
      \E q \in Fellows(p) :
        /\ stream[c].refs \in Seq(Paired(q))
        /\ RefsOf(c) = Paired(q)
        /\ \A d \in Paired(q) : has_stream(layer_identifier(d))

\* What is not the work of seal, or of manifests that do not agree, is what a pull
\* writes.
IsSealed(c) == \E p \in Process : c[2] = Sealed(image[p].config)

Canonical ==
  \A p \in Process :
    LET c == config_identifier(image[p].config)
    IN  has_stream(c) /\ ~IsSealed(c) /\ ~Disputed(image[p].config) =>
          stream[c] = ConfigObject(image[p].config, Refs(Layers(p)))

IInv ==
  /\ Typed /\ Permits /\ DoneLayers /\ DoneConfigs /\ Complete /\ Canonical /\ LayersVerified
-------------------------------------------------------------------------------
(* What a step changes *)

\* A task that moves leaves the others where they are.
LEMMA GotoChanges ==
  ASSUME Typed, NEW p \in Process, NEW i \in DOMAIN task[p], NEW pc \in TaskState, Goto(p, i, pc)
  PROVE  /\ DOMAIN task' = Process
         /\ \A q \in Process : task'[q] \in [Pairs(q) -> TaskState]
         /\ \A q \in Process \ {p} : task'[q] = task[q]
         /\ DOMAIN task'[p] = DOMAIN task[p] /\ task'[p][i] = pc
         /\ \A j \in DOMAIN task[p] \ {i} : task'[p][j] = task[p][j]
BY DEF Typed, Goto

\* A process that begins anew has no tasks.
LEMMA ResetChanges ==
  ASSUME Typed, NEW p \in Process, task' = [task EXCEPT ![p] = NoTasks(p)]
  PROVE  /\ DOMAIN task' = Process
         /\ \A q \in Process : task'[q] \in [Pairs(q) -> TaskState]
         /\ \A q \in Process \ {p} : task'[q] = task[q]
         /\ \A j \in DOMAIN task'[p] : task'[p][j] = "none"
BY DEF Typed, NoTasks, TaskState

\* A stream that is registered leaves the others as they are.
LEMMA RegisterChanges ==
  ASSUME NEW id, NEW object, register_stream(id, object)
  PROVE  /\ DOMAIN stream' = DOMAIN stream \cup {id}
         /\ stream'[id] = object
         /\ \A c \in DOMAIN stream \ {id} : stream'[c] = stream[c]
BY DEF register_stream

\* What a process pulls, it pulls to the end.
LEMMA ImageStays ==
  ASSUME image' = image, NEW p
  PROVE  /\ Layers(p)' = Layers(p) /\ Pairs(p)' = Pairs(p) /\ Paired(p)' = Paired(p)
         /\ Fellows(p)' = Fellows(p) /\ Disputed(p)' = Disputed(p)
BY DEF Layers, Pairs, Paired, Fellows, Disputed

\* Configs that are complete stay so where nothing is registered.
LEMMA CompleteStays == ASSUME Complete, image' = image, stream' = stream PROVE Complete'
<1>1. Configs' = Configs /\ \A c : RefsOf(c)' = RefsOf(c)
  BY DEF Configs, RefsOf
<1>2. /\ \A q \in Process : Paired(q)' = Paired(q) /\ Fellows(q)' = Fellows(q)
      /\ \A q \in Process : \A r \in Fellows(q) : r \in Process
  BY ImageStays DEF Fellows
<1>3. ASSUME NEW q \in Process, NEW c \in Configs, c[2] \in {image[q].config, Sealed(image[q].config)}
      PROVE  \E r \in Fellows(q) :
               /\ stream'[c].refs \in Seq(Paired(r))
               /\ RefsOf(c)' = Paired(r)
               /\ \A d \in Paired(r) : has_stream(layer_identifier(d))'
  <2>1. PICK r \in Fellows(q) : /\ stream[c].refs \in Seq(Paired(r))
                                /\ RefsOf(c) = Paired(r)
                                /\ \A d \in Paired(r) : has_stream(layer_identifier(d))
    BY <1>3 DEF Complete
  <2>2. QED BY <1>1, <2>1 DEF has_stream
<1>4. QED BY <1>1, <1>2, <1>3 DEF Complete

\* The step of one task of one process.
TaskMoves(p, i) ==
  TaskStep(p, i) \/ SplitWrongData(p, i) \/ LayerFails(p, i) \/ AcquireSpawn(p, i)

\* A step of a process that is not one of a task.
PullMoves(p) ==
  \/ EnsureConfig(p) \/ JoinAll(p) \/ JoinFailed(p) \/ NameStream(p) \/ Retry(p)
  \/ ProxyFails(p) \/ Seal(p) \/ Kill(p)

\* Every step is that of one process, or of one of its tasks.
LEMMA Steps ==
  ASSUME Next
  PROVE  /\ image' = image
         /\ \E p \in Process : PullMoves(p) \/ \E i \in DOMAIN task[p] : TaskMoves(p, i)
BY DEF Next, PullStep, PullMoves, TaskMoves
Busy == {"ensure", "split", "driver", "bad", "register"}

\* A task that goes from i to pc has had a permit, or takes one that is free; it is
\* done when its layer is there.
TaskGoes(p, i, pc) ==
  /\ Goto(p, i, pc)
  /\ pull' = pull
  /\ faults' \in 0 .. MaxFaults
  /\ pc \in Busy => task[p][i] \in Busy \/ Cardinality(Running(p)) < Threads
  /\ \/ stream' = stream /\ (pc = "done" => has_stream(layer_identifier(Layers(p)[i])))
     \/ /\ pc = "done"
        /\ register_stream(layer_identifier(Layers(p)[i]), LayerObject(Layers(p)[i], TRUE))

\* What a step of a task may change.
LEMMA TaskEffect ==
  ASSUME Typed, NEW p \in Process, NEW i \in DOMAIN task[p], TaskMoves(p, i)
  PROVE  \E pc \in TaskState : TaskGoes(p, i, pc)
<1> USE DEF TaskGoes, TaskState, Busy
<1>1. faults \in 0 .. MaxFaults /\ MaxFaults \in Nat
  BY OciConstants DEF Typed
<1>2. Fault => faults' \in 0 .. MaxFaults
  BY <1>1 DEF Fault
<1>3. CASE EnsureLayer(p, i)
  <2>1. CASE has_stream(layer_identifier(Layers(p)[i]))
    <3>1. TaskGoes(p, i, "done") BY <1>1, <1>3, <2>1 DEF EnsureLayer
    <3>2. QED BY <3>1
  <2>2. CASE ~has_stream(layer_identifier(Layers(p)[i]))
    <3>1. TaskGoes(p, i, "split") BY <1>1, <1>3, <2>2 DEF EnsureLayer
    <3>2. QED BY <3>1
  <2>3. QED BY <2>1, <2>2
<1>4. CASE SplitAsync(p, i)
  <2>1. TaskGoes(p, i, "driver") BY <1>1, <1>4 DEF SplitAsync
  <2>2. QED BY <2>1
<1>5. CASE AwaitDriver(p, i)
  <2>1. CASE task[p][i] = "driver"
    <3>1. TaskGoes(p, i, "register") BY <1>1, <1>5, <2>1 DEF AwaitDriver
    <3>2. QED BY <3>1
  <2>2. CASE task[p][i] # "driver"
    <3>1. TaskGoes(p, i, "failed") BY <1>1, <1>5, <2>2 DEF AwaitDriver
    <3>2. QED BY <3>1
  <2>3. QED BY <2>1, <2>2
<1>6. CASE RegisterLayer(p, i)
  <2>1. TaskGoes(p, i, "done") BY <1>1, <1>6 DEF RegisterLayer
  <2>2. QED BY <2>1
<1>7. CASE SplitWrongData(p, i)
  <2>1. TaskGoes(p, i, "bad") BY <1>2, <1>7 DEF SplitWrongData
  <2>2. QED BY <2>1
<1>8. CASE LayerFails(p, i)
  <2>1. TaskGoes(p, i, "failed") BY <1>2, <1>8 DEF LayerFails
  <2>2. QED BY <2>1
<1>9. CASE AcquireSpawn(p, i)
  <2>1. TaskGoes(p, i, "ensure") BY <1>1, <1>9 DEF AcquireSpawn, Goto
  <2>2. QED BY <2>1
<1>10. QED
  BY <1>3, <1>4, <1>5, <1>6, <1>7, <1>8, <1>9 DEF TaskMoves, TaskStep

\* Apart from JoinAll and Seal, which write configs, a process only says that it
\* has a config that is there, and only gives its tasks up.
PullGoes(p, l) ==
  /\ pull' = [pull EXCEPT ![p] = l]
  /\ faults' \in 0 .. MaxFaults
  /\ task' = task \/ task' = [task EXCEPT ![p] = NoTasks(p)]
  /\ \/ /\ stream' = stream
        /\ l # "sealed"
        /\ l \in {"name", "done"} => has_stream(config_identifier(image[p].config))
     \/ JoinAll(p) /\ l = "name"
     \/ Seal(p) /\ l = "sealed"

\* What a step of a process may change.
LEMMA PullEffect ==
  ASSUME Typed, DoneConfigs, NEW p \in Process, PullMoves(p)
  PROVE  \E l \in {"manifest", "spawn", "name", "done", "sealed", "error"} :
           PullGoes(p, l)
<1> USE DEF PullGoes
<1>1. faults \in 0 .. MaxFaults /\ MaxFaults \in Nat
  BY OciConstants DEF Typed
<1>2. Fault => faults' \in 0 .. MaxFaults
  BY <1>1 DEF Fault
<1>3. CASE EnsureConfig(p)
  <2>1. CASE has_stream(config_identifier(image[p].config))
    <3>1. PullGoes(p, "name") BY <1>1, <1>3, <2>1 DEF EnsureConfig
    <3>2. QED BY <3>1
  <2>2. CASE ~has_stream(config_identifier(image[p].config))
    <3>1. PullGoes(p, "spawn") BY <1>1, <1>3, <2>2 DEF EnsureConfig
    <3>2. QED BY <3>1
  <2>3. QED BY <2>1, <2>2
<1>4. CASE JoinAll(p)
  <2>1. PullGoes(p, "name") BY <1>1, <1>4 DEF JoinAll, WriteConfig
  <2>2. QED BY <2>1
<1>5. CASE JoinFailed(p)
  <2>1. PullGoes(p, "error") BY <1>1, <1>5 DEF JoinFailed
  <2>2. QED BY <2>1
<1>6. CASE NameStream(p)
  <2>1. PullGoes(p, "done") BY <1>1, <1>6 DEF NameStream, DoneConfigs
  <2>2. QED BY <2>1
<1>7. CASE Retry(p)
  <2>1. PullGoes(p, "manifest") BY <1>1, <1>7 DEF Retry
  <2>2. QED BY <2>1
<1>8. CASE ProxyFails(p)
  <2>1. PullGoes(p, "error") BY <1>2, <1>8 DEF ProxyFails
  <2>2. QED BY <2>1
<1>9. CASE Seal(p)
  <2>1. PullGoes(p, "sealed") BY <1>1, <1>9 DEF Seal
  <2>2. QED BY <2>1
<1>10. CASE Kill(p)
  <2>1. PullGoes(p, "error") BY <1>2, <1>10 DEF Kill
  <2>2. QED BY <2>1
<1>11. QED
  BY <1>3, <1>4, <1>5, <1>6, <1>7, <1>8, <1>9, <1>10 DEF PullMoves
-------------------------------------------------------------------------------
(* The invariant is kept *)

\* A task that moves on.
LEMMA TaskKeepsIInv ==
  ASSUME IInv, image' = image, NEW p \in Process, NEW i \in DOMAIN task[p], TaskMoves(p, i)
  PROVE  IInv'
<1>1. PICK pc \in TaskState : TaskGoes(p, i, pc)
  BY TaskEffect DEF IInv
<1> DEFINE layer == layer_identifier(Layers(p)[i])
<1>2. /\ DOMAIN task' = Process
      /\ \A q \in Process : task'[q] \in [Pairs(q) -> TaskState]
      /\ \A q \in Process \ {p} : task'[q] = task[q]
      /\ DOMAIN task'[p] = DOMAIN task[p] /\ task'[p][i] = pc
      /\ \A j \in DOMAIN task[p] \ {i} : task'[p][j] = task[p][j]
  BY <1>1, GotoChanges DEF IInv, TaskGoes
<1>3. Typed'
  BY <1>1, <1>2, ImageStays DEF IInv, Typed, TaskGoes
<1>4. Permits'
  <2>1. ASSUME NEW q \in Process \ {p} PROVE Running(q)' = Running(q)
    BY <2>1, <1>2 DEF Running
  <2>2. IsFiniteSet(Running(p)) /\ Cardinality(Running(p)) <= Threads /\ Threads \in Nat
    BY OciConstants DEF IInv, Permits
  <2>3. CASE pc \in Busy /\ task[p][i] \notin Busy
    <3>1. Running(p)' = Running(p) \cup {i} /\ i \notin Running(p)
      BY <1>2, <2>3 DEF Running, Busy
    <3>2. Cardinality(Running(p)) < Threads
      BY <1>1, <2>3 DEF TaskGoes
    <3>3. Cardinality(Running(p)) \in Nat
      BY <2>2, FS_CardinalityType
    <3>4. IsFiniteSet(Running(p)') /\ Cardinality(Running(p)') = Cardinality(Running(p)) + 1
      BY <2>2, <3>1, FS_AddElement
    <3>5. QED BY <2>1, <2>2, <3>2, <3>3, <3>4 DEF IInv, Permits
  <2>4. CASE ~(pc \in Busy /\ task[p][i] \notin Busy)
    <3>1. Running(p)' \in SUBSET Running(p)
      BY <1>2, <2>4 DEF Running, Busy
    <3>2. IsFiniteSet(Running(p)') /\ Cardinality(Running(p)') <= Cardinality(Running(p))
      BY <2>2, <3>1, FS_Subset
    <3>3. Cardinality(Running(p)) \in Nat /\ Cardinality(Running(p)') \in Nat
      BY <2>2, <3>2, FS_CardinalityType
    <3>4. QED BY <2>1, <2>2, <3>2, <3>3 DEF IInv, Permits
  <2>5. QED BY <2>3, <2>4
<1>5. /\ DOMAIN stream \subseteq DOMAIN stream'
      /\ \A c \in DOMAIN stream' : c \in DOMAIN stream \/ c = layer
      /\ \A c \in DOMAIN stream : c # layer => stream'[c] = stream[c]
      /\ \/ layer \in DOMAIN stream' /\ stream'[layer] = LayerObject(Layers(p)[i], TRUE)
         \/ stream' = stream
      /\ pc = "done" => layer \in DOMAIN stream'
  <2>1. CASE stream' = stream /\ (pc = "done" => has_stream(layer))
    BY <2>1 DEF has_stream
  <2>2. CASE register_stream(layer, LayerObject(Layers(p)[i], TRUE))
    <3> HIDE DEF layer
    <3>1. /\ DOMAIN stream' = DOMAIN stream \cup {layer}
          /\ stream'[layer] = LayerObject(Layers(p)[i], TRUE)
          /\ \A c \in DOMAIN stream \ {layer} : stream'[c] = stream[c]
      BY <2>2, RegisterChanges
    <3>2. QED BY <3>1
  <2>3. QED BY <1>1, <2>1, <2>2 DEF TaskGoes
<1>6. layer[1] = "oci-layer" /\ layer[2] = Layers(p)[i] /\ \A d : config_identifier(d)[1] = "oci-config"
  BY DEF layer_identifier, config_identifier
<1> HIDE DEF layer
<1>7. /\ \A q \in Process : /\ Layers(q)' = Layers(q) /\ Pairs(q)' = Pairs(q)
                            /\ Paired(q)' = Paired(q) /\ Fellows(q)' = Fellows(q)
      /\ \A c : Disputed(c)' = Disputed(c)
  BY ImageStays
<1>8. DoneLayers'
  BY <1>2, <1>5, <1>7 DEF IInv, DoneLayers, has_stream, layer
<1>9. DoneConfigs'
  BY <1>1, <1>5 DEF IInv, DoneConfigs, has_stream, TaskGoes
<1>10. LayersVerified'
  BY <1>5, <1>6 DEF IInv, LayersVerified
<1>11. Configs' = Configs /\ \A c \in Configs : stream'[c] = stream[c] /\ RefsOf(c)' = RefsOf(c)
  BY <1>5, <1>6 DEF Configs, RefsOf
<1>12. Complete'
  <2>1. ASSUME NEW q \in Process, NEW c \in Configs, c[2] \in {image[q].config, Sealed(image[q].config)}
        PROVE  \E r \in Fellows(q) :
                 /\ stream'[c].refs \in Seq(Paired(r))
                 /\ RefsOf(c)' = Paired(r)
                 /\ \A d \in Paired(r) : has_stream(layer_identifier(d))'
    <3>1. PICK r \in Fellows(q) : /\ stream[c].refs \in Seq(Paired(r))
                                  /\ RefsOf(c) = Paired(r)
                                  /\ \A d \in Paired(r) : has_stream(layer_identifier(d))
      BY <2>1 DEF IInv, Complete
    <3>2. QED BY <1>5, <1>11, <3>1 DEF has_stream
  <2>2. \A q \in Process : \A r \in Fellows(q) : r \in Process
    BY DEF Fellows
  <2>3. QED BY <1>7, <1>11, <2>1, <2>2 DEF Complete
<1>13. Canonical'
  BY <1>5, <1>6, <1>7 DEF IInv, Canonical, has_stream, IsSealed
<1>14. QED
  BY <1>3, <1>4, <1>8, <1>9, <1>10, <1>12, <1>13 DEF IInv
\* A config with the references to these layers is registered: under the digest of
\* the image that was pulled, or of the same with one more label.
LEMMA ConfigKeepsComplete ==
  ASSUME IInv, image' = image, NEW p \in Process,
         NEW config \in {image[p].config, Sealed(image[p].config)},
         NEW r \in Fellows(p), NEW refs \in Seq(Paired(r)), ToSet(refs) = Paired(r),
         \A d \in Paired(r) : has_stream(layer_identifier(d)),
         register_stream(config_identifier(config), ConfigObject(config, refs))
  PROVE  /\ Complete' /\ LayersVerified'
         /\ DOMAIN stream' = DOMAIN stream \cup {config_identifier(config)}
         /\ stream'[config_identifier(config)] = ConfigObject(config, refs)
         /\ \A c \in DOMAIN stream \ {config_identifier(config)} : stream'[c] = stream[c]
<1> DEFINE key == config_identifier(config)
           object == ConfigObject(config, refs)
<1>1. key[1] = "oci-config" /\ key[2] = config /\ object.refs = refs
  BY DEF config_identifier, ConfigObject
<1> HIDE DEF key, object
<1>2. /\ DOMAIN stream' = DOMAIN stream \cup {key}
      /\ stream'[key] = object
      /\ \A c \in DOMAIN stream \ {key} : stream'[c] = stream[c]
  BY RegisterChanges DEF key, object
<1>3. /\ \A q \in Process : Paired(q)' = Paired(q) /\ Fellows(q)' = Fellows(q)
      /\ \A q \in Process : \A s \in Fellows(q) : s \in Process
  BY ImageStays DEF Fellows
<1>4. LayersVerified'
  BY <1>1, <1>2 DEF IInv, LayersVerified
<1>5. ASSUME NEW q \in Process, config \in {image[q].config, Sealed(image[q].config)}
      PROVE  r \in Fellows(q)
  <2>1. image[p] \in Images /\ image[q] \in Images
    BY DEF IInv, Typed
  <2>2. image[p].diff_ids = image[q].diff_ids
    BY <1>5, <2>1, DigestsTell
  <2>3. QED BY <2>2 DEF Fellows
<1>6. ASSUME NEW q \in Process, NEW c \in Configs', c[2] \in {image[q].config, Sealed(image[q].config)}
      PROVE  \E s \in Fellows(q) :
               /\ stream'[c].refs \in Seq(Paired(s))
               /\ RefsOf(c)' = Paired(s)
               /\ \A d \in Paired(s) : has_stream(layer_identifier(d))'
  <2>1. CASE c = key
    <3>1. r \in Fellows(q)
      BY <1>1, <1>5, <1>6, <2>1
    <3>2. stream'[c].refs = refs
      BY <1>1, <1>2, <2>1
    <3>3. RefsOf(c)' = ToSet(refs)
      BY <3>2 DEF RefsOf, ToSet
    <3>4. QED BY <1>2, <3>1, <3>2, <3>3 DEF has_stream
  <2>2. CASE c # key
    <3>1. c \in Configs /\ stream'[c] = stream[c]
      BY <1>2, <2>2 DEF Configs
    <3>2. RefsOf(c)' = RefsOf(c)
      BY <3>1 DEF RefsOf
    <3>3. PICK s \in Fellows(q) : /\ stream[c].refs \in Seq(Paired(s))
                                  /\ RefsOf(c) = Paired(s)
                                  /\ \A d \in Paired(s) : has_stream(layer_identifier(d))
      BY <1>6, <3>1 DEF IInv, Complete
    <3>4. QED BY <1>2, <3>1, <3>2, <3>3 DEF has_stream
  <2>3. QED BY <2>1, <2>2
<1>7. Complete'
  BY <1>3, <1>6 DEF Complete
<1>8. QED
  BY <1>2, <1>4, <1>7 DEF key, object

\* A process that moves on, or is killed.
LEMMA PullKeepsIInv ==
  ASSUME IInv, image' = image, NEW p \in Process, PullMoves(p)
  PROVE  IInv'
<1>1. PICK l \in {"manifest", "spawn", "name", "done", "sealed", "error"} : PullGoes(p, l)
  BY PullEffect DEF IInv
<1>2. image[p] \in Images
  BY DEF IInv, Typed
<1>3. /\ DOMAIN task' = Process
      /\ \A q \in Process : task'[q] \in [Pairs(q) -> TaskState]
      /\ \A q \in Process : \A j \in DOMAIN task'[q] :
           j \in DOMAIN task[q] /\ (task'[q][j] = task[q][j] \/ task'[q][j] = "none")
  BY <1>1, ResetChanges DEF IInv, Typed, PullGoes
<1>4. Typed'
  BY <1>1, <1>3, ImageStays DEF IInv, Typed, PullGoes
<1>5. Permits'
  <2>1. ASSUME NEW q \in Process PROVE Running(q)' \in SUBSET Running(q)
    BY <1>3 DEF Running
  <2>2. ASSUME NEW q \in Process PROVE IsFiniteSet(Running(q)') /\ Cardinality(Running(q)') <= Threads
    <3>1. IsFiniteSet(Running(q)) /\ Cardinality(Running(q)) <= Threads /\ Threads \in Nat
      BY OciConstants DEF IInv, Permits
    <3>2. IsFiniteSet(Running(q)') /\ Cardinality(Running(q)') <= Cardinality(Running(q))
      BY <2>1, <3>1, FS_Subset
    <3>3. Cardinality(Running(q)) \in Nat /\ Cardinality(Running(q)') \in Nat
      BY <3>1, <3>2, FS_CardinalityType
    <3>4. QED BY <3>1, <3>2, <3>3
  <2>3. QED BY <2>2 DEF Permits
<1>6. /\ \A q \in Process : /\ Layers(q)' = Layers(q) /\ Paired(q)' = Paired(q)
                            /\ Fellows(q)' = Fellows(q)
      /\ \A q \in Process : \A r \in Fellows(q) : r \in Process
      /\ \A c : Disputed(c)' = Disputed(c)
  BY ImageStays DEF Fellows
<1>7. ASSUME DOMAIN stream \subseteq DOMAIN stream' PROVE DoneLayers'
  BY <1>3, <1>6, <1>7 DEF IInv, DoneLayers, has_stream
<1>8. ASSUME DOMAIN stream \subseteq DOMAIN stream',
             l \in {"name", "done", "sealed"} => config_identifier(image[p].config) \in DOMAIN stream'
      PROVE  DoneConfigs'
  BY <1>1, <1>8 DEF IInv, DoneConfigs, has_stream, PullGoes, Typed
<1>9. CASE /\ stream' = stream
           /\ l # "sealed"
           /\ l \in {"name", "done"} => has_stream(config_identifier(image[p].config))
  <2>1. LayersVerified'
    BY <1>9 DEF IInv, LayersVerified
  <2>2. Complete'
    BY <1>9, CompleteStays DEF IInv
  <2>3. Canonical'
    BY <1>6, <1>9 DEF IInv, Canonical, has_stream, IsSealed
  <2>4. DoneLayers' /\ DoneConfigs'
    BY <1>7, <1>8, <1>9 DEF has_stream
  <2>5. QED BY <1>4, <1>5, <2>1, <2>2, <2>3, <2>4 DEF IInv
<1>10. CASE JoinAll(p) /\ l = "name"
  <2> DEFINE config == image[p].config
             refs == Refs(Layers(p))
             key == config_identifier(config)
  <2>1. refs \in Seq(Paired(p)) /\ ToSet(refs) = Paired(p) /\ p \in Fellows(p)
    BY <1>2, ConfigLists DEF Fellows
  <2>2. \A d \in Paired(p) : has_stream(layer_identifier(d))
    <3>1. ToSet(Layers(p)) = Paired(p) /\ DOMAIN Layers(p) = Pairs(p)
      BY <1>2, LayersReordered
    <3>2. \A i \in Pairs(p) : has_stream(layer_identifier(Layers(p)[i]))
      BY <1>10 DEF JoinAll, IInv, DoneLayers, Typed
    <3>3. QED BY <3>1, <3>2 DEF ToSet
  <2>3. register_stream(key, ConfigObject(config, refs))
    BY <1>10 DEF JoinAll, WriteConfig
  <2>4. /\ Complete' /\ LayersVerified'
        /\ DOMAIN stream' = DOMAIN stream \cup {key}
        /\ stream'[key] = ConfigObject(config, refs)
        /\ \A c \in DOMAIN stream \ {key} : stream'[c] = stream[c]
    <3> HIDE DEF refs
    <3>1. QED BY <2>1, <2>2, <2>3, ConfigKeepsComplete
  <2>5. Canonical'
    <3>1. ASSUME NEW q \in Process, config_identifier(image[q].config) = key,
                 ~Disputed(image[q].config)
          PROVE  image[q].config = config /\ Refs(Layers(q)) = refs
      <4>1. image[q].config = config
        BY <3>1 DEF config_identifier
      <4>2. image[q] \in Images
        BY DEF IInv, Typed
      <4>3. image[q].diff_ids = image[p].diff_ids /\ image[q].sizes = image[p].sizes
        BY <1>2, <3>1, <4>1, <4>2, DigestsTell DEF Disputed
      <4>4. Layers(q) = Layers(p)
        BY <4>3 DEF Layers, Pairs
      <4>5. QED BY <4>1, <4>4
    <3>2. \A q \in Process : Refs(Layers(q))' = Refs(Layers(q))
      BY <1>6 DEF Refs
    <3> HIDE DEF refs, key
    <3>3. QED BY <1>6, <3>1, <3>2, <2>4 DEF IInv, Canonical, has_stream, IsSealed
  <2>6. DoneLayers' /\ DoneConfigs'
    BY <1>7, <1>8, <2>4
  <2>7. QED BY <1>4, <1>5, <2>4, <2>5, <2>6 DEF IInv
<1>11. CASE Seal(p) /\ l = "sealed"
  <2> DEFINE config == image[p].config
             id == config_identifier(config)
             key == config_identifier(Sealed(config))
  <2>1. id \in Configs /\ id[2] = config
    BY <1>11 DEF Seal, IInv, DoneConfigs, has_stream, Configs, config_identifier
  <2>2. PICK r \in Fellows(p) :
          /\ stream[id].refs \in Seq(Paired(r)) /\ ToSet(stream[id].refs) = Paired(r)
          /\ \A d \in Paired(r) : has_stream(layer_identifier(d))
    <3> HIDE DEF id
    <3>1. QED BY <2>1 DEF IInv, Complete, RefsOf, ToSet
  <2>3. PICK order \in {stream[id].refs, Reverse(stream[id].refs)} :
          register_stream(key, ConfigObject(Sealed(config), order))
    BY <1>11 DEF Seal
  <2>4. order \in Seq(Paired(r)) /\ ToSet(order) = Paired(r)
    <3> HIDE DEF id
    <3>1. QED BY <2>2, <2>3, ReversedSet
  <2>5. /\ Complete' /\ LayersVerified'
        /\ DOMAIN stream' = DOMAIN stream \cup {key}
        /\ \A c \in DOMAIN stream \ {key} : stream'[c] = stream[c]
    BY <2>2, <2>3, <2>4, ConfigKeepsComplete
  <2>6. IsSealed(key)
    BY DEF IsSealed, config_identifier
  <2>7. Canonical'
    <3>1. \A q \in Process : Refs(Layers(q))' = Refs(Layers(q))
      BY <1>6 DEF Refs
    <3> HIDE DEF key
    <3>2. ASSUME NEW q \in Process, has_stream(config_identifier(image[q].config))',
                 ~IsSealed(config_identifier(image[q].config)), ~Disputed(image[q].config)
          PROVE  stream'[config_identifier(image[q].config)] =
                   ConfigObject(image[q].config, Refs(Layers(q)))
      <4> DEFINE c == config_identifier(image[q].config)
      <4>1. c # key
        BY <2>6, <3>2
      <4>2. c \in DOMAIN stream /\ stream'[c] = stream[c]
        BY <2>5, <3>2, <4>1 DEF has_stream
      <4>3. QED BY <3>2, <4>2 DEF IInv, Canonical, has_stream
    <3>3. \A c : IsSealed(c)' = IsSealed(c) /\ Disputed(c)' = Disputed(c)
      BY <1>6 DEF IsSealed
    <3>4. QED BY <3>1, <3>2, <3>3 DEF Canonical
  <2>8. DoneLayers' /\ DoneConfigs'
    BY <1>7, <1>8, <2>1, <2>5 DEF Configs
  <2>9. QED BY <1>4, <1>5, <2>5, <2>7, <2>8 DEF IInv
<1>12. QED
  BY <1>1, <1>9, <1>10, <1>11 DEF PullGoes

\* The invariant holds when nothing has been pulled.
LEMMA InitIInv == Init => IInv
<1> SUFFICES ASSUME Init PROVE IInv
  OBVIOUS
<1>1. Typed
  BY OciConstants DEF Init, Typed, NoTasks, TaskState
<1>2. \A p \in Process : \A i \in DOMAIN task[p] : task[p][i] = "none"
  BY DEF Init, NoTasks
<1>3. Permits
  <2>1. \A p \in Process : Running(p) = {}
    BY <1>2 DEF Running
  <2>2. IsFiniteSet({}) /\ Cardinality({}) = 0
    BY FS_EmptySet
  <2>3. 0 <= Threads
    BY OciConstants
  <2>4. QED BY <2>1, <2>2, <2>3 DEF Permits
<1>4. DOMAIN stream = {}
  BY DEF Init
<1>5. DoneLayers /\ DoneConfigs
  BY <1>2 DEF Init, DoneLayers, DoneConfigs
<1>6. Complete /\ Canonical /\ LayersVerified
  BY <1>4 DEF Complete, Configs, Canonical, has_stream, LayersVerified
<1>7. QED BY <1>1, <1>3, <1>5, <1>6 DEF IInv

\* Every step keeps the invariant.
LEMMA NextIInv == ASSUME IInv, [Next]_vars PROVE IInv'
<1>1. CASE Next
  BY <1>1, Steps, TaskKeepsIInv, PullKeepsIInv
<1>2. CASE UNCHANGED vars
  <2>1. /\ \A p \in Process : /\ Layers(p)' = Layers(p) /\ Pairs(p)' = Pairs(p)
                              /\ Paired(p)' = Paired(p) /\ Fellows(p)' = Fellows(p)
        /\ \A p \in Process : \A r \in Fellows(p) : r \in Process
        /\ \A c : Disputed(c)' = Disputed(c)
    BY <1>2, ImageStays DEF vars, Fellows
  <2>2. \A p \in Process : Refs(Layers(p))' = Refs(Layers(p)) /\ Running(p)' = Running(p)
    BY <1>2, <2>1 DEF vars, Refs, Running
  <2>3. Typed' /\ Permits' /\ DoneLayers' /\ DoneConfigs'
    BY <1>2, <2>1, <2>2 DEF vars, IInv, Typed, Permits, DoneLayers, DoneConfigs, has_stream
  <2>4. Complete'
    BY <1>2, CompleteStays DEF vars, IInv
  <2>5. Canonical'
    BY <1>2, <2>1, <2>2 DEF vars, IInv, Canonical, IsSealed, has_stream
  <2>6. LayersVerified'
    BY <1>2 DEF vars, IInv, LayersVerified
  <2>7. QED BY <2>3, <2>4, <2>5, <2>6 DEF IInv
<1>3. QED BY <1>1, <1>2

\* What is registered, and how far each task of each process is, agree in every state.
THEOREM Invariance == Spec => []IInv
<1>1. Init => IInv
  BY InitIInv
<1>2. IInv /\ [Next]_vars => IInv'
  BY NextIInv
<1>3. QED BY <1>1, <1>2, PTL DEF Spec

\* A config in the repository, of an image that was pulled or sealed, refers to
\* exactly the layers that a manifest pairs with its diff_ids, which are all layers of
\* the image where no manifest is too short, and every one of them is there; and
\* there are never more tasks than permits.
THEOREM ConfigsComplete == Spec => []ConfigComplete
<1>1. IInv => ConfigComplete
  <2> SUFFICES ASSUME IInv PROVE ConfigComplete
    OBVIOUS
  <2>1. TypeOK
    BY DEF IInv, Typed, TypeOK, TaskState, Permits
  <2>2. ASSUME NEW q \in Process, Whole(q) PROVE Paired(q) = DiffIds(q)
    <3>1. image[q].diff_ids \in Seq(ToSet(image[q].diff_ids)) /\ image[q].sizes \in Seq(Nat)
      BY OciConstants DEF IInv, Typed
    <3>2. Pairs(q) = DOMAIN image[q].diff_ids
      BY <2>2, <3>1 DEF Pairs, Whole
    <3>3. QED BY <3>2 DEF Paired, DiffIds
  <2>3. ASSUME NEW p \in Process, NEW c \in Configs, c[2] \in {image[p].config, Sealed(image[p].config)}
        PROVE  /\ \E q \in Fellows(p) : RefsOf(c) = Paired(q)
               /\ (\A q \in Fellows(p) : Whole(q)) => RefsOf(c) = DiffIds(p)
               /\ \A d \in RefsOf(c) : has_stream(layer_identifier(d))
    <3>1. PICK q \in Fellows(p) : /\ RefsOf(c) = Paired(q)
                                  /\ \A d \in Paired(q) : has_stream(layer_identifier(d))
      BY <2>3 DEF IInv, Complete
    <3>2. q \in Process /\ DiffIds(q) = DiffIds(p)
      BY DEF Fellows, DiffIds
    <3>3. QED BY <2>2, <3>1, <3>2
  <2>4. QED BY <2>1, <2>3 DEF ConfigComplete
<1>2. QED BY <1>1, Invariance, PTL

\* No layer is registered before skopeo has vouched for its data.
THEOREM LayersAreVerified == Spec => []LayersVerified
<1>1. IInv => LayersVerified
  BY DEF IInv
<1>2. QED BY <1>1, Invariance, PTL

\* What was registered is not replaced by something else, but where seal has been, or
\* manifests do not agree.
LEMMA NextStable ==
  ASSUME IInv, Next, NEW c \in DOMAIN stream,
         ~(c[1] = "oci-config" /\ (Disputed(c[2]) \/ IsSealed(c)))
  PROVE  c \in DOMAIN stream' /\ stream'[c] = stream[c]
<1>1. CASE stream' = stream
  BY <1>1
<1>2. ASSUME NEW p \in Process, NEW i \in DOMAIN task[p],
             register_stream(layer_identifier(Layers(p)[i]), LayerObject(Layers(p)[i], TRUE))
      PROVE  c \in DOMAIN stream' /\ stream'[c] = stream[c]
  <2> DEFINE layer == layer_identifier(Layers(p)[i])
  <2>1. layer \in DOMAIN stream => stream[layer] = LayerObject(Layers(p)[i], TRUE)
    BY DEF IInv, LayersVerified, layer_identifier
  <2> HIDE DEF layer
  <2>2. QED BY <1>2, <2>1, RegisterChanges DEF layer
<1>3. ASSUME NEW p \in Process, JoinAll(p)
      PROVE  c \in DOMAIN stream' /\ stream'[c] = stream[c]
  <2> DEFINE key == config_identifier(image[p].config)
             object == ConfigObject(image[p].config, Refs(Layers(p)))
  <2>1. register_stream(key, object)
    BY <1>3 DEF JoinAll, WriteConfig
  <2>2. c = key => stream[c] = object
    BY DEF IInv, Canonical, has_stream, config_identifier
  <2> HIDE DEF key, object
  <2>3. QED BY <2>1, <2>2, RegisterChanges
<1>4. ASSUME NEW p \in Process, Seal(p)
      PROVE  c \in DOMAIN stream' /\ stream'[c] = stream[c]
  <2> DEFINE key == config_identifier(Sealed(image[p].config))
  <2>1. \E object : register_stream(key, object)
    BY <1>4 DEF Seal
  <2>2. c # key
    BY DEF IsSealed, config_identifier
  <2> HIDE DEF key
  <2>3. QED BY <2>1, <2>2, RegisterChanges
<1>5. QED
  BY <1>1, <1>2, <1>3, <1>4, Steps, TaskEffect, PullEffect DEF TaskGoes, PullGoes, IInv

\* Whoever pulls an image finds, or writes, the same config stream, if the manifests
\* agree on its layers: the digest of an image is the same for everybody, whatever the
\* order in which tasks end.
THEOREM StreamsAreStable == Spec => StreamsStable
<1>1. ASSUME IInv, [Next]_vars
      PROVE  \A c \in DOMAIN stream :
               ~(c[1] = "oci-config" /\
                   (Disputed(c[2]) \/ \E p \in Process : c[2] = Sealed(image[p].config)))
                 => c \in DOMAIN stream' /\ stream'[c] = stream[c]
  <2>1. CASE Next
    BY <1>1, <2>1, NextStable DEF IsSealed
  <2>2. CASE UNCHANGED vars
    BY <2>2 DEF vars
  <2>3. QED BY <1>1, <2>1, <2>2
<1>2. QED BY <1>1, Invariance, PTL DEF Spec, StreamsStable

-------------------------------------------------------------------------------
(* The assembly of layers *)

(***************************************************************************)
(* Paths.                                                                  *)
(***************************************************************************)

\* A path is at or below another one if it begins as that does.
LEMMA InIs ==
  ASSUME NEW N, NEW p \in Seq(N), NEW q \in Seq(N)
  PROVE  In(p, q) <=> Len(p) <= Len(q) /\ \A i \in 1 .. Len(p) : q[i] = p[i]
<1>1. ASSUME Len(p) <= Len(q) PROVE SubSeq(q, 1, Len(p)) = p <=> \A i \in 1 .. Len(p) : q[i] = p[i]
  <2> DEFINE s == SubSeq(q, 1, Len(p))
  <2>1. s \in Seq(N) /\ Len(s) = Len(p) /\ \A i \in 1 .. Len(p) : s[i] = q[i]
    BY <1>1, SubSeqProperties
  <2> HIDE DEF s
  <2>2. (\A i \in 1 .. Len(p) : s[i] = p[i]) => s = p
    BY <2>1, SeqEqual
  <2>3. QED BY <2>1, <2>2 DEF s
<1>2. QED BY <1>1 DEF In

\* What is below something that is below p is below p.
LEMMA InTransitive ==
  ASSUME NEW N, NEW p \in Seq(N), NEW q \in Seq(N), NEW r \in Seq(N), In(p, q), In(q, r)
  PROVE  In(p, r) /\ (p # q \/ q # r => Below(p, r))
<1>1. Len(p) <= Len(q) /\ \A i \in 1 .. Len(p) : q[i] = p[i]
  BY InIs
<1>2. Len(q) <= Len(r) /\ \A i \in 1 .. Len(q) : r[i] = q[i]
  BY InIs
<1>3. Len(p) \in Nat /\ Len(q) \in Nat /\ Len(r) \in Nat
  OBVIOUS
<1>4. Len(p) <= Len(r) /\ \A i \in 1 .. Len(p) : r[i] = p[i]
  BY <1>1, <1>2, <1>3
<1>5. In(p, r)
  BY <1>4, InIs
<1>6. ASSUME p = r PROVE p = q /\ q = r
  <2>1. Len(q) = Len(r)
    BY <1>1, <1>2, <1>3, <1>6
  <2>2. q = r
    BY <2>1, <1>2, SeqEqual
  <2>3. QED BY <2>2, <1>6
<1>7. QED BY <1>5, <1>6 DEF Below

\* Every path is at itself and below the root.
LEMMA InSelf ==
  ASSUME NEW N, NEW p \in Seq(N)
  PROVE  In(p, p) /\ In(<<>>, p)
<1> DEFINE empty == <<>>
<1>1. empty \in Seq(N) /\ Len(empty) = 0 /\ Len(p) \in Nat
  OBVIOUS
<1> HIDE DEF empty
<1>2. In(p, p)
  <2>1. Len(p) <= Len(p) /\ \A i \in 1 .. Len(p) : p[i] = p[i]
    BY <1>1
  <2>2. QED BY <2>1, InIs, Zenon
<1>3. In(empty, p)
  <2>1. Len(empty) <= Len(p) /\ \A i \in 1 .. Len(empty) : p[i] = empty[i]
    BY <1>1
  <2>2. QED BY <1>1, <2>1, InIs, Zenon
<1>4. QED BY <1>2, <1>3 DEF empty

\* The parent of a path is the last path above it.
LEMMA ParentIs ==
  ASSUME NEW N, NEW p \in Seq(N), p # <<>>
  PROVE  /\ Parent(p) \in Seq(N) /\ Len(Parent(p)) = Len(p) - 1
         /\ Below(Parent(p), p)
         /\ FileName(p) \in N /\ p = Append(Parent(p), FileName(p))
         /\ \A q \in Seq(N) : Below(q, p) => In(q, Parent(p))
<1>1. Len(p) \in Nat \ {0}
  BY EmptySeq
<1> DEFINE up == SubSeq(p, 1, Len(p) - 1)
<1>2. up \in Seq(N) /\ Len(up) = Len(p) - 1 /\ \A i \in 1 .. Len(p) - 1 : up[i] = p[i]
  <2>1. 1 \in 1 .. Len(p) + 1 /\ Len(p) - 1 \in 1 - 1 .. Len(p) /\ (Len(p) - 1) - 1 + 1 = Len(p) - 1
    BY <1>1
  <2>2. up \in Seq(N) /\ Len(up) = Len(p) - 1
    BY <2>1, SubSeqProperties
  <2>3. QED BY <1>1, <2>2
<1>3. Parent(p) = up
  BY DEF Parent
<1> HIDE DEF up
<1>4. In(up, p) /\ up # p
  BY <1>1, <1>2, InIs
<1>5. FileName(p) \in N
  BY <1>1, ElementOfSeq DEF FileName
<1>6. p = Append(up, FileName(p))
  <2>1. Append(up, p[Len(p)]) \in Seq(N) /\ Len(Append(up, p[Len(p)])) = Len(p)
    BY <1>1, <1>2, <1>5, AppendProperties DEF FileName
  <2>2. \A i \in 1 .. Len(p) : Append(up, p[Len(p)])[i] = p[i]
    BY <1>1, <1>2, <1>5, AppendProperties DEF FileName
  <2>3. QED BY <2>1, <2>2, SeqEqual DEF FileName
<1>7. ASSUME NEW q \in Seq(N), Below(q, p) PROVE In(q, up)
  <2>1. Len(q) <= Len(p) /\ (\A i \in 1 .. Len(q) : p[i] = q[i]) /\ q # p
    BY <1>7, InIs DEF Below
  <2>2. Len(q) # Len(p)
    BY <2>1, SeqEqual
  <2>3. Len(q) \in Nat
    OBVIOUS
  <2>4. Len(q) <= Len(up) /\ \A i \in 1 .. Len(q) : up[i] = q[i]
    BY <1>1, <1>2, <2>1, <2>2, <2>3
  <2>5. QED BY <1>2, <2>4, InIs
<1>8. QED BY <1>2, <1>3, <1>4, <1>5, <1>6, <1>7 DEF Below

\* A name more is a path below.
LEMMA AppendIsBelow ==
  ASSUME NEW N, NEW p \in Seq(N), NEW a \in N
  PROVE  Append(p, a) \in Seq(N) /\ Append(p, a) # <<>> /\ In(p, Append(p, a))
<1> DEFINE q == Append(p, a)
<1>1. q \in Seq(N) /\ Len(q) = Len(p) + 1 /\ Len(p) \in Nat
  BY AppendProperties
<1>2. \A i \in 1 .. Len(p) : q[i] = p[i]
  BY AppendProperties
<1> HIDE DEF q
<1>3. In(p, q) /\ q # <<>>
  BY <1>1, <1>2, InIs
<1>4. QED BY <1>1, <1>3 DEF q

(***************************************************************************)
(* Trees.                                                                  *)
(***************************************************************************)

ProperNode(node) == IsNode(node) /\ node.dir \in BOOLEAN

IsTree(t) ==
  /\ DOMAIN t \subseteq Seq(Names)
  /\ <<>> \in DOMAIN t /\ t[<<>>].dir
  /\ \A p \in DOMAIN t : t[p].dir \in BOOLEAN /\ IsNode(t[p])
  /\ \A p \in DOMAIN t \ {<<>>} : Parent(p) \in DOMAIN t /\ t[Parent(p)].dir

\* What is above a node is there and a directory.
LEMMA AboveIsDir ==
  ASSUME NEW t, IsTree(t), NEW p \in DOMAIN t, NEW q \in Seq(Names), Below(q, p)
  PROVE  q \in DOMAIN t /\ t[q].dir
<1> DEFINE G == {k \in Nat : \A r \in DOMAIN t : Len(r) = k /\ Below(q, r) => q \in DOMAIN t /\ t[q].dir}
<1>1. \A r \in DOMAIN t : r \in Seq(Names) /\ Len(r) \in Nat
  BY DEF IsTree
<1>2. 0 \in G
  <2>1. ASSUME NEW r \in DOMAIN t, Len(r) = 0, Below(q, r) PROVE FALSE
    <3>1. Len(q) <= Len(r) /\ q # r /\ Len(q) \in Nat
      BY <1>1, <2>1, InIs DEF Below
    <3>2. r = <<>> /\ q = <<>>
      BY <1>1, <2>1, <3>1, EmptySeq
    <3>3. QED BY <3>1, <3>2
  <2>2. QED BY <2>1
<1>3. ASSUME NEW k \in 1 .. Len(p), k - 1 \in G PROVE k \in G
  <2>1. ASSUME NEW r \in DOMAIN t, Len(r) = k, Below(q, r) PROVE q \in DOMAIN t /\ t[q].dir
    <3>1. r # <<>>
      BY <1>1, <2>1
    <3>2. Parent(r) \in DOMAIN t /\ t[Parent(r)].dir
      BY <3>1 DEF IsTree
    <3>3. In(q, Parent(r)) /\ Len(Parent(r)) = k - 1
      BY <1>1, <2>1, <3>1, ParentIs
    <3>4. CASE q = Parent(r)
      BY <3>2, <3>4
    <3>5. CASE q # Parent(r)
      <4>1. Below(q, Parent(r))
        BY <3>3, <3>5 DEF Below
      <4>2. QED BY <1>3, <3>2, <3>3, <4>1
    <3>6. QED BY <3>4, <3>5
  <2>2. k \in Nat
    OBVIOUS
  <2>3. QED BY <2>1, <2>2
<1>4. Len(p) \in Nat
  BY <1>1
<1>5. 0 .. Len(p) \subseteq G
  <2> HIDE DEF G
  <2>1. QED BY <1>2, <1>3, <1>4, IndexInduction
<1>6. Len(p) \in G
  BY <1>4, <1>5
<1>7. QED BY <1>6

\* get_directory finds the directories of a tree.
LEMMA DirectoryIs ==
  ASSUME NEW t, IsTree(t), NEW p, get_directory(t, p)
  PROVE  p \in DOMAIN t /\ t[p].dir
<1>1. p \in DOMAIN t /\ ~ \E q \in Ancestors(p) : q \in DOMAIN t /\ ~t[q].dir
  BY Zenon DEF get_directory, get_directory_opt
<1>2. p \in Seq(Names)
  BY <1>1 DEF IsTree
<1>3. SubSeq(p, 1, Len(p)) = p
  BY <1>2, InSelf DEF In
<1>4. Len(p) \in 0 .. Len(p)
  BY <1>2
<1>5. p \in Ancestors(p)
  BY <1>3, <1>4 DEF Ancestors
<1>6. QED BY <1>1, <1>5

\* An empty root is a tree.
LEMMA NewIsTree ==
  ASSUME NEW stat
  PROVE  IsTree(new(stat))
<1> DEFINE empty == <<>>  d == Dir(stat)
<1>1. d.dir = TRUE /\ DOMAIN d = {"dir", "stat"}
  BY DEF Dir
<1>2. IsNode(d)
  BY <1>1 DEF IsNode
<1>3. empty \in Seq(Names)
  OBVIOUS
<1> HIDE DEF empty, d
<1> DEFINE t == [p \in {empty} |-> d]
<1>4. DOMAIN t = {empty} /\ t[empty] = d
  OBVIOUS
<1> HIDE DEF t
<1>5. IsTree(t)
  <2>1. DOMAIN t \subseteq Seq(Names) /\ empty \in DOMAIN t /\ t[empty].dir
    BY <1>1, <1>3, <1>4
  <2>2. \A p \in DOMAIN t : t[p].dir \in BOOLEAN /\ IsNode(t[p])
    BY <1>1, <1>2, <1>4
  <2>3. DOMAIN t \ {empty} = {}
    BY <1>4
  <2>4. QED BY <2>1, <2>2, <2>3 DEF IsTree, empty
<1>6. QED BY <1>5 DEF new, t, empty, d

\* The node that has another stat.
WithStat(node, stat) == [node EXCEPT !.stat = stat]

\* Another stat changes nothing else of a node.
LEMMA StatChanges ==
  ASSUME NEW node, IsNode(node), node.dir \in BOOLEAN, NEW stat
  PROVE  /\ WithStat(node, stat).dir = node.dir /\ IsNode(WithStat(node, stat))
         /\ WithStat(node, stat).stat = stat
<1> DEFINE n == WithStat(node, stat)
<1>1. "dir" \in DOMAIN node /\ "stat" \in DOMAIN node
  BY DEF IsNode
<1>2. DOMAIN n = DOMAIN node /\ n.dir = node.dir /\ n.stat = stat
  BY <1>1 DEF WithStat
<1> HIDE DEF n
<1>3. IsNode(n)
  BY <1>2 DEF IsNode
<1>4. QED BY <1>2, <1>3 DEF n

\* A node of the tree has another stat.
LEMMA StatInTree ==
  ASSUME NEW t, IsTree(t), NEW p \in DOMAIN t, NEW stat
  PROVE  LET u == [t EXCEPT ![p].stat = stat]
         IN  /\ DOMAIN u = DOMAIN t
             /\ u[p] = WithStat(t[p], stat)
             /\ \A q \in DOMAIN t \ {p} : u[q] = t[q]
             /\ IsTree(u)
<1> DEFINE u == [t EXCEPT ![p].stat = stat]
<1>1. DOMAIN u = DOMAIN t /\ u[p] = WithStat(t[p], stat) /\ \A q \in DOMAIN t \ {p} : u[q] = t[q]
  BY DEF WithStat
<1> HIDE DEF u
<1>2. \A q \in DOMAIN t : u[q].dir = t[q].dir /\ IsNode(u[q])
  <2>1. \A q \in DOMAIN t : IsNode(t[q]) /\ t[q].dir \in BOOLEAN
    BY DEF IsTree
  <2>2. u[p].dir = t[p].dir /\ IsNode(u[p])
    BY <1>1, <2>1, StatChanges
  <2>3. QED BY <1>1, <2>1, <2>2
<1>3. IsTree(u)
  BY <1>1, <1>2 DEF IsTree
<1>4. QED BY <1>1, <1>3 DEF u

\* A tree from which nodes are taken with all that is below them.
LEMMA WithoutIsTree ==
  ASSUME NEW t, IsTree(t), NEW gone, <<>> \notin gone,
         \A p \in DOMAIN t \ {<<>>} : Parent(p) \in gone => p \in gone
  PROVE  /\ IsTree(Without(t, gone))
         /\ DOMAIN Without(t, gone) = DOMAIN t \ gone
         /\ \A p \in DOMAIN t \ gone : Without(t, gone)[p] = t[p]
<1> DEFINE u == Without(t, gone)
<1>1. DOMAIN u = DOMAIN t \ gone /\ \A p \in DOMAIN t \ gone : u[p] = t[p]
  BY DEF Without
<1> HIDE DEF u
<1>2. IsTree(u)
  BY <1>1 DEF IsTree
<1>3. QED BY <1>1, <1>2 DEF u

\* What is left when a directory is emptied.
LEMMA ClearIsTree ==
  ASSUME NEW t, IsTree(t), NEW d \in Seq(Names)
  PROVE  /\ IsTree(clear(t, d))
         /\ DOMAIN clear(t, d) = {p \in DOMAIN t : ~Below(d, p)}
         /\ \A p \in DOMAIN clear(t, d) : clear(t, d)[p] = t[p]
<1> DEFINE gone == {p \in DOMAIN t : Below(d, p)} empty == <<>>
<1>1. DOMAIN t \subseteq Seq(Names)
  BY DEF IsTree
<1>2. empty \notin gone
  <2>1. SUFFICES ASSUME Below(d, empty) PROVE FALSE
    OBVIOUS
  <2>2. empty \in Seq(Names) /\ Len(empty) = 0
    OBVIOUS
  <2> HIDE DEF empty
  <2>3. In(d, empty) /\ d # empty
    BY <2>1 DEF Below
  <2>4. In(empty, d)
    BY InSelf DEF empty
  <2>5. Below(d, d)
    BY <2>2, <2>3, <2>4, InTransitive
  <2>6. QED BY <2>5 DEF Below
<1>3. ASSUME NEW p \in DOMAIN t \ {empty}, Parent(p) \in gone PROVE p \in gone
  <2>1. p \in Seq(Names) /\ p # <<>>
    BY <1>1
  <2>2. Parent(p) \in Seq(Names) /\ Below(Parent(p), p)
    BY <2>1, ParentIs
  <2>3. Below(d, p)
    BY <1>3, <2>1, <2>2, InTransitive DEF Below
  <2>4. QED BY <2>3
<1>4. clear(t, d) = Without(t, gone)
  BY DEF clear
<1> HIDE DEF gone
<1>5. /\ IsTree(Without(t, gone)) /\ DOMAIN Without(t, gone) = DOMAIN t \ gone
      /\ \A p \in DOMAIN t \ gone : Without(t, gone)[p] = t[p]
  BY <1>2, <1>3, WithoutIsTree
<1>6. DOMAIN t \ gone = {p \in DOMAIN t : ~Below(d, p)}
  BY DEF gone
<1>7. QED BY <1>4, <1>5, <1>6

\* What is left when a node is removed.
LEMMA RemoveIsTree ==
  ASSUME NEW t, IsTree(t), NEW d \in Seq(Names), d # <<>>
  PROVE  /\ IsTree(remove(t, d))
         /\ DOMAIN remove(t, d) = {p \in DOMAIN t : ~In(d, p)}
         /\ \A p \in DOMAIN remove(t, d) : remove(t, d)[p] = t[p]
<1> DEFINE gone == {p \in DOMAIN t : In(d, p)} empty == <<>>
<1>1. DOMAIN t \subseteq Seq(Names)
  BY DEF IsTree
<1>2. empty \notin gone
  <2>1. SUFFICES ASSUME In(d, empty) PROVE FALSE
    OBVIOUS
  <2>2. empty \in Seq(Names) /\ Len(empty) = 0
    OBVIOUS
  <2> HIDE DEF empty
  <2>3. In(empty, d) /\ d # empty
    BY InSelf DEF empty
  <2>4. Below(d, d)
    BY <2>1, <2>2, <2>3, InTransitive
  <2>5. QED BY <2>4 DEF Below
<1>3. ASSUME NEW p \in DOMAIN t \ {empty}, Parent(p) \in gone PROVE p \in gone
  <2>1. p \in Seq(Names) /\ p # <<>>
    BY <1>1
  <2>2. Parent(p) \in Seq(Names) /\ In(Parent(p), p)
    BY <2>1, ParentIs DEF Below
  <2>3. In(d, p)
    BY <1>3, <2>1, <2>2, InTransitive
  <2>4. QED BY <2>3
<1>4. remove(t, d) = Without(t, gone)
  BY DEF remove
<1> HIDE DEF gone
<1>5. /\ IsTree(Without(t, gone)) /\ DOMAIN Without(t, gone) = DOMAIN t \ gone
      /\ \A p \in DOMAIN t \ gone : Without(t, gone)[p] = t[p]
  BY <1>2, <1>3, WithoutIsTree
<1>6. DOMAIN t \ gone = {p \in DOMAIN t : ~In(d, p)}
  BY DEF gone
<1>7. QED BY <1>4, <1>5, <1>6

\* The tree u has a node at p and is t elsewhere, but for what is hidden by the node.
InsertedAs(t, p, node, u) ==
  /\ IsTree(u)
  /\ DOMAIN u = {q \in DOMAIN t : ~In(p, q)} \cup {p}
  /\ u[p] = node
  /\ \A q \in DOMAIN u \ {p} : u[q] = t[q]

MergedAs(t, p, node, u) ==
  /\ IsTree(u)
  /\ DOMAIN u = {q \in DOMAIN t : node.dir \/ ~Below(p, q)} \cup {p}
  /\ u[p] = node
  /\ \A q \in DOMAIN u \ {p} : u[q] = t[q]

\* A node that is put into a directory takes the place of all that was there.
LEMMA InsertIsTree ==
  ASSUME NEW t, IsTree(t), NEW p \in Seq(Names), p # <<>>, get_directory(t, Parent(p)),
         NEW node, ProperNode(node)
  PROVE  InsertedAs(t, p, node, insert(t, p, node))
<1> DEFINE u == insert(t, p, node) empty == <<>>
<1>1. /\ DOMAIN u = {q \in DOMAIN t : ~In(p, q)} \cup {p} /\ u[p] = node
      /\ \A q \in DOMAIN u \ {p} : u[q] = t[q]
  BY DEF insert
<1> HIDE DEF u
<1>2. DOMAIN t \subseteq Seq(Names) /\ empty \in DOMAIN t /\ t[empty].dir
  BY DEF IsTree
<1>3. Parent(p) \in DOMAIN t /\ t[Parent(p)].dir
  BY DirectoryIs
<1>4. ~In(p, Parent(p)) /\ ~In(p, empty)
  <2>1. Parent(p) \in Seq(Names) /\ Below(Parent(p), p) /\ In(Parent(p), p) /\ Parent(p) # p
    BY ParentIs DEF Below
  <2>2. empty \in Seq(Names) /\ In(empty, p) /\ empty # p
    BY InSelf
  <2> HIDE DEF empty
  <2>3. ASSUME In(p, Parent(p)) PROVE FALSE
    <3>1. Below(p, p)
      BY <2>1, <2>3, InTransitive
    <3>2. QED BY <3>1 DEF Below
  <2>4. ASSUME In(p, empty) PROVE FALSE
    <3>1. Below(p, p)
      BY <2>2, <2>4, InTransitive
    <3>2. QED BY <3>1 DEF Below
  <2>5. QED BY <2>3, <2>4
<1>5. empty \in DOMAIN u /\ u[empty].dir
  BY <1>1, <1>2, <1>4
<1>6. \A q \in DOMAIN u : u[q].dir \in BOOLEAN /\ IsNode(u[q])
  <2>1. \A q \in DOMAIN t : t[q].dir \in BOOLEAN /\ IsNode(t[q])
    BY DEF IsTree
  <2>2. QED BY <1>1, <2>1 DEF ProperNode
<1>7. ASSUME NEW q \in DOMAIN u \ {empty} PROVE Parent(q) \in DOMAIN u /\ u[Parent(q)].dir
  <2>1. CASE q = p
    <3>1. Parent(p) # p
      BY ParentIs DEF Below
    <3>2. QED BY <1>1, <1>3, <1>4, <2>1, <3>1
  <2>2. CASE q # p
    <3>1. q \in DOMAIN t /\ ~In(p, q) /\ q \in Seq(Names) /\ q # <<>>
      BY <1>1, <1>2, <1>7, <2>2
    <3>2. Parent(q) \in DOMAIN t /\ t[Parent(q)].dir
      BY <3>1 DEF IsTree
    <3>3. Parent(q) \in Seq(Names) /\ In(Parent(q), q)
      BY <3>1, ParentIs DEF Below
    <3>4. ~In(p, Parent(q))
      BY <3>1, <3>3, InTransitive
    <3>5. Parent(q) # p
      BY <3>4, InSelf
    <3>6. QED BY <1>1, <3>2, <3>4, <3>5
  <2>3. QED BY <2>1, <2>2
<1>8. IsTree(u)
  <2>1. DOMAIN u \subseteq Seq(Names)
    BY <1>1, <1>2
  <2>2. QED BY <1>5, <1>6, <1>7, <2>1 DEF IsTree
<1>9. QED BY <1>1, <1>8 DEF u, InsertedAs

\* A record with the fields of a directory is one.
LEMMA DirIs ==
  ASSUME NEW yes, NEW stat, NEW n,
         DOMAIN n = {"dir", "stat"}, n = [f \in DOMAIN n |-> n[f]], n.dir = yes, n.stat = stat
  PROVE  n = [dir |-> yes, stat |-> stat]
  OBVIOUS

\* A directory with another stat is a directory with that stat.
LEMMA DirWithStat ==
  ASSUME NEW node, IsNode(node), node.dir = TRUE, NEW stat
  PROVE  WithStat(node, stat) = Dir(stat)
<1>1. DOMAIN node = {"dir", "stat"}
  BY DEF IsNode
<1> DEFINE n == WithStat(node, stat)  yes == TRUE
<1>2. DOMAIN n = {"dir", "stat"} /\ n = [f \in DOMAIN n |-> n[f]] /\ n.dir = yes /\ n.stat = stat
  BY <1>1 DEF WithStat
<1> HIDE DEF n, yes
<1>3. n = [dir |-> yes, stat |-> stat]
  BY <1>2, DirIs
<1>4. QED BY <1>3 DEF n, yes, Dir

\* A directory that is put over a directory keeps what is in it; what else is put
\* somewhere takes the place of what was there.
LEMMA MergeIsTree ==
  ASSUME NEW t, IsTree(t), NEW p \in Seq(Names), p # <<>>, get_directory(t, Parent(p)),
         NEW node, ProperNode(node), node.dir => node = Dir(node.stat)
  PROVE  MergedAs(t, p, node, merge(t, p, node))
<1>1. DOMAIN t \subseteq Seq(Names) /\ \A q \in DOMAIN t : t[q].dir \in BOOLEAN /\ IsNode(t[q])
  BY DEF IsTree
<1>2. CASE node.dir /\ lookup(t, p) /\ t[p].dir
  <2> DEFINE u == [t EXCEPT ![p].stat = node.stat]
  <2>1. merge(t, p, node) = u
    BY <1>2 DEF merge
  <2>2. p \in DOMAIN t
    BY <1>2 DEF lookup
  <2>3. /\ DOMAIN u = DOMAIN t /\ u[p] = WithStat(t[p], node.stat)
        /\ (\A q \in DOMAIN t \ {p} : u[q] = t[q]) /\ IsTree(u)
    BY <2>2, StatInTree
  <2> HIDE DEF u
  <2>4. u[p] = node
    BY <1>1, <1>2, <2>2, <2>3, DirWithStat
  <2>5. DOMAIN t = {q \in DOMAIN t : node.dir \/ ~Below(p, q)} \cup {p}
    BY <1>2, <2>2
  <2>6. QED BY <2>1, <2>3, <2>4, <2>5 DEF MergedAs
<1>3. CASE ~(node.dir /\ lookup(t, p) /\ t[p].dir)
  <2> DEFINE u == insert(t, p, node)
  <2>1. merge(t, p, node) = u
    BY <1>3 DEF merge
  <2>2. /\ IsTree(u) /\ DOMAIN u = {q \in DOMAIN t : ~In(p, q)} \cup {p} /\ u[p] = node
        /\ \A q \in DOMAIN u \ {p} : u[q] = t[q]
    <3>1. InsertedAs(t, p, node, insert(t, p, node))
      BY InsertIsTree
    <3>2. QED BY <3>1 DEF InsertedAs
  <2> HIDE DEF u
  <2>3. ASSUME NEW q \in DOMAIN t, q # p PROVE In(p, q) <=> ~(node.dir \/ ~Below(p, q))
    <3>1. In(p, q) <=> Below(p, q)
      BY <2>3 DEF Below
    <3>2. Below(p, q) => p \in DOMAIN t /\ t[p].dir
      BY AboveIsDir
    <3>3. Below(p, q) => ~node.dir
      BY <1>3, <3>2 DEF lookup
    <3>4. QED BY <3>1, <3>3
  <2>4. DOMAIN u = {q \in DOMAIN t : node.dir \/ ~Below(p, q)} \cup {p}
    BY <2>2, <2>3
  <2>5. QED BY <2>1, <2>2, <2>4 DEF MergedAs
<1>4. QED BY <1>2, <1>3

(***************************************************************************)
(* Entries.                                                                *)
(***************************************************************************)

\* Entries have paths; what hides one name does not hide all.
LEMMA EntryIs ==
  ASSUME NEW e \in Entry
  PROVE  /\ e.path \in Seq(Names) /\ e.item \in {"directory", "leaf", "hardlink"}
         /\ e.item = "hardlink" => e.target \in Seq(Names)
         /\ IsWhiteout(e) => ~IsOpaque(e)
  BY LayersConstants DEF IsWhiteout, IsOpaque

\* What an entry puts into the tree is a node.
LEMMA NodeIs ==
  ASSUME IsTree(tree), NEW e \in Entry, Accepts(e), NEW rc
  PROVE  LET node == NodeOf(e, rc)
         IN  /\ IsNode(node) /\ node.dir \in BOOLEAN
             /\ node.dir <=> e.item = "directory"
             /\ node.dir => node = Dir(node.stat) /\ node = Dir(e.stat)
             /\ e.item = "hardlink" => e.target \in DOMAIN tree \ {<<>>} /\ ~tree[e.target].dir
<1> DEFINE node == NodeOf(e, rc)
<1>1. e.item \in {"directory", "leaf", "hardlink"}
  BY EntryIs
<1>2. CASE e.item = "directory"
  <2>1. node = Dir(e.stat)
    BY <1>2 DEF NodeOf
  <2>2. DOMAIN Dir(e.stat) = {"dir", "stat"} /\ Dir(e.stat).dir = TRUE /\ Dir(e.stat).stat = e.stat
    BY DEF Dir
  <2>3. QED BY <1>2, <2>1, <2>2 DEF IsNode
<1>3. CASE e.item = "leaf"
  <2> DEFINE leaf == LeafOf(rc, e.stat, e.content)
  <2>1. node = leaf
    BY <1>3 DEF NodeOf
  <2>2. DOMAIN leaf = {"dir", "rc", "stat", "content"} /\ leaf.dir = FALSE
    BY DEF LeafOf
  <2> HIDE DEF leaf
  <2>3. QED BY <1>3, <2>1, <2>2 DEF IsNode
<1>4. CASE e.item = "hardlink"
  <2>1. node = tree[e.target]
    BY <1>4 DEF NodeOf
  <2>2. e.target \in DOMAIN tree /\ ~tree[e.target].dir
    <3>1. ref_leaf(tree, e.target) \/ e.path = <<>>
      BY <1>4 DEF Accepts
    <3>2. e.path = <<>> => e.item = "directory"
      BY DEF Accepts
    <3>3. QED BY <1>4, <3>1, <3>2 DEF ref_leaf, lookup
  <2>3. IsNode(node) /\ node.dir = FALSE /\ e.target # <<>>
    BY <2>1, <2>2 DEF IsTree
  <2>4. QED BY <1>4, <2>2, <2>3
<1>5. QED BY <1>1, <1>2, <1>3, <1>4

\* The root is hidden by nothing.
LEMMA RootNotHidden ==
  ASSUME NEW e \in Entry
  PROVE  ~Hides(e, <<>>)
<1> DEFINE empty == <<>>
<1>1. empty \in Seq(Names) /\ e.path \in Seq(Names)
  BY EntryIs
<1>2. \A n \in DOMAIN WhiteoutOf : WhiteoutOf[n] \in Names
  BY LayersConstants
<1>3. ASSUME NEW p \in Seq(Names), In(p, empty) PROVE p = empty
  <2>1. In(empty, p)
    BY InSelf
  <2> HIDE DEF empty
  <2>2. p # empty => Below(p, p)
    BY <1>1, <1>3, <2>1, InTransitive
  <2>3. QED BY <2>2 DEF Below
<1>4. ~Below(e.path, empty)
  BY <1>1, <1>3 DEF Below
<1>5. ASSUME e.path # empty PROVE ~Below(Parent(e.path), empty)
  BY <1>1, <1>3, <1>5, ParentIs DEF Below
<1>6. ASSUME IsWhiteout(e) PROVE ~In(Append(Parent(e.path), WhiteoutOf[FileName(e.path)]), empty)
  <2>1. Parent(e.path) \in Seq(Names) /\ WhiteoutOf[FileName(e.path)] \in Names
    BY <1>1, <1>2, <1>6, ParentIs DEF IsWhiteout
  <2> DEFINE q == Append(Parent(e.path), WhiteoutOf[FileName(e.path)])
  <2>2. q \in Seq(Names) /\ q # empty
    BY <2>1, AppendIsBelow
  <2> HIDE DEF q
  <2>3. ~In(q, empty)
    BY <1>3, <2>2
  <2>4. QED BY <2>3 DEF q
<1>7. QED BY <1>4, <1>5, <1>6 DEF Hides, IsOpaque

\* The entry puts its node at its path, if it is no whiteout, and takes away what it
\* hides; and there is a tree again.
ProcessedAs(e, rc, u) ==
  /\ IsTree(u)
  /\ DOMAIN u = {p \in DOMAIN tree : ~Hides(e, p)} \cup (IF IsPlain(e) THEN {e.path} ELSE {})
  /\ \A p \in DOMAIN u : u[p] = IF IsPlain(e) /\ p = e.path THEN NodeOf(e, rc) ELSE tree[p]

\* process_entry does that.
LEMMA ProcessedIs ==
  ASSUME IsTree(tree), NEW e \in Entry, Accepts(e), NEW rc
  PROVE  ProcessedAs(e, rc, Processed(e, rc))
<1> DEFINE u == Processed(e, rc)
<1>1. e.path \in Seq(Names)
  BY EntryIs
<1>2. CASE e.path = <<>>
  <2>1. e.item = "directory" /\ IsPlain(e)
    BY <1>2 DEF Accepts, IsPlain, IsWhiteout, IsOpaque
  <2>2. \A p : ~Hides(e, p)
    BY <2>1 DEF Hides, IsPlain
  <2> DEFINE v == [tree EXCEPT ![<<>>].stat = e.stat]
  <2>3. u = v
    BY <1>2 DEF Processed, set_root_stat
  <2>4. <<>> \in DOMAIN tree /\ IsNode(tree[<<>>]) /\ tree[<<>>].dir = TRUE
    BY DEF IsTree
  <2>5. /\ DOMAIN v = DOMAIN tree /\ v[<<>>] = WithStat(tree[<<>>], e.stat)
        /\ (\A q \in DOMAIN tree \ {<<>>} : v[q] = tree[q]) /\ IsTree(v)
    BY <2>4, StatInTree
  <2>6. v[<<>>] = NodeOf(e, rc)
    BY <2>1, <2>4, <2>5, DirWithStat DEF NodeOf
  <2> HIDE DEF u, v
  <2>7. ProcessedAs(e, rc, v)
    BY <1>2, <2>1, <2>2, <2>4, <2>5, <2>6 DEF ProcessedAs
  <2>8. QED BY <2>3, <2>7 DEF u
<1>3. CASE IsOpaque(e)
  <2>1. ~IsPlain(e) /\ ~IsWhiteout(e) /\ e.path # <<>>
    BY <1>3, EntryIs DEF IsPlain, IsOpaque
  <2>2. \A p : Hides(e, p) <=> Below(Parent(e.path), p)
    BY <1>3, <2>1 DEF Hides
  <2> DEFINE v == clear(tree, Parent(e.path))
  <2>3. u = v
    <3>1. FileName(e.path) = Opaque /\ FileName(e.path) \notin DOMAIN WhiteoutOf
      BY <1>3, <2>1 DEF IsOpaque, IsWhiteout
    <3>2. QED BY <2>1, <3>1 DEF Processed
  <2>4. Parent(e.path) \in Seq(Names)
    BY <1>1, <2>1, ParentIs
  <2>5. /\ IsTree(v) /\ DOMAIN v = {p \in DOMAIN tree : ~Below(Parent(e.path), p)}
        /\ \A p \in DOMAIN v : v[p] = tree[p]
    BY <2>4, ClearIsTree
  <2> HIDE DEF u, v
  <2>6. ProcessedAs(e, rc, v)
    BY <2>1, <2>2, <2>5 DEF ProcessedAs
  <2>7. QED BY <2>3, <2>6 DEF u
<1>4. CASE IsWhiteout(e)
  <2>1. ~IsPlain(e) /\ ~IsOpaque(e) /\ e.path # <<>> /\ FileName(e.path) \in DOMAIN WhiteoutOf
    BY <1>4, EntryIs DEF IsPlain, IsWhiteout
  <2> DEFINE q == Append(Parent(e.path), WhiteoutOf[FileName(e.path)])
  <2>2. \A p : Hides(e, p) <=> In(q, p)
    BY <1>4, <2>1 DEF Hides
  <2> DEFINE v == remove(tree, q)
  <2>3. u = v
    BY <2>1 DEF Processed, IsOpaque
  <2>4. q \in Seq(Names) /\ q # <<>>
    <3>1. Parent(e.path) \in Seq(Names)
      BY <1>1, <2>1, ParentIs
    <3>2. WhiteoutOf[FileName(e.path)] \in Names
      BY <2>1, LayersConstants
    <3>3. QED BY <3>1, <3>2, AppendIsBelow
  <2> HIDE DEF q
  <2>5. /\ IsTree(v) /\ DOMAIN v = {p \in DOMAIN tree : ~In(q, p)}
        /\ \A p \in DOMAIN v : v[p] = tree[p]
    BY <2>4, RemoveIsTree
  <2> HIDE DEF u, v
  <2>6. ProcessedAs(e, rc, v)
    BY <2>1, <2>2, <2>5 DEF ProcessedAs
  <2>7. QED BY <2>3, <2>6 DEF u
<1>5. CASE IsPlain(e) /\ e.path # <<>>
  <2>1. ~IsOpaque(e) /\ ~IsWhiteout(e)
    BY <1>5 DEF IsPlain
  <2> DEFINE node == NodeOf(e, rc)  v == merge(tree, e.path, node)
  <2>2. u = v
    BY <1>5, <2>1 DEF Processed, IsOpaque, IsWhiteout
  <2>3. ProperNode(node) /\ (node.dir <=> e.item = "directory") /\ (node.dir => node = Dir(node.stat))
    BY NodeIs DEF ProperNode
  <2>4. get_directory(tree, Parent(e.path))
    BY <1>5 DEF Accepts, split
  <2> HIDE DEF node
  <2>5. /\ IsTree(v)
        /\ DOMAIN v = {q \in DOMAIN tree : node.dir \/ ~Below(e.path, q)} \cup {e.path}
        /\ v[e.path] = node
        /\ \A q \in DOMAIN v \ {e.path} : v[q] = tree[q]
    <3>1. MergedAs(tree, e.path, node, merge(tree, e.path, node))
      BY <1>1, <1>5, <2>3, <2>4, MergeIsTree
    <3>2. QED BY <3>1 DEF MergedAs
  <2>6. \A q : Hides(e, q) <=> ~(node.dir \/ ~Below(e.path, q))
    BY <1>5, <2>1, <2>3 DEF Hides
  <2> HIDE DEF u, v
  <2>7. ProcessedAs(e, rc, v)
    BY <1>5, <2>5, <2>6 DEF ProcessedAs, node
  <2>8. QED BY <2>2, <2>7 DEF u
<1>6. QED BY <1>2, <1>3, <1>4, <1>5 DEF IsPlain

\* The tree that process_entry makes has nodes at its paths alone.
LEMMA ProcessedIsFunction ==
  ASSUME NEW e, NEW rc
  PROVE  Processed(e, rc) = [p \in DOMAIN Processed(e, rc) |-> Processed(e, rc)[p]]
<1> DEFINE IsFunction(f) == f = [p \in DOMAIN f |-> f[p]]
<1>1. \A stat : IsFunction(set_root_stat(tree, stat))
  BY DEF set_root_stat
<1>2. \A p : IsFunction(clear(tree, p)) /\ IsFunction(remove(tree, p))
  BY DEF clear, remove, Without
<1>3. \A p, node : IsFunction(merge(tree, p, node))
  BY DEF merge, insert
<1> HIDE DEF IsFunction
<1>4. IsFunction(Processed(e, rc))
  BY <1>1, <1>2, <1>3 DEF Processed
<1>5. QED BY <1>4 DEF IsFunction

(***************************************************************************)
(* The list of the entries, as it grows.                                   *)
(***************************************************************************)

AppliedOK ==
  /\ applied \in Seq([entry : Entry, layer : Nat]) /\ layers \in Nat
  /\ \A i \in Index : applied[i].layer <= layers

Adds(e) ==
  /\ e \in Entry
  /\ applied' = Append(applied, [entry |-> e, layer |-> layers])
  /\ layers' = layers

\* The entries that were there stay what they are.
LEMMA Grown ==
  ASSUME AppliedOK, NEW e, Adds(e), NEW n, n = Len(applied)
  PROVE  /\ n \in Nat /\ Len(applied') = n + 1
         /\ \A i \in 1 .. n : applied'[i] = applied[i] /\ Item(i) \in Entry /\ applied[i].layer \in Nat
         /\ applied'[n + 1].entry = e /\ applied'[n + 1].layer = layers
         /\ AppliedOK'
<1> DEFINE one == [entry |-> e, layer |-> layers]  T == [entry : Entry, layer : Nat]
<1>1. one \in T /\ one.entry = e /\ one.layer = layers
  BY DEF Adds, AppliedOK
<1>2. applied' = Append(applied, one) /\ layers' = layers
  BY DEF Adds
<1>3. applied \in Seq(T) /\ layers \in Nat /\ \A i \in 1 .. Len(applied) : applied[i].layer <= layers
  BY DEF AppliedOK, Index
<1>4. \A i \in 1 .. n : applied[i] \in T
  BY <1>3, ElementOfSeq
<1>5. \A i \in 1 .. n : applied[i].entry \in Entry /\ applied[i].layer \in Nat
  BY <1>4
<1> HIDE DEF one, T
<1>6. /\ n \in Nat /\ applied' \in Seq(T) /\ Len(applied') = n + 1 /\ applied'[n + 1] = one
      /\ \A i \in 1 .. n : applied'[i] = applied[i]
  BY <1>1, <1>2, <1>3, AppendProperties
<1>7. \A i \in 1 .. n + 1 : applied'[i].layer <= layers'
  BY <1>1, <1>2, <1>3, <1>6
<1>8. AppliedOK'
  BY <1>2, <1>3, <1>6, <1>7 DEF AppliedOK, Index, T
<1>9. QED BY <1>1, <1>5, <1>6, <1>8 DEF Item

\* The last entry for a path is one for it.
LEMMA LastIs ==
  ASSUME NEW p, NEW k \in Nat, EntriesFor(p, k) # {}
  PROVE  /\ LastFor(p, k) \in EntriesFor(p, k) /\ LastFor(p, k) \in 1 .. k
         /\ \A j \in EntriesFor(p, k) : j <= LastFor(p, k)
<1>1. EntriesFor(p, k) \in SUBSET (1 .. k)
  BY DEF EntriesFor
<1>2. \E i \in EntriesFor(p, k) : \A j \in EntriesFor(p, k) : j <= i
  BY <1>1, GreatestNumber
<1>3. QED BY <1>1, <1>2 DEF LastFor

\* One entry more is the last for its path.
LEMMA LastGrows ==
  ASSUME AppliedOK, NEW e, Adds(e), NEW n, n = Len(applied), NEW p
  PROVE  /\ \A k \in 0 .. n : EntriesFor(p, k)' = EntriesFor(p, k) /\ LastFor(p, k)' = LastFor(p, k)
         /\ EntriesFor(p, n + 1)' = EntriesFor(p, n) \cup (IF IsPlain(e) /\ e.path = p THEN {n + 1} ELSE {})
         /\ LastFor(p, n + 1)' = IF IsPlain(e) /\ e.path = p THEN n + 1 ELSE LastFor(p, n)
<1>1. n \in Nat /\ (\A i \in 1 .. n : applied'[i] = applied[i]) /\ applied'[n + 1].entry = e
  BY Grown
<1>2. ASSUME NEW k \in 0 .. n PROVE EntriesFor(p, k)' = EntriesFor(p, k) /\ LastFor(p, k)' = LastFor(p, k)
  <2>1. EntriesFor(p, k)' = EntriesFor(p, k)
    BY <1>1 DEF EntriesFor, Item
  <2>2. QED BY <2>1 DEF LastFor
<1>3. EntriesFor(p, n + 1)' = EntriesFor(p, n) \cup (IF IsPlain(e) /\ e.path = p THEN {n + 1} ELSE {})
  BY <1>1 DEF EntriesFor, Item
<1>4. CASE IsPlain(e) /\ e.path = p
  <2>1. n + 1 \in EntriesFor(p, n + 1)' /\ \A j \in EntriesFor(p, n + 1)' : j <= n + 1 /\ j \in Nat
    BY <1>1, <1>3, <1>4 DEF EntriesFor
  <2>2. LastFor(p, n + 1)' \in EntriesFor(p, n + 1)' /\ \A j \in EntriesFor(p, n + 1)' : j <= LastFor(p, n + 1)'
    BY <2>1 DEF LastFor
  <2>3. LastFor(p, n + 1)' = n + 1
    BY <1>1, <2>1, <2>2
  <2>4. QED BY <1>2, <1>3, <1>4, <2>3
<1>5. CASE ~(IsPlain(e) /\ e.path = p)
  <2>1. EntriesFor(p, n + 1)' = EntriesFor(p, n)
    BY <1>3, <1>5
  <2>2. LastFor(p, n + 1)' = LastFor(p, n)
    BY <2>1 DEF LastFor
  <2>3. QED BY <1>2, <1>3, <1>5, <2>2
<1>6. QED BY <1>4, <1>5

\* Layers that are well ordered have been so all the time; and a whiteout hides
\* nothing of its own layer.
LEMMA OrderedBefore ==
  ASSUME AppliedOK, NEW e, Adds(e), WellOrdered', NEW n, n = Len(applied)
  PROVE  /\ WellOrdered
         /\ ~IsPlain(e) => \A i \in 1 .. n : Hides(e, Item(i).path) => applied[i].layer < layers
<1>1. /\ n \in Nat /\ Len(applied') = n + 1
      /\ (\A i \in 1 .. n : applied'[i] = applied[i] /\ applied[i].layer \in Nat)
      /\ applied'[n + 1].entry = e /\ applied'[n + 1].layer = layers
  BY Grown
<1>2. \A i \in 1 .. n : applied[i].layer <= layers /\ layers \in Nat
  BY DEF AppliedOK, Index
<1>3. \A i, j \in 1 .. n + 1 :
        (i < j /\ applied'[i].layer = applied'[j].layer /\ ~IsPlain(applied'[j].entry))
          => ~Hides(applied'[j].entry, applied'[i].entry.path)
  BY <1>1 DEF WellOrdered, Index, Item
<1>4. WellOrdered
  BY <1>1, <1>3 DEF WellOrdered, Index, Item
<1>5. ASSUME ~IsPlain(e), NEW i \in 1 .. n, Hides(e, Item(i).path) PROVE applied[i].layer < layers
  <2>1. applied[i].layer # layers
    BY <1>1, <1>3, <1>5 DEF Item
  <2>2. QED BY <1>1, <1>2, <2>1
<1>6. QED BY <1>4, <1>5

\* What is seen: what was, but for what the entry hides, and the entry.
LEMMA SeenGrows ==
  ASSUME AppliedOK, NEW e, Adds(e), WellOrdered', NEW n, n = Len(applied)
  PROVE  Seen' = {p \in Seen : ~Hides(e, p)} \cup (IF IsPlain(e) /\ e.path # <<>> THEN {e.path} ELSE {})
<1> DEFINE mine == IF IsPlain(e) /\ e.path # <<>> THEN {e.path} ELSE {}
<1>1. /\ n \in Nat /\ Len(applied') = n + 1
      /\ (\A i \in 1 .. n : applied'[i] = applied[i] /\ applied[i].layer \in Nat)
      /\ applied'[n + 1].entry = e /\ applied'[n + 1].layer = layers /\ layers \in Nat
  BY Grown DEF AppliedOK
<1>2. ASSUME NEW p, NEW i \in 1 .. n
      PROVE  Hidden(p, i)' <=> Hidden(p, i) \/ (Hides(e, p) /\ (IsPlain(e) \/ layers > applied[i].layer))
  <2> DEFINE Over(j) == j > i /\ Hides(applied[j].entry, p)
                          /\ (IsPlain(applied[j].entry) \/ applied[j].layer > applied[i].layer)
  <2>1. Hidden(p, i) <=> \E j \in 1 .. n : Over(j)
    BY DEF Hidden, Index, Item
  <2>2. Hidden(p, i)' <=> \E j \in 1 .. n + 1 : Over(j)'
    BY <1>1 DEF Hidden, Index, Item
  <2>3. \A j \in 1 .. n : Over(j)' <=> Over(j)
    BY <1>1
  <2>4. Over(n + 1)' <=> Hides(e, p) /\ (IsPlain(e) \/ layers > applied[i].layer)
    BY <1>1
  <2> HIDE DEF Over
  <2>5. \A j \in 1 .. n + 1 : j \in 1 .. n \/ j = n + 1
    BY <1>1
  <2>6. n + 1 \in 1 .. n + 1 /\ 1 .. n \subseteq 1 .. n + 1
    BY <1>1
  <2>7. QED BY <2>1, <2>2, <2>3, <2>4, <2>5, <2>6
<1>3. ASSUME NEW p PROVE ~Hidden(p, n + 1)'
  BY <1>1 DEF Hidden, Index, Item
<1>4. \A p : /\ EntriesFor(p, n + 1)' = EntriesFor(p, n) \cup (IF IsPlain(e) /\ e.path = p THEN {n + 1} ELSE {})
             /\ LastFor(p, n + 1)' = IF IsPlain(e) /\ e.path = p THEN n + 1 ELSE LastFor(p, n)
  BY LastGrows
<1>5. \A p : p \in Seen <=> p # <<>> /\ EntriesFor(p, n) # {} /\ ~Hidden(p, LastFor(p, n))
  BY DEF Seen, EntriesFor, Index
<1>6. \A p : p \in Seen' <=> p # <<>> /\ EntriesFor(p, n + 1)' # {} /\ ~Hidden(p, LastFor(p, n + 1))'
  BY <1>1 DEF Seen, EntriesFor, Index
<1>7. ASSUME NEW p PROVE p \in Seen' <=> (p \in Seen /\ ~Hides(e, p)) \/ p \in mine
  <2>1. CASE IsPlain(e) /\ e.path = p
    <3>1. p \in Seen' <=> p # <<>>
      <4>1. LastFor(p, n + 1)' = n + 1 /\ EntriesFor(p, n + 1)' # {}
        BY <1>4, <2>1
      <4>2. ~Hidden(p, LastFor(p, n + 1))'
        BY <1>3, <4>1 DEF Hidden
      <4>3. QED BY <1>6, <4>1, <4>2
    <3>2. p \in mine <=> p # <<>>
      BY <2>1
    <3>3. p \in Seen => p # <<>>
      BY <1>5
    <3>4. QED BY <3>1, <3>2, <3>3
  <2>2. CASE ~(IsPlain(e) /\ e.path = p)
    <3>1. p \notin mine
      BY <2>2
    <3>2. EntriesFor(p, n + 1)' = EntriesFor(p, n) /\ LastFor(p, n + 1)' = LastFor(p, n)
      BY <1>4, <2>2
    <3>3. CASE EntriesFor(p, n) = {}
      BY <1>5, <1>6, <3>1, <3>2, <3>3
    <3>4. CASE EntriesFor(p, n) # {}
      <4>1. PICK i \in 1 .. n : i = LastFor(p, n) /\ Item(i).path = p
        BY <1>1, <3>4, LastIs DEF EntriesFor
      <4>2. ~IsPlain(e) /\ Hides(e, p) => applied[i].layer < layers
        BY <4>1, OrderedBefore
      <4>3. Hidden(p, i)' <=> Hidden(p, i) \/ Hides(e, p)
        BY <1>1, <1>2, <4>1, <4>2
      <4>4. p \in Seen <=> p # <<>> /\ ~Hidden(p, i)
        BY <1>5, <3>4, <4>1
      <4>5. p \in Seen' <=> p # <<>> /\ ~Hidden(p, i)'
        <5>1. LastFor(p, n + 1)' = i
          BY <3>2, <4>1
        <5>2. Hidden(p, LastFor(p, n + 1))' <=> Hidden(p, i)'
          BY <5>1 DEF Hidden
        <5>3. QED BY <1>6, <3>2, <3>4, <5>2
      <4>6. QED BY <3>1, <4>3, <4>4, <4>5
    <3>5. QED BY <3>3, <3>4
  <2>3. QED BY <2>1, <2>2
<1> HIDE DEF mine
<1>8. Seen' = {p \in Seen : ~Hides(e, p)} \cup mine
  BY <1>7
<1>9. QED BY <1>8 DEF mine

(***************************************************************************)
(* Where the inode of an entry comes from.                                 *)
(***************************************************************************)

\* A hard link that was accepted has an entry for what it is a link to.
Resolved ==
  \A i \in Index : Item(i).item = "hardlink" => EntriesFor(Item(i).target, i - 1) # {}

\* The recursion that defines Origin comes to an end.
OriginIs ==
  Origin = [i \in Index |->
              IF Item(i).item = "hardlink" THEN Origin[LastFor(Item(i).target, i - 1)] ELSE i]

\* Without entries there is nothing to trace.
LEMMA OriginAtFirst ==
  ASSUME applied = <<>>
  PROVE  OriginIs /\ Resolved
<1>1. Index = {}
  BY DEF Index
<1>2. \E f : f = [i \in Index |-> IF Item(i).item = "hardlink" THEN f[LastFor(Item(i).target, i - 1)] ELSE i]
  <2> DEFINE f == [i \in Index |-> i]
  <2>1. f = [i \in Index |-> IF Item(i).item = "hardlink" THEN f[LastFor(Item(i).target, i - 1)] ELSE i]
    BY <1>1
  <2>2. QED BY <2>1
<1>3. OriginIs
  BY <1>2 DEF Origin, OriginIs
<1>4. QED BY <1>1, <1>3 DEF Resolved

\* One entry more: its origin is found, and the others stay the same.
LEMMA OriginGrows ==
  ASSUME AppliedOK, OriginIs, Resolved, NEW e, Adds(e), NEW n, n = Len(applied),
         e.item = "hardlink" => EntriesFor(e.target, n) # {}
  PROVE  /\ OriginIs' /\ Resolved'
         /\ \A i \in 1 .. n : Origin'[i] = Origin[i]
         /\ Origin'[n + 1] = IF e.item = "hardlink" THEN Origin[LastFor(e.target, n)] ELSE n + 1
<1>1. /\ n \in Nat /\ Len(applied') = n + 1
      /\ (\A i \in 1 .. n : applied'[i] = applied[i])
      /\ applied'[n + 1].entry = e
  BY Grown
<1>2. Index = 1 .. n /\ Index' = 1 .. n + 1
  BY <1>1 DEF Index
<1>3. \A p : \A k \in 0 .. n : EntriesFor(p, k)' = EntriesFor(p, k) /\ LastFor(p, k)' = LastFor(p, k)
  <2>1. ASSUME NEW p
        PROVE  \A k \in 0 .. n : EntriesFor(p, k)' = EntriesFor(p, k) /\ LastFor(p, k)' = LastFor(p, k)
    <3>1. /\ \A k \in 0 .. n : EntriesFor(p, k)' = EntriesFor(p, k) /\ LastFor(p, k)' = LastFor(p, k)
          /\ EntriesFor(p, n + 1)' = EntriesFor(p, n) \cup (IF IsPlain(e) /\ e.path = p THEN {n + 1} ELSE {})
          /\ LastFor(p, n + 1)' = IF IsPlain(e) /\ e.path = p THEN n + 1 ELSE LastFor(p, n)
      BY LastGrows
    <3>2. QED BY <3>1
  <2>2. QED BY <2>1
<1> DEFINE Link(i) == applied'[i].entry.item = "hardlink"
           back == [i \in 1 .. n + 1 |-> LastFor(IF i = n + 1 THEN e.target ELSE Item(i).target, i - 1)]
<1>4. ASSUME NEW i \in 1 .. n + 1, Link(i)
      PROVE  /\ back[i] \in 1 .. i - 1
             /\ EntriesFor(Item(i).target, i - 1)' # {}
             /\ LastFor(Item(i).target, i - 1)' = back[i]
  <2>1. PICK p : p = IF i = n + 1 THEN e.target ELSE Item(i).target
    OBVIOUS
  <2>2. p = applied'[i].entry.target
    BY <1>1, <2>1 DEF Item
  <2>3. EntriesFor(p, i - 1) # {}
    <3>1. CASE i = n + 1
      <4>1. e.item = "hardlink" /\ p = e.target /\ i - 1 = n
        BY <1>1, <1>4, <2>1, <3>1
      <4>2. QED BY <4>1
    <3>2. CASE i # n + 1
      <4>1. i \in 1 .. n /\ Item(i).item = "hardlink" /\ p = Item(i).target
        BY <1>1, <1>4, <2>1, <3>2 DEF Item
      <4>2. QED BY <1>2, <4>1 DEF Resolved
    <3>3. QED BY <3>1, <3>2
  <2>4. i - 1 \in Nat /\ i - 1 \in 0 .. n
    BY <1>1
  <2>5. LastFor(p, i - 1) \in 1 .. i - 1
    BY <2>3, <2>4, LastIs
  <2>6. EntriesFor(p, i - 1)' = EntriesFor(p, i - 1) /\ LastFor(p, i - 1)' = LastFor(p, i - 1)
    BY <1>3, <2>4
  <2>7. EntriesFor(Item(i).target, i - 1)' = EntriesFor(p, i - 1)'
    BY <2>2 DEF EntriesFor, Item
  <2>8. LastFor(Item(i).target, i - 1)' = LastFor(p, i - 1)'
    BY <2>7 DEF LastFor
  <2>9. QED BY <2>1, <2>3, <2>5, <2>6, <2>7, <2>8
<1>5. Resolved'
  BY <1>2, <1>4 DEF Resolved, Item
<1> DEFINE Recursion(f) == f = [i \in 1 .. n + 1 |-> IF Link(i) THEN f[back[i]] ELSE i]
<1>6. \A f : Recursion(f) <=>
         f = [i \in Index' |-> IF Item(i)'.item = "hardlink" THEN f[LastFor(Item(i).target, i - 1)'] ELSE i]
  <2>1. \A i \in 1 .. n + 1 : Link(i) <=> Item(i)'.item = "hardlink"
    BY DEF Item
  <2> HIDE DEF Link, back
  <2>2. QED BY <1>2, <1>4, <2>1
<1> DEFINE f == [i \in 1 .. n + 1 |->
                   IF i = n + 1 THEN IF e.item = "hardlink" THEN Origin[LastFor(e.target, n)] ELSE n + 1
                   ELSE Origin[i]]
<1>7. /\ \A i \in 1 .. n : f[i] = Origin[i] /\ (Link(i) <=> Item(i).item = "hardlink") /\ back[i] = LastFor(Item(i).target, i - 1)
      /\ f[n + 1] = IF e.item = "hardlink" THEN Origin[LastFor(e.target, n)] ELSE n + 1
      /\ Link(n + 1) <=> e.item = "hardlink"
      /\ back[n + 1] = LastFor(e.target, n)
      /\ DOMAIN f = 1 .. n + 1
  BY <1>1 DEF Item
<1>8. \A i \in 1 .. n : Origin[i] = IF Link(i) THEN Origin[back[i]] ELSE i
  <2>1. \A i \in 1 .. n : Origin[i] = IF Item(i).item = "hardlink" THEN Origin[LastFor(Item(i).target, i - 1)] ELSE i
    BY <1>2 DEF OriginIs
  <2> HIDE DEF Link, back, f
  <2>2. QED BY <1>7, <2>1
<1>9. f = [i \in DOMAIN f |-> f[i]]
  OBVIOUS
<1> HIDE DEF Link, back, f
<1>10. ASSUME NEW i \in 1 .. n + 1 PROVE f[i] = IF Link(i) THEN f[back[i]] ELSE i
  <2>1. Link(i) => back[i] \in 1 .. n
    BY <1>1, <1>4
  <2>2. Link(i) => f[back[i]] = Origin[back[i]]
    BY <1>7, <2>1
  <2>3. CASE i = n + 1
    BY <1>7, <2>2, <2>3
  <2>4. CASE i # n + 1
    <3>1. i \in 1 .. n
      BY <1>1, <2>4
    <3>2. QED BY <1>7, <1>8, <2>2, <3>1
  <2>5. QED BY <2>3, <2>4
<1>11. Recursion(f)
  BY <1>7, <1>9, <1>10
<1>12. Recursion(Origin')
  <2>1. Origin' = CHOOSE g : g = [i \in Index' |-> IF Item(i)'.item = "hardlink" THEN g[LastFor(Item(i).target, i - 1)'] ELSE i]
    BY DEF Origin
  <2>2. \E g : g = [i \in Index' |-> IF Item(i)'.item = "hardlink" THEN g[LastFor(Item(i).target, i - 1)'] ELSE i]
    BY <1>6, <1>11
  <2> HIDE DEF Recursion
  <2>3. Origin' = [i \in Index' |-> IF Item(i)'.item = "hardlink" THEN Origin'[LastFor(Item(i).target, i - 1)'] ELSE i]
    BY <2>1, <2>2
  <2>4. QED BY <1>6, <2>3
<1>13. OriginIs'
  BY <1>6, <1>12 DEF OriginIs
<1>14. \A i \in 1 .. n + 1 : Origin'[i] = IF Link(i) THEN Origin'[back[i]] ELSE i
  BY <1>12
<1> HIDE DEF Recursion
<1> DEFINE G == {k \in 0 .. n : \A i \in 1 .. k : Origin'[i] = Origin[i]}
<1>15. 0 \in G
  BY <1>1
<1>16. ASSUME NEW k \in 1 .. n, k - 1 \in G PROVE k \in G
  <2>1. \A i \in 1 .. k - 1 : Origin'[i] = Origin[i]
    BY <1>16
  <2>2. k \in 1 .. n + 1 /\ (Link(k) => back[k] \in 1 .. k - 1)
    BY <1>1, <1>4
  <2>3. Origin'[k] = Origin[k]
    BY <1>8, <1>14, <2>1, <2>2
  <2>4. \A i \in 1 .. k : i = k \/ i \in 1 .. k - 1
    OBVIOUS
  <2>5. k \in 0 .. n
    OBVIOUS
  <2>6. QED BY <2>1, <2>3, <2>4, <2>5
<1>17. 0 .. n \subseteq G
  <2> HIDE DEF G
  <2>1. QED BY <1>1, <1>15, <1>16, IndexInduction
<1>18. \A i \in 1 .. n : Origin'[i] = Origin[i]
  <2>1. n \in G
    BY <1>1, <1>17
  <2>2. QED BY <2>1
<1>19. Origin'[n + 1] = IF e.item = "hardlink" THEN Origin[LastFor(e.target, n)] ELSE n + 1
  <2>1. n + 1 \in 1 .. n + 1 /\ (n + 1) - 1 = n
    BY <1>1
  <2>2. Link(n + 1) => back[n + 1] \in 1 .. n
    BY <1>4, <2>1
  <2>3. QED BY <1>7, <1>14, <1>18, <2>1, <2>2
<1>20. QED BY <1>5, <1>13, <1>18, <1>19

\* The inode of an entry comes from it or from one before it.
LEMMA OriginBefore ==
  ASSUME AppliedOK, OriginIs, Resolved, NEW n, n = Len(applied)
  PROVE  \A i \in 1 .. n : Origin[i] \in 1 .. i
<1>1. n \in Nat /\ Index = 1 .. n
  BY DEF AppliedOK, Index
<1>2. ASSUME NEW i \in 1 .. n
      PROVE  \/ Origin[i] = i
             \/ \E b \in 1 .. i - 1 : Origin[i] = Origin[b]
  <2>1. Origin[i] = IF Item(i).item = "hardlink" THEN Origin[LastFor(Item(i).target, i - 1)] ELSE i
    BY <1>1 DEF OriginIs
  <2>2. ASSUME Item(i).item = "hardlink" PROVE LastFor(Item(i).target, i - 1) \in 1 .. i - 1
    <3>1. EntriesFor(Item(i).target, i - 1) # {}
      BY <1>1, <2>2 DEF Resolved
    <3>2. i - 1 \in Nat
      BY <1>1
    <3>3. QED BY <3>1, <3>2, LastIs
  <2>3. QED BY <2>1, <2>2
<1> DEFINE G == {k \in 0 .. n : \A i \in 1 .. k : Origin[i] \in 1 .. i}
<1>3. 0 \in G
  BY <1>1
<1>4. ASSUME NEW k \in 1 .. n, k - 1 \in G PROVE k \in G
  <2>1. \A i \in 1 .. k - 1 : Origin[i] \in 1 .. i
    BY <1>4
  <2>2. Origin[k] \in 1 .. k
    <3>1. CASE Origin[k] = k
      BY <3>1
    <3>2. CASE \E b \in 1 .. k - 1 : Origin[k] = Origin[b]
      <4>1. PICK b \in 1 .. k - 1 : Origin[k] = Origin[b]
        BY <3>2
      <4>2. Origin[b] \in 1 .. b
        BY <2>1, <4>1
      <4>3. 1 .. b \subseteq 1 .. k
        BY <4>1
      <4>4. QED BY <4>1, <4>2, <4>3
    <3>3. QED BY <1>2, <3>1, <3>2
  <2>3. \A i \in 1 .. k : i = k \/ i \in 1 .. k - 1
    OBVIOUS
  <2>4. k \in 0 .. n
    OBVIOUS
  <2>5. QED BY <2>1, <2>2, <2>3, <2>4
<1>5. 0 .. n \subseteq G
  <2> HIDE DEF G
  <2>1. QED BY <1>1, <1>3, <1>4, IndexInduction
<1>6. n \in G
  BY <1>1, <1>5
<1>7. QED BY <1>6

\* The node of each entry stays what it is, and that of the next one is what is put
\* into the tree.
LEMMA NodesStacked ==
  ASSUME AppliedOK, OriginIs, Resolved, NEW e, Adds(e), NEW n, n = Len(applied),
         IsTree(tree), Accepts(e), tree = Stack
  PROVE  /\ OriginIs' /\ Resolved'
         /\ \A i \in 1 .. n : StackedNode(i)' = StackedNode(i)
         /\ StackedNode(n + 1)' = NodeOf(e, n + 1)
<1>1. /\ n \in Nat /\ Len(applied') = n + 1
      /\ (\A i \in 1 .. n : applied'[i] = applied[i])
      /\ applied'[n + 1].entry = e
  BY Grown
<1>2. e \in Entry /\ e.item \in {"directory", "leaf", "hardlink"}
  BY EntryIs DEF Adds
<1>3. ASSUME e.item = "hardlink"
      PROVE  EntriesFor(e.target, n) # {} /\ tree[e.target] = StackedNode(LastFor(e.target, n))
  <2>1. e.target \in DOMAIN tree \ {<<>>}
    BY <1>2, <1>3, NodeIs
  <2>2. e.target \in Seen
    BY <2>1 DEF Stack
  <2>3. EntriesFor(e.target, n) # {}
    BY <2>2 DEF Seen
  <2>4. Stack[e.target] = StackedNode(LastFor(e.target, n))
    BY <2>1, <2>2 DEF Stack
  <2>5. QED BY <2>3, <2>4
<1>4. /\ OriginIs' /\ Resolved'
      /\ \A i \in 1 .. n : Origin'[i] = Origin[i]
      /\ Origin'[n + 1] = IF e.item = "hardlink" THEN Origin[LastFor(e.target, n)] ELSE n + 1
  BY <1>3, OriginGrows
<1>5. \A i \in 1 .. n : Origin[i] \in 1 .. n
  <2>1. \A i \in 1 .. n : Origin[i] \in 1 .. i
    BY OriginBefore
  <2>2. QED BY <1>1, <2>1
<1>6. \A i \in 1 .. n : StackedNode(i)' = StackedNode(i)
  BY <1>1, <1>4, <1>5 DEF StackedNode, Item
<1>7. StackedNode(n + 1)' = NodeOf(e, n + 1)
  <2>1. CASE e.item = "directory"
    BY <1>1, <1>4, <2>1 DEF StackedNode, NodeOf, Item
  <2>2. CASE e.item = "leaf"
    BY <1>1, <1>4, <2>2 DEF StackedNode, NodeOf, Item
  <2>3. CASE e.item = "hardlink"
    <3>1. PICK t \in 1 .. n : t = LastFor(e.target, n)
      BY <1>1, <1>3, <2>3, LastIs
    <3>2. Origin'[n + 1] = Origin[t] /\ Origin[t] \in 1 .. n
      BY <1>4, <1>5, <2>3, <3>1
    <3>3. StackedNode(n + 1)' = StackedNode(t)
      BY <1>1, <3>2 DEF StackedNode, Item
    <3>4. NodeOf(e, n + 1) = tree[e.target]
      BY <2>3 DEF NodeOf
    <3>5. QED BY <1>3, <2>3, <3>1, <3>3, <3>4
  <2>4. QED BY <1>2, <2>1, <2>2, <2>3
<1>8. QED BY <1>4, <1>6, <1>7

\* The tree into which the next entry is put is the stack with that entry.
LEMMA StackGrows ==
  ASSUME AppliedOK, OriginIs, Resolved, NEW e, Adds(e), NEW n, n = Len(applied),
         IsTree(tree), Accepts(e), tree = Stack, tree' = Processed(e, n + 1), WellOrdered'
  PROVE  tree' = Stack'
<1> DEFINE empty == <<>>
<1>1. /\ n \in Nat /\ Len(applied') = n + 1
      /\ (\A i \in 1 .. n : applied'[i] = applied[i])
      /\ applied'[n + 1].entry = e /\ e \in Entry
  BY Grown DEF Adds
<1>2. Seen' = {p \in Seen : ~Hides(e, p)} \cup (IF IsPlain(e) /\ e.path # empty THEN {e.path} ELSE {})
  BY SeenGrows
<1>3. /\ \A i \in 1 .. n : StackedNode(i)' = StackedNode(i)
      /\ StackedNode(n + 1)' = NodeOf(e, n + 1)
  BY NodesStacked
<1>4. ProcessedAs(e, n + 1, tree')
  BY <1>1, ProcessedIs
<1>5. ~Hides(e, empty)
  BY <1>1, RootNotHidden
<1>6. \A p : /\ EntriesFor(p, n + 1)' = EntriesFor(p, n) \cup (IF IsPlain(e) /\ e.path = p THEN {n + 1} ELSE {})
             /\ LastFor(p, n + 1)' = IF IsPlain(e) /\ e.path = p THEN n + 1 ELSE LastFor(p, n)
  BY LastGrows
<1>7. DOMAIN tree = Seen \cup {empty}
  BY DEF Stack
<1>8. DOMAIN tree' = DOMAIN Stack'
  <2>1. DOMAIN Stack' = Seen' \cup {empty}
    BY DEF Stack
  <2>2. DOMAIN tree' = {p \in DOMAIN tree : ~Hides(e, p)} \cup (IF IsPlain(e) THEN {e.path} ELSE {})
    BY <1>4 DEF ProcessedAs
  <2> HIDE DEF empty
  <2>3. QED BY <1>2, <1>5, <1>7, <2>1, <2>2
<1>9. ASSUME NEW p \in DOMAIN tree' PROVE tree'[p] = Stack'[p]
  <2>1. tree'[p] = IF IsPlain(e) /\ p = e.path THEN NodeOf(e, n + 1) ELSE tree[p]
    BY <1>4 DEF ProcessedAs
  <2>2. CASE p # empty
    <3>1. PICK i : i = LastFor(p, n + 1)'
      OBVIOUS
    <3>2. Stack'[p] = StackedNode(i)'
      <4>1. p \in Seen' \cup {empty}
        BY <1>8 DEF Stack
      <4>2. Stack'[p] = StackedNode(LastFor(p, n + 1))'
        BY <1>1, <2>2, <4>1 DEF Stack
      <4>3. StackedNode(LastFor(p, n + 1))' = StackedNode(i)'
        BY <3>1 DEF StackedNode
      <4>4. QED BY <4>2, <4>3
    <3>3. CASE IsPlain(e) /\ p = e.path
      <4>1. i = n + 1
        BY <1>6, <3>1, <3>3
      <4>2. QED BY <1>3, <2>1, <3>2, <3>3, <4>1
    <3>4. CASE ~(IsPlain(e) /\ p = e.path)
      <4>1. i = LastFor(p, n)
        BY <1>6, <3>1, <3>4
      <4>2. p \in Seen
        <5>1. p \in Seen'
          BY <1>8, <2>2 DEF Stack
        <5>2. QED BY <1>2, <3>4, <5>1
      <4>3. EntriesFor(p, n) # {}
        BY <4>2 DEF Seen
      <4>4. i \in 1 .. n
        BY <1>1, <4>1, <4>3, LastIs
      <4>5. Stack[p] = StackedNode(i)
        BY <2>2, <4>1, <4>2 DEF Stack
      <4>6. QED BY <1>3, <2>1, <3>2, <3>4, <4>4, <4>5
    <3>5. QED BY <3>3, <3>4
  <2>3. CASE p = empty
    <3>1. Stack'[empty] = IF EntriesFor(empty, n + 1)' = {} THEN Dir(Uninitialized)
                         ELSE Dir(applied'[LastFor(empty, n + 1)'].entry.stat)
      BY <1>1 DEF Stack, Item
    <3>2. Stack[empty] = IF EntriesFor(empty, n) = {} THEN Dir(Uninitialized)
                        ELSE Dir(applied[LastFor(empty, n)].entry.stat)
      BY DEF Stack, Item
    <3>3. CASE IsPlain(e) /\ e.path = empty
      <4>1. EntriesFor(empty, n + 1)' # {} /\ LastFor(empty, n + 1)' = n + 1
        BY <1>6, <3>3
      <4>2. Stack'[empty] = Dir(e.stat)
        BY <1>1, <3>1, <4>1
      <4>3. e.item = "directory"
        BY <3>3 DEF Accepts
      <4>4. NodeOf(e, n + 1) = Dir(e.stat)
        BY <4>3 DEF NodeOf
      <4>5. QED BY <2>1, <2>3, <3>3, <4>2, <4>4
    <3>4. CASE ~(IsPlain(e) /\ e.path = empty)
      <4>1. EntriesFor(empty, n + 1)' = EntriesFor(empty, n) /\ LastFor(empty, n + 1)' = LastFor(empty, n)
        BY <1>6, <3>4
      <4>2. EntriesFor(empty, n) # {} => LastFor(empty, n) \in 1 .. n
        BY <1>1, LastIs
      <4>3. Stack'[empty] = Stack[empty]
        BY <1>1, <3>1, <3>2, <4>1, <4>2
      <4>4. QED BY <2>1, <2>3, <3>4, <4>3
    <3>5. QED BY <3>3, <3>4
  <2>4. QED BY <2>2, <2>3
<1>10. tree' = [p \in DOMAIN tree' |-> tree'[p]] /\ Stack' = [p \in DOMAIN Stack' |-> Stack'[p]]
  <2>1. Stack' = [p \in DOMAIN Stack' |-> Stack'[p]]
    BY DEF Stack
  <2>2. tree' = [p \in DOMAIN tree' |-> tree'[p]]
    BY ProcessedIsFunction
  <2>3. QED BY <2>1, <2>2
<1>11. QED BY <1>8, <1>9, <1>10

(***************************************************************************)
(* What create_filesystem does in the end.                                 *)
(***************************************************************************)

\* What is above a path is a path.
LEMMA AboveIsPath ==
  ASSUME NEW N, NEW p \in Seq(N), NEW q, Len(q) \in Nat, In(q, p)
  PROVE  q \in Seq(N)
<1>1. Len(q) <= Len(p) /\ SubSeq(p, 1, Len(q)) = q /\ Len(p) \in Nat
  BY DEF In
<1>2. \A i \in 1 .. Len(q) : p[i] \in N
  BY <1>1, ElementOfSeq
<1>3. SubSeq(p, 1, Len(q)) \in Seq(N)
  BY <1>2, SubSeqProperties
<1>4. QED BY <1>1, <1>3

\* The directories that are found in a tree do not depend on the stats.
LEMMA SameDirectories ==
  ASSUME NEW t, NEW u, DOMAIN u = DOMAIN t, \A p \in DOMAIN t : u[p].dir = t[p].dir, NEW q
  PROVE  get_directory_opt(u, q) = get_directory_opt(t, q)
  BY DEF get_directory_opt

\* The transformed tree is a tree, and it is t but for the root, /run and what is in it.
TransformedAs(t, u) ==
  LET empty == <<>> usr == <<"usr">> run == <<"run">>
      stat == [t[run].stat EXCEPT !.mtime = t[usr].stat.mtime]
  IN  /\ IsTree(u) /\ u = [p \in DOMAIN u |-> u[p]]
      /\ usr \in DOMAIN t
      /\ DOMAIN u = {p \in DOMAIN t : ~Below(run, p)}
      /\ \A p \in DOMAIN u \ {empty, run} : u[p] = t[p]
      /\ u[empty] = WithStat(t[empty], t[usr].stat) /\ u[empty].stat = t[usr].stat
      /\ run \in DOMAIN t => t[run].dir
      /\ run \in DOMAIN u => u[run] = WithStat(t[run], stat) /\ u[run].stat = stat
      /\ \A p \in DOMAIN t : Below(run, p) => run \in DOMAIN t /\ t[run].dir

\* transform_for_oci does that.
LEMMA TransformIs ==
  ASSUME NEW t, IsTree(t), CanTransform(t)
  PROVE  TransformedAs(t, transform_for_oci(t))
<1> DEFINE empty == <<>> usr == <<"usr">> run == <<"run">>
           u == [t EXCEPT ![empty].stat = t[usr].stat]
           v == [u EXCEPT ![run].stat = [u[run].stat EXCEPT !.mtime = u[usr].stat.mtime]]
<1>1. usr # empty /\ run # empty /\ usr # run /\ Len(run) \in Nat
  OBVIOUS
<1>2. transform_for_oci(t) = IF get_directory(u, run) THEN clear(v, run) ELSE u
  BY DEF transform_for_oci, canonicalize_run, copy_root_metadata_from_usr, set_root_stat
<1>3. get_directory(t, usr) /\ get_directory_opt(t, run) # "not_a_directory"
  BY DEF CanTransform
<1> DEFINE IsFunction(f) == f = [p \in DOMAIN f |-> f[p]]
<1>4. IsFunction(transform_for_oci(t))
  <2>1. \A f, q, stat : IsFunction([f EXCEPT ![q].stat = stat])
    OBVIOUS
  <2>2. \A f, q : IsFunction(clear(f, q))
    BY DEF clear, Without
  <2> HIDE DEF IsFunction
  <2>3. IsFunction(u)
    BY <2>1
  <2>4. QED BY <1>2, <2>2, <2>3
<1> HIDE DEF empty, usr, run
<1>5. /\ empty \in DOMAIN t /\ DOMAIN t \subseteq Seq(Names)
      /\ \A p \in DOMAIN t : IsNode(t[p]) /\ t[p].dir \in BOOLEAN
  BY DEF IsTree, empty
<1>6. usr \in DOMAIN t
  BY <1>3, DirectoryIs
<1>7. /\ DOMAIN u = DOMAIN t /\ u[empty] = WithStat(t[empty], t[usr].stat)
      /\ (\A q \in DOMAIN t \ {empty} : u[q] = t[q]) /\ IsTree(u)
  BY <1>5, StatInTree
<1>8. u[empty].stat = t[usr].stat /\ u[empty].dir = t[empty].dir
  BY <1>5, <1>7, StatChanges
<1>9. u[usr] = t[usr]
  BY <1>1, <1>6, <1>7
<1> HIDE DEF u
<1>10. get_directory_opt(u, run) = get_directory_opt(t, run)
  <2>1. \A p \in DOMAIN t : u[p].dir = t[p].dir
    BY <1>7, <1>8
  <2>2. QED BY <1>7, <2>1, SameDirectories
<1>11. ASSUME NEW p \in DOMAIN t, Below(run, p) PROVE run \in DOMAIN t /\ t[run].dir
  <2>1. run \in Seq(Names)
    BY <1>1, <1>5, <1>11, AboveIsPath DEF Below
  <2>2. QED BY <1>11, <2>1, AboveIsDir
<1>12. run \in DOMAIN t => t[run].dir
  <2>1. ASSUME run \in DOMAIN t, ~t[run].dir PROVE FALSE
    <3>1. run \in Seq(Names)
      BY <1>5, <2>1
    <3>2. SubSeq(run, 1, Len(run)) = run /\ Len(run) \in 0 .. Len(run)
      BY <3>1, InSelf DEF In
    <3>3. run \in Ancestors(run)
      BY <3>2 DEF Ancestors
    <3>4. QED BY <1>3, <2>1, <3>3 DEF get_directory_opt
  <2>2. QED BY <2>1
<1>13. CASE get_directory(u, run)
  <2>1. run \in DOMAIN u /\ run \in Seq(Names)
    BY <1>5, <1>7, <1>13, DirectoryIs
  <2> DEFINE stat == [u[run].stat EXCEPT !.mtime = u[usr].stat.mtime]
  <2>2. u[run] = t[run]
    BY <1>1, <1>7, <2>1
  <2>3. stat = [t[run].stat EXCEPT !.mtime = t[usr].stat.mtime]
    BY <1>9, <2>2
  <2>4. v = [u EXCEPT ![run].stat = stat]
    OBVIOUS
  <2> HIDE DEF stat, v
  <2>5. /\ DOMAIN v = DOMAIN u /\ v[run] = WithStat(u[run], stat)
        /\ (\A q \in DOMAIN u \ {run} : v[q] = u[q]) /\ IsTree(v)
    BY <1>7, <2>1, <2>4, StatInTree
  <2>6. v[run].stat = stat
    BY <1>5, <1>7, <2>1, <2>2, <2>5, StatChanges
  <2> DEFINE w == clear(v, run)
  <2>7. /\ IsTree(w) /\ DOMAIN w = {p \in DOMAIN v : ~Below(run, p)}
        /\ \A p \in DOMAIN w : w[p] = v[p]
    BY <2>1, <2>5, ClearIsTree
  <2>8. transform_for_oci(t) = w
    BY <1>2, <1>13
  <2> HIDE DEF w
  <2>9. empty \in DOMAIN w /\ IsFunction(w)
    BY <1>4, <2>7, <2>8 DEF IsTree, empty
  <2>10. DOMAIN w = {p \in DOMAIN t : ~Below(run, p)}
    BY <1>7, <2>5, <2>7
  <2>11. \A p \in DOMAIN w \ {empty, run} : w[p] = t[p]
    BY <1>7, <2>5, <2>7
  <2>12. w[empty] = WithStat(t[empty], t[usr].stat) /\ w[empty].stat = t[usr].stat
    BY <1>1, <1>5, <1>7, <1>8, <2>5, <2>7, <2>9
  <2>13. run \in DOMAIN w => w[run] = WithStat(t[run], stat) /\ w[run].stat = stat
    BY <2>2, <2>5, <2>6, <2>7
  <2>14. TransformedAs(t, w)
    BY <1>6, <1>11, <1>12, <2>3, <2>7, <2>9, <2>10, <2>11, <2>12, <2>13 DEF TransformedAs, empty, usr, run
  <2>15. QED BY <2>8, <2>14
<1>14. CASE ~get_directory(u, run)
  <2>1. run \notin DOMAIN t
    <3>1. get_directory_opt(t, run) # "found"
      BY <1>10, <1>14 DEF get_directory
    <3>2. QED BY <1>3, <3>1 DEF get_directory_opt
  <2>2. \A p \in DOMAIN t : ~Below(run, p)
    BY <1>11, <2>1
  <2>3. transform_for_oci(t) = u
    BY <1>2, <1>14
  <2>4. DOMAIN u = {p \in DOMAIN t : ~Below(run, p)}
    BY <1>7, <2>2
  <2>5. \A p \in DOMAIN u \ {empty, run} : u[p] = t[p]
    BY <1>7
  <2>6. run \notin DOMAIN u
    BY <1>7, <2>1
  <2>7. IsFunction(u)
    BY <1>4, <2>3
  <2>8. TransformedAs(t, u)
    BY <1>6, <1>7, <1>8, <2>2, <2>4, <2>5, <2>6, <2>7 DEF TransformedAs, empty, usr, run
  <2>9. QED BY <2>3, <2>8
<1>15. QED BY <1>13, <1>14

(***************************************************************************)
(* The invariant.                                                          *)
(***************************************************************************)

\* The hard links of entries that are well ordered lead to earlier entries; and the
\* tree is the stack of the entries.
StackOK ==
  /\ OriginIs /\ Resolved
  /\ phase \in {"layer", "entries"} => tree = Stack
  /\ phase = "done" => TransformIsLocal

LayersIInv ==
  /\ phase \in {"layer", "entries", "done", "failed"}
  /\ layers \in 0 .. MaxLayers
  /\ Len(applied) <= MaxEntries
  /\ IsTree(tree)
  /\ AppliedOK
  /\ WellOrdered => StackOK

\* At first, and after a failure, nothing has been applied.
Fresh == applied = <<>> /\ layers = 0 /\ tree = new(Uninitialized)

FreshOK == IsTree(tree) /\ AppliedOK /\ OriginIs /\ Resolved /\ tree = Stack /\ Len(applied) = 0

\* The empty tree is the stack of no entries.
LEMMA NothingApplied == Fresh => FreshOK
<1> SUFFICES ASSUME applied = <<>>, layers = 0, tree = new(Uninitialized) PROVE FreshOK
  BY DEF Fresh
<1>1. IsTree(tree)
  BY NewIsTree
<1>2. Len(applied) = 0 /\ Index = {}
  BY DEF Index
<1>3. AppliedOK
  <2> DEFINE T == [entry : Entry, layer : Nat]
  <2> HIDE DEF T
  <2>1. applied \in Seq(T)
    OBVIOUS
  <2>2. QED BY <1>2, <2>1 DEF AppliedOK, T
<1>4. OriginIs /\ Resolved
  BY OriginAtFirst
<1>5. Seen = {} /\ EntriesFor(<<>>, Len(applied)) = {}
  BY <1>2 DEF Seen, EntriesFor
<1>6. tree = Stack
  BY <1>5 DEF Stack, new
<1>7. QED BY <1>1, <1>2, <1>3, <1>4, <1>6 DEF FreshOK

\* The invariant holds before the first layer.
LEMMA InitLayers == LayersInit => LayersIInv
<1>1. ASSUME LayersInit PROVE LayersIInv
  <2>1. FreshOK
    BY <1>1, NothingApplied DEF LayersInit, Fresh
  <2>2. MaxLayers \in Nat /\ MaxEntries \in Nat
    BY LayersConstants
  <2>3. QED BY <1>1, <2>1, <2>2 DEF LayersInit, LayersIInv, StackOK, FreshOK
<1>2. QED BY <1>1

\* An entry keeps the invariant, ...
LEMMA EntryKeeps ==
  ASSUME LayersIInv, NEW e \in Entry, process_entry(e)
  PROVE  LayersIInv'
<1>1. PICK n : n = Len(applied)
  OBVIOUS
<1>2. /\ phase = "entries" /\ phase' = phase /\ Len(applied) < MaxEntries /\ Accepts(e)
      /\ tree' = Processed(e, n + 1) /\ Adds(e)
  BY <1>1 DEF process_entry, Adds
<1>3. IsTree(tree) /\ AppliedOK /\ layers' = layers
  BY <1>2 DEF LayersIInv, Adds
<1>4. n \in Nat /\ Len(applied') = n + 1 /\ AppliedOK'
  BY <1>1, <1>2, <1>3, Grown
<1>5. IsTree(tree')
  BY <1>2, <1>3, ProcessedIs DEF ProcessedAs
<1>6. Len(applied') <= MaxEntries
  BY <1>1, <1>2, <1>4, LayersConstants
<1>7. ASSUME WellOrdered' PROVE StackOK'
  <2>1. WellOrdered
    BY <1>1, <1>2, <1>3, <1>7, OrderedBefore
  <2>2. OriginIs /\ Resolved /\ tree = Stack
    BY <1>2, <2>1 DEF LayersIInv, StackOK
  <2>3. OriginIs' /\ Resolved'
    BY <1>1, <1>2, <1>3, <2>2, NodesStacked
  <2>4. tree' = Stack'
    BY <1>1, <1>2, <1>3, <1>7, <2>2, StackGrows
  <2>5. phase' # "done"
    BY <1>2
  <2>6. QED BY <2>3, <2>4, <2>5 DEF StackOK
<1>8. QED BY <1>2, <1>3, <1>4, <1>5, <1>6, <1>7 DEF LayersIInv

\* ... and so does giving up, ...
LEMMA FailKeeps ==
  ASSUME Fail
  PROVE  LayersIInv'
<1>1. Fresh' /\ phase' = "failed"
  BY DEF Fail, Fresh, new, Dir
<1>2. Fresh' => FreshOK'
  BY NothingApplied, PTL
<1>3. MaxLayers \in Nat /\ MaxEntries \in Nat
  BY LayersConstants
<1>4. QED BY <1>1, <1>2, <1>3 DEF LayersIInv, StackOK, Fresh, FreshOK

\* Where only the phase and the number of layers change, the stack stays.
LEMMA StackStays ==
  ASSUME UNCHANGED applied
  PROVE  /\ WellOrdered' = WellOrdered /\ OriginIs' = OriginIs /\ Resolved' = Resolved
         /\ Stack' = Stack /\ Seen' = Seen
<1>1. Index' = Index /\ \A i : Item(i)' = Item(i)
  BY DEF Index, Item
<1>2. \A p, k : EntriesFor(p, k)' = EntriesFor(p, k)
  BY DEF EntriesFor, Item
<1>3. \A p, k : LastFor(p, k)' = LastFor(p, k)
  BY <1>2 DEF LastFor
<1>4. QED BY DEF WellOrdered, OriginIs, Resolved, Stack, Seen, StackedNode, Origin, Hidden, LastFor, EntriesFor, Item, Index

\* ... the beginning or end of a layer, ...
LEMMA LayerKeeps ==
  ASSUME LayersIInv, OpenLayer \/ LayerEnds
  PROVE  LayersIInv'
<1>1. /\ tree' = tree /\ applied' = applied /\ phase \in {"layer", "entries"} /\ phase' \in {"layer", "entries"}
      /\ layers' \in Nat /\ layers' >= layers /\ layers' <= MaxLayers
  BY LayersConstants DEF OpenLayer, LayerEnds, LayersIInv
<1>2. AppliedOK'
  <2> DEFINE T == [entry : Entry, layer : Nat]
  <2>1. applied \in Seq(T) /\ layers \in Nat /\ \A i \in 1 .. Len(applied) : applied[i].layer <= layers
    BY DEF LayersIInv, AppliedOK, Index
  <2>2. \A i \in 1 .. Len(applied) : applied[i] \in T
    BY <2>1, ElementOfSeq
  <2>3. \A i \in 1 .. Len(applied) : applied[i].layer \in Nat
    BY <2>2
  <2> HIDE DEF T
  <2>4. \A i \in 1 .. Len(applied) : applied[i].layer <= layers'
    BY <1>1, <2>1, <2>3
  <2>5. QED BY <1>1, <2>1, <2>4 DEF AppliedOK, Index, T
<1>3. /\ WellOrdered' = WellOrdered /\ OriginIs' = OriginIs /\ Resolved' = Resolved
      /\ Stack' = Stack
  BY <1>1, StackStays
<1>4. WellOrdered' => StackOK'
  BY <1>1, <1>3 DEF LayersIInv, StackOK
<1>5. QED BY <1>1, <1>2, <1>4, LayersConstants DEF LayersIInv

\* ... and the transformation in the end.
LEMMA TransformKeeps ==
  ASSUME LayersIInv, Transform
  PROVE  LayersIInv'
<1>1. /\ applied' = applied /\ layers' = layers /\ phase = "layer" /\ phase' = "done"
      /\ CanTransform(tree) /\ tree' = transform_for_oci(tree)
  BY DEF Transform
<1>2. TransformedAs(tree, tree')
  BY <1>1, TransformIs DEF LayersIInv
<1>3. AppliedOK'
  BY <1>1 DEF LayersIInv, AppliedOK, Index
<1>4. /\ WellOrdered' = WellOrdered /\ OriginIs' = OriginIs /\ Resolved' = Resolved
      /\ Stack' = Stack /\ Seen' = Seen
  BY <1>1, StackStays
<1>5. ASSUME WellOrdered' PROVE StackOK'
  <2> DEFINE empty == <<>> usr == <<"usr">> run == <<"run">>
             below == {p \in Seen : Below(run, p) /\ Stack[run].dir}
  <2>1. tree = Stack /\ OriginIs /\ Resolved
    BY <1>1, <1>4, <1>5 DEF LayersIInv, StackOK
  <2>2. DOMAIN tree = Seen \cup {empty} /\ empty \notin Seen
    BY <2>1 DEF Stack, Seen
  <2>3. /\ DOMAIN tree' = {p \in DOMAIN tree : ~Below(run, p)}
        /\ \A p \in DOMAIN tree' \ {empty, run} : tree'[p] = tree[p]
        /\ tree'[empty].stat = tree[usr].stat
        /\ run \in DOMAIN tree' => tree'[run].stat = [tree[run].stat EXCEPT !.mtime = tree[usr].stat.mtime]
        /\ \A p \in DOMAIN tree : Below(run, p) => run \in DOMAIN tree /\ tree[run].dir
        /\ empty \in DOMAIN tree'
    BY <1>2 DEF TransformedAs, IsTree
  <2> HIDE DEF empty, usr, run
  <2>4. DOMAIN tree' = (Seen \cup {empty}) \ below
    BY <2>1, <2>2, <2>3
  <2> DEFINE Local(t, s) ==
               /\ DOMAIN t = (Seen \cup {empty}) \ below
               /\ \A p \in DOMAIN t \ {empty, run} : t[p] = s[p]
               /\ t[empty].stat = s[usr].stat
               /\ run \in DOMAIN t => t[run].stat = [s[run].stat EXCEPT !.mtime = s[usr].stat.mtime]
  <2>5. Local(tree', Stack)
    BY <2>1, <2>3, <2>4
  <2>6. TransformIsLocal' <=> Local(tree', Stack)
    BY <1>4 DEF TransformIsLocal, empty, usr, run
  <2>7. QED BY <1>1, <1>4, <2>1, <2>5, <2>6 DEF StackOK
<1>6. IsTree(tree')
  BY <1>2 DEF TransformedAs
<1>7. QED BY <1>1, <1>3, <1>5, <1>6 DEF LayersIInv

\* Every step keeps the invariant.
LEMMA LayersStep == LayersIInv /\ [LayersNext]_layersVars => LayersIInv'
<1> SUFFICES ASSUME LayersIInv, [LayersNext]_layersVars PROVE LayersIInv'
  OBVIOUS
<1>1. ASSUME NEW e \in Entry, process_entry(e) PROVE LayersIInv'
  BY <1>1, EntryKeeps
<1>2. ASSUME NEW e \in Entry, EntryFails(e) PROVE LayersIInv'
  BY <1>2, FailKeeps DEF EntryFails
<1>3. CASE OpenLayer \/ LayerEnds
  BY <1>3, LayerKeeps
<1>4. CASE ReadFails \/ TransformFails
  BY <1>4, FailKeeps DEF ReadFails, TransformFails
<1>5. CASE Transform
  BY <1>5, TransformKeeps
<1>6. CASE UNCHANGED layersVars
  <2>1. tree' = tree /\ phase' = phase /\ applied' = applied /\ layers' = layers
    BY <1>6 DEF layersVars
  <2>2. /\ WellOrdered' = WellOrdered /\ OriginIs' = OriginIs /\ Resolved' = Resolved
        /\ Stack' = Stack /\ Seen' = Seen
    BY <2>1, StackStays
  <2>3. TransformIsLocal' = TransformIsLocal
    BY <2>1, <2>2 DEF TransformIsLocal
  <2>4. AppliedOK'
    BY <2>1 DEF LayersIInv, AppliedOK, Index
  <2>5. QED BY <2>1, <2>2, <2>3, <2>4 DEF LayersIInv, StackOK
<1>7. QED BY <1>1, <1>2, <1>3, <1>4, <1>5, <1>6 DEF LayersNext

\* The hard links of layers that are well ordered lead to entries before them, and as
\* long as the image is built its tree is the stack of the entries.
THEOREM LayersInvariance == LayersSpec => []LayersIInv
<1>1. LayersInit => LayersIInv
  BY InitLayers
<1>2. LayersIInv /\ [LayersNext]_layersVars => LayersIInv'
  BY LayersStep
<1>3. QED BY <1>1, <1>2, PTL DEF LayersSpec

\* What process_entry builds is the stack of the layers.
THEOREM TreesAreStacks == LayersSpec => []TreeIsStack
<1>1. LayersIInv => TreeIsStack
  BY DEF LayersIInv, StackOK, TreeIsStack, LayersTypeOK, IsTree
<1>2. QED BY <1>1, LayersInvariance, PTL

-------------------------------------------------------------------------------
(* The scans of an image *)

(***************************************************************************)
(* What layers put into a tree.                                            *)
(***************************************************************************)

\* The nodes of the trees of layers.
NodeFits(node) ==
  \/ \E stat : IsStat(stat) /\ node = Dir(stat)
  \/ \E rc \in Nat : \E stat, content : IsStat(stat) /\ IsContent(content) /\ node = LeafOf(rc, stat, content)

Fits(t) ==
  /\ IsTree(t) /\ t = [p \in DOMAIN t |-> t[p]]
  /\ IsFiniteSet(DOMAIN t) /\ DOMAIN t \subseteq Seq(Ordered)
  /\ \A p \in DOMAIN t : NodeFits(t[p])

\* What the constructor of a directory has been given.
LEMMA DirFields ==
  ASSUME NEW stat
  PROVE  Dir(stat).dir = TRUE /\ Dir(stat).stat = stat
  BY DEF Dir

\* What the constructor of a leaf has been given.
LEMMA LeafFields ==
  ASSUME NEW rc, NEW stat, NEW content
  PROVE  /\ LeafOf(rc, stat, content).dir = FALSE /\ LeafOf(rc, stat, content).rc = rc
         /\ LeafOf(rc, stat, content).stat = stat /\ LeafOf(rc, stat, content).content = content
  BY DEF LeafOf

\* A directory fits if its stat does.
LEMMA DirFits ==
  ASSUME NEW node, NodeFits(node), node.dir
  PROVE  IsStat(node.stat) /\ node = Dir(node.stat) /\ node.dir = TRUE /\ IsNode(node)
<1>1. ASSUME NEW rc, NEW stat, NEW content, node = LeafOf(rc, stat, content) PROVE FALSE
  <2>1. LeafOf(rc, stat, content).dir = FALSE
    BY DEF LeafOf
  <2>2. node.dir = FALSE
    BY <1>1, <2>1
  <2>3. QED BY <2>2
<1>2. PICK stat : IsStat(stat) /\ node = Dir(stat)
  BY <1>1 DEF NodeFits
<1>3. node.stat = stat /\ node.dir = TRUE
  BY <1>2, DirFields
<1>4. IsNode(node)
  <2>1. DOMAIN Dir(stat) = {"dir", "stat"}
    BY DEF Dir
  <2>2. QED BY <1>2, <1>3, <2>1 DEF IsNode
<1>5. QED BY <1>2, <1>3, <1>4

\* A leaf fits if its stat and its content do.
LEMMA LeafFits ==
  ASSUME NEW node, NodeFits(node), ~node.dir
  PROVE  /\ node.rc \in Nat /\ IsStat(node.stat) /\ IsContent(node.content)
         /\ node = LeafOf(node.rc, node.stat, node.content) /\ node.dir = FALSE
<1>1. \A stat : node # Dir(stat)
  BY DirFields
<1>2. PICK rc \in Nat : \E stat, content : IsStat(stat) /\ IsContent(content) /\ node = LeafOf(rc, stat, content)
  BY <1>1 DEF NodeFits
<1>3. PICK stat, content : IsStat(stat) /\ IsContent(content) /\ node = LeafOf(rc, stat, content)
  BY <1>2
<1>4. node.rc = rc /\ node.stat = stat /\ node.content = content /\ node.dir = FALSE
  <2>1. /\ LeafOf(rc, stat, content).dir = FALSE /\ LeafOf(rc, stat, content).rc = rc
        /\ LeafOf(rc, stat, content).stat = stat /\ LeafOf(rc, stat, content).content = content
    BY DEF LeafOf
  <2>2. QED BY <1>3, <2>1
<1>5. QED BY <1>3, <1>4

\* A field of a stat is changed.
LEMMA StatFits ==
  ASSUME NEW stat, IsStat(stat), NEW mtime, NEW x
  PROVE  /\ IsStat([stat EXCEPT !.mtime = mtime])
         /\ IsXattrs(x) => IsStat([stat EXCEPT !.xattrs = x])
         /\ [stat EXCEPT !.mtime = mtime] = [mode |-> stat.mode, mtime |-> mtime, xattrs |-> stat.xattrs]
         /\ [stat EXCEPT !.xattrs = x] = [mode |-> stat.mode, mtime |-> stat.mtime, xattrs |-> x]
<1>1. PICK mode, time, attrs : stat = [mode |-> mode, mtime |-> time, xattrs |-> attrs]
  BY DEF IsStat
<1>2. stat.mode = mode /\ stat.mtime = time /\ stat.xattrs = attrs
  BY <1>1
<1>3. /\ [stat EXCEPT !.mtime = mtime] = [mode |-> mode, mtime |-> mtime, xattrs |-> attrs]
      /\ [stat EXCEPT !.xattrs = x] = [mode |-> mode, mtime |-> time, xattrs |-> x]
  BY <1>1
<1>4. \A a, b, c : IsXattrs(c) => IsStat([mode |-> a, mtime |-> b, xattrs |-> c])
  BY DEF IsStat
<1>5. IsXattrs(attrs)
  BY <1>2 DEF IsStat
<1>6. QED BY <1>2, <1>3, <1>4, <1>5

\* The names of what an entry puts into the tree have their place in the order: those
\* that have none are whiteouts.
LEMMA PathFits ==
  ASSUME Fits(tree), NEW e \in Entry, Accepts(e), IsPlain(e)
  PROVE  e.path \in Seq(Ordered)
<1>1. e.path \in Seq(Names)
  BY EntryIs
<1>2. CASE e.path = <<>>
  BY <1>2
<1>3. CASE e.path # <<>>
  <2>1. get_directory(tree, Parent(e.path))
    BY <1>3 DEF Accepts, split
  <2>2. Parent(e.path) \in Seq(Ordered)
    BY <2>1, DirectoryIs DEF Fits
  <2>3. FileName(e.path) \in Names /\ e.path = Append(Parent(e.path), FileName(e.path))
    BY <1>1, <1>3, ParentIs
  <2>4. FileName(e.path) \in Ordered
    BY <1>3, <2>3 DEF IsPlain, IsWhiteout, IsOpaque, Names, Ordered
  <2>5. QED BY <2>2, <2>3, <2>4, AppendProperties
<1>4. QED BY <1>2, <1>3

\* What it puts there fits.
LEMMA EntryFits ==
  ASSUME Fits(tree), NEW e \in Entry, Accepts(e), NEW rc \in Nat
  PROVE  NodeFits(NodeOf(e, rc))
<1>1. e.item \in {"directory", "leaf", "hardlink"}
  BY EntryIs
<1>2. CASE e.item = "directory"
  <2>1. IsStat(e.stat) /\ NodeOf(e, rc) = Dir(e.stat)
    BY <1>2, ImageConstants DEF NodeOf
  <2>2. QED BY <2>1 DEF NodeFits
<1>3. CASE e.item = "leaf"
  <2>1. IsStat(e.stat) /\ IsContent(e.content) /\ NodeOf(e, rc) = LeafOf(rc, e.stat, e.content)
    BY <1>3, ImageConstants DEF NodeOf
  <2>2. QED BY <2>1 DEF NodeFits
<1>4. CASE e.item = "hardlink"
  <2>1. e.target \in DOMAIN tree /\ NodeOf(e, rc) = tree[e.target]
    BY <1>4, NodeIs DEF NodeOf, Fits
  <2>2. QED BY <2>1 DEF Fits
<1>5. QED BY <1>1, <1>2, <1>3, <1>4

\* A tree of the entries is one after process_entry, too.
LEMMA ProcessedFits ==
  ASSUME Fits(tree), NEW e \in Entry, Accepts(e), NEW rc \in Nat
  PROVE  Fits(Processed(e, rc))
<1> DEFINE u == Processed(e, rc)
<1>1. ProcessedAs(e, rc, u)
  BY ProcessedIs DEF Fits
<1>2. u = [p \in DOMAIN u |-> u[p]]
  BY ProcessedIsFunction
<1> HIDE DEF u
<1>3. DOMAIN u \subseteq DOMAIN tree \cup (IF IsPlain(e) THEN {e.path} ELSE {})
  BY <1>1 DEF ProcessedAs
<1>4. IsFiniteSet(DOMAIN u)
  <2>1. IsFiniteSet(DOMAIN tree) /\ IsFiniteSet({e.path}) /\ IsFiniteSet({})
    BY FS_EmptySet, FS_Singleton DEF Fits
  <2>2. IsFiniteSet(DOMAIN tree \cup {e.path}) /\ IsFiniteSet(DOMAIN tree \cup {})
    BY <2>1, FS_Union
  <2>3. DOMAIN u \subseteq DOMAIN tree \cup {e.path}
    BY <1>3
  <2>4. QED BY <2>2, <2>3, FS_Subset
<1>5. DOMAIN u \subseteq Seq(Ordered)
  BY <1>3, PathFits DEF Fits
<1>6. ASSUME NEW p \in DOMAIN u PROVE NodeFits(u[p])
  <2>1. CASE IsPlain(e) /\ p = e.path
    <3>1. u[p] = NodeOf(e, rc)
      BY <1>1, <2>1 DEF ProcessedAs
    <3>2. QED BY <3>1, EntryFits
  <2>2. CASE ~(IsPlain(e) /\ p = e.path)
    <3>1. u[p] = tree[p] /\ p \in DOMAIN tree
      BY <1>1, <2>2 DEF ProcessedAs
    <3>2. QED BY <3>1 DEF Fits
  <2>3. QED BY <2>1, <2>2
<1>7. IsTree(u)
  BY <1>1 DEF ProcessedAs
<1>8. Fits(u)
  BY <1>2, <1>4, <1>5, <1>6, <1>7 DEF Fits
<1>9. QED BY <1>8 DEF u

\* No attributes are attributes.
LEMMA NoAttributes == IsXattrs(<<>>)
<1>1. DOMAIN <<>> = {} /\ <<>> = [k \in DOMAIN <<>> |-> <<>>[k]]
  OBVIOUS
<1>2. PICK x : x = <<>>
  OBVIOUS
<1>3. QED BY <1>1, <1>2 DEF IsXattrs

\* The empty file system is one.
LEMMA NewFits == Fits(new(Uninitialized))
<1> DEFINE t == new(Uninitialized)
           empty == <<>>
<1>1. IsTree(t)
  BY NewIsTree
<1>2. DOMAIN t = {empty} /\ t = [p \in DOMAIN t |-> t[p]] /\ t[empty] = Dir(Uninitialized)
  BY DEF new
<1>3. IsStat(Uninitialized)
  BY NoAttributes DEF IsStat, Uninitialized
<1>4. empty \in Seq(Ordered)
  OBVIOUS
<1>5. IsFiniteSet({empty})
  BY FS_Singleton
<1> HIDE DEF t, empty
<1>6. \A p \in DOMAIN t : NodeFits(t[p])
  BY <1>2, <1>3 DEF NodeFits
<1>7. Fits(t)
  BY <1>1, <1>2, <1>4, <1>5, <1>6 DEF Fits
<1>8. QED BY <1>7 DEF t

\* A directory has another stat.
LEMMA RestatedFits ==
  ASSUME NEW node, NodeFits(node), node.dir, NEW stat, IsStat(stat)
  PROVE  WithStat(node, stat) = Dir(stat) /\ NodeFits(WithStat(node, stat))
<1>1. IsNode(node) /\ node.dir = TRUE
  BY DirFits
<1>2. WithStat(node, stat) = Dir(stat)
  BY <1>1, DirWithStat
<1>3. QED BY <1>2 DEF NodeFits

\* transform_for_oci changes the stats of directories, and takes paths out.
LEMMA TransformFits ==
  ASSUME NEW t, Fits(t), CanTransform(t)
  PROVE  Fits(transform_for_oci(t))
<1> DEFINE empty == <<>> usr == <<"usr">> run == <<"run">>
<1>1. PICK u : u = transform_for_oci(t)
  OBVIOUS
<1>2. TransformedAs(t, u)
  BY <1>1, TransformIs DEF Fits
<1>3. PICK stat : stat = [t[run].stat EXCEPT !.mtime = t[usr].stat.mtime]
  OBVIOUS
<1>4. /\ IsTree(u) /\ u = [p \in DOMAIN u |-> u[p]]
      /\ usr \in DOMAIN t
      /\ DOMAIN u = {p \in DOMAIN t : ~Below(run, p)}
      /\ \A p \in DOMAIN u \ {empty, run} : u[p] = t[p]
      /\ u[empty] = WithStat(t[empty], t[usr].stat)
      /\ run \in DOMAIN t => t[run].dir
      /\ run \in DOMAIN u => u[run] = WithStat(t[run], stat)
  BY <1>2, <1>3 DEF TransformedAs
<1>5. empty \in DOMAIN t /\ t[empty].dir /\ t[usr].dir
  <2>1. get_directory(t, usr)
    BY DEF CanTransform
  <2>2. QED BY <2>1, DirectoryIs DEF Fits, IsTree
<1> HIDE DEF empty, usr, run
<1>6. IsFiniteSet(DOMAIN u) /\ DOMAIN u \subseteq Seq(Ordered)
  BY <1>4, FS_Subset DEF Fits
<1>7. ASSUME NEW p \in DOMAIN u PROVE NodeFits(u[p])
  <2>1. p \in DOMAIN t /\ NodeFits(t[p]) /\ NodeFits(t[empty]) /\ NodeFits(t[usr])
    BY <1>4, <1>5 DEF Fits
  <2>2. CASE p = empty
    BY <1>4, <1>5, <2>1, <2>2, DirFits, RestatedFits
  <2>3. CASE p = run /\ p # empty
    <3>1. t[run].dir /\ u[run] = WithStat(t[run], stat) /\ NodeFits(t[run])
      BY <1>4, <2>1, <2>3
    <3>2. IsStat(stat)
      BY <1>3, <3>1, DirFits, StatFits
    <3>3. QED BY <2>3, <3>1, <3>2, RestatedFits
  <2>4. CASE p \notin {empty, run}
    BY <1>4, <2>1, <2>4
  <2>5. QED BY <2>2, <2>3, <2>4
<1>8. Fits(u)
  BY <1>4, <1>6, <1>7 DEF Fits
<1>9. QED BY <1>1, <1>8

(***************************************************************************)
(* Reading a file system again (fs.rs).                                    *)
(***************************************************************************)

Selinux == <<"security", "selinux">>

\* The stat with the attributes of containers alone.
Kept(stat) == [stat EXCEPT !.xattrs = [k \in DOMAIN @ \cap ContainerXattrs |-> @[k]]]
KeptNode(node) == [node EXCEPT !.stat = Kept(node.stat)]

\* What has characters is a string.
LEMMA SomeText ==
  ASSUME NEW s, NEW n, n = Len(s), n \in Nat, n # 0, s # ""
  PROVE  IsText(s)
  BY DEF IsText

\* Attributes that are filtered or labelled are attributes.
LEMMA AttributesKept ==
  ASSUME NEW x, IsXattrs(x)
  PROVE  /\ IsXattrs([k \in DOMAIN x \cap ContainerXattrs |-> x[k]])
         /\ IsXattrs([k \in DOMAIN x \cup {Selinux} |-> IF k = Selinux THEN Value("data", "host") ELSE x[k]])
<1> DEFINE host == Value("data", "host")
           K == [k \in DOMAIN x \cap ContainerXattrs |-> x[k]]
           L == [k \in DOMAIN x \cup {Selinux} |-> IF k = Selinux THEN host ELSE x[k]]
<1>1. host = Value(host.kind, host.of) /\ IsText(host.of)
  <2>1. host.kind = "data" /\ host.of = "host"
    BY DEF Value
  <2>2. PICK s : s = "host"
    OBVIOUS
  <2>3. PICK n : n = Len(s)
    OBVIOUS
  <2>4. n \in Nat /\ n # 0 /\ s # ""
    <3>1. n = Len("host")
      BY <2>2, <2>3
    <3>2. n = 4
      BY <3>1, Lengths
    <3>3. QED BY <2>2, <3>2
  <2>5. IsText(s)
    BY <2>3, <2>4, SomeText
  <2>6. QED BY <2>1, <2>2, <2>5
<1>2. \A k \in DOMAIN x : x[k] = Value(x[k].kind, x[k].of) /\ IsText(x[k].of)
  BY DEF IsXattrs
<1> HIDE DEF host
<1>3. IsXattrs(K)
  <2>1. \A k \in DOMAIN K : k \in DOMAIN x /\ K[k] = x[k]
    OBVIOUS
  <2>2. K = [k \in DOMAIN K |-> K[k]]
    OBVIOUS
  <2> HIDE DEF K
  <2>3. QED BY <1>2, <2>1, <2>2 DEF IsXattrs
<1>4. IsXattrs(L)
  <2>1. \A k \in DOMAIN L : IF k = Selinux THEN L[k] = host ELSE k \in DOMAIN x /\ L[k] = x[k]
    OBVIOUS
  <2>2. L = [k \in DOMAIN L |-> L[k]]
    OBVIOUS
  <2> HIDE DEF L
  <2>3. QED BY <1>1, <1>2, <2>1, <2>2 DEF IsXattrs
<1>5. QED BY <1>3, <1>4 DEF host

\* The label of the host is not kept.
LEMMA KeptIs ==
  ASSUME NEW stat, IsStat(stat)
  PROVE  /\ IsStat(Kept(stat)) /\ IsStat(Labelled(stat)) /\ Kept(Labelled(stat)) = Kept(stat)
         /\ \A mtime : Kept([stat EXCEPT !.mtime = mtime]) = [Kept(stat) EXCEPT !.mtime = mtime]
         /\ Kept(stat).mtime = stat.mtime
<1> DEFINE K(x) == [k \in DOMAIN x \cap ContainerXattrs |-> x[k]]
           L(x) == [k \in DOMAIN x \cup {Selinux} |-> IF k = Selinux THEN Value("data", "host") ELSE x[k]]
<1>1. \A s : Kept(s) = [s EXCEPT !.xattrs = K(s.xattrs)]
  BY DEF Kept
<1>2. Labelled(stat) = [stat EXCEPT !.xattrs = L(stat.xattrs)]
  BY DEF Labelled, Selinux
<1>3. \A x : K(L(x)) = K(x)
  <2>1. Selinux \notin ContainerXattrs
    BY ImageConstants DEF Selinux
  <2> HIDE DEF Selinux
  <2>2. QED BY <2>1
<1> HIDE DEF K, L
<1>4. \A x : /\ IsXattrs(x) => IsStat([stat EXCEPT !.xattrs = x])
             /\ [stat EXCEPT !.xattrs = x] = [mode |-> stat.mode, mtime |-> stat.mtime, xattrs |-> x]
  BY StatFits
<1>5. \A m : /\ IsStat([stat EXCEPT !.mtime = m])
             /\ [stat EXCEPT !.mtime = m] = [mode |-> stat.mode, mtime |-> m, xattrs |-> stat.xattrs]
  BY StatFits
<1>6. IsStat(Kept(stat)) /\ IsStat(Labelled(stat))
  <2>1. IsXattrs(stat.xattrs)
    BY DEF IsStat
  <2>2. IsXattrs(K(stat.xattrs)) /\ IsXattrs(L(stat.xattrs))
    BY <2>1, AttributesKept DEF K, L
  <2>3. QED BY <1>1, <1>2, <1>4, <2>2
<1>7. Kept(stat) = [mode |-> stat.mode, mtime |-> stat.mtime, xattrs |-> K(stat.xattrs)]
  BY <1>1, <1>4
<1>8. \A a, b, c : Kept([mode |-> a, mtime |-> b, xattrs |-> c]) = [mode |-> a, mtime |-> b, xattrs |-> K(c)]
  BY <1>1
<1>9. Kept(Labelled(stat)) = Kept(stat)
  <2>1. PICK x : x = L(stat.xattrs)
    OBVIOUS
  <2>2. Labelled(stat) = [mode |-> stat.mode, mtime |-> stat.mtime, xattrs |-> x]
    BY <1>2, <1>4, <2>1
  <2>3. Kept(Labelled(stat)) = [mode |-> stat.mode, mtime |-> stat.mtime, xattrs |-> K(x)]
    BY <1>8, <2>2
  <2>4. QED BY <1>3, <1>7, <2>1, <2>3
<1>10. ASSUME NEW m PROVE Kept([stat EXCEPT !.mtime = m]) = [Kept(stat) EXCEPT !.mtime = m]
  <2>1. Kept([stat EXCEPT !.mtime = m]) = [mode |-> stat.mode, mtime |-> m, xattrs |-> K(stat.xattrs)]
    <3>1. [stat EXCEPT !.mtime = m] = [mode |-> stat.mode, mtime |-> m, xattrs |-> stat.xattrs]
      BY <1>5
    <3>2. Kept([mode |-> stat.mode, mtime |-> m, xattrs |-> stat.xattrs])
            = [mode |-> stat.mode, mtime |-> m, xattrs |-> K(stat.xattrs)]
      BY <1>8
    <3>3. QED BY <3>1, <3>2
  <2>2. \A a, b, c : [[mode |-> a, mtime |-> b, xattrs |-> c] EXCEPT !.mtime = m] = [mode |-> a, mtime |-> m, xattrs |-> c]
    OBVIOUS
  <2>3. [Kept(stat) EXCEPT !.mtime = m] = [mode |-> stat.mode, mtime |-> m, xattrs |-> K(stat.xattrs)]
    BY <1>7, <2>2
  <2>4. QED BY <2>1, <2>3
<1>11. Kept(stat).mtime = stat.mtime
  BY <1>7
<1>12. QED BY <1>6, <1>9, <1>10, <1>11

\* A leaf has another stat.
LEMMA LeafWithStat ==
  ASSUME NEW no, NEW rc, NEW stat, NEW content, NEW s
  PROVE  [[dir |-> no, rc |-> rc, stat |-> stat, content |-> content] EXCEPT !.stat = s]
           = [dir |-> no, rc |-> rc, stat |-> s, content |-> content]
  OBVIOUS

\* What is kept of a directory and of a leaf.
LEMMA KeptNodeIs ==
  ASSUME NEW stat
  PROVE  /\ KeptNode(Dir(stat)) = Dir(Kept(stat))
         /\ \A rc, content : KeptNode(LeafOf(rc, stat, content)) = LeafOf(rc, Kept(stat), content)
<1>1. ASSUME NEW s PROVE [Dir(stat) EXCEPT !.stat = s] = Dir(s)
  <2>1. IsNode(Dir(stat)) /\ Dir(stat).dir = TRUE
    BY DEF Dir, IsNode
  <2>2. WithStat(Dir(stat), s) = Dir(s)
    BY <2>1, DirWithStat
  <2>3. QED BY <2>2 DEF WithStat
<1>2. ASSUME NEW s, NEW rc, NEW content
      PROVE  [LeafOf(rc, stat, content) EXCEPT !.stat = s] = LeafOf(rc, s, content)
  <2>1. PICK no : no = FALSE
    OBVIOUS
  <2>2. [[dir |-> no, rc |-> rc, stat |-> stat, content |-> content] EXCEPT !.stat = s]
           = [dir |-> no, rc |-> rc, stat |-> s, content |-> content]
    BY LeafWithStat
  <2>3. QED BY <2>1, <2>2 DEF LeafOf
<1>3. Dir(stat).stat = stat
  BY DEF Dir
<1>4. \A rc, content : LeafOf(rc, stat, content).stat = stat
  BY DEF LeafOf
<1>5. \A node : KeptNode(node) = [node EXCEPT !.stat = Kept(node.stat)]
  BY DEF KeptNode
<1>6. QED BY <1>1, <1>2, <1>3, <1>4, <1>5

\* filter_xattrs does that with every node.
LEMMA FilterIs ==
  ASSUME NEW t
  PROVE  filter_xattrs(t, ContainerXattrs) = [p \in DOMAIN t |-> KeptNode(t[p])]
<1>1. ASSUME NEW node
      PROVE  [node EXCEPT !.stat.xattrs = [k \in DOMAIN @ \cap ContainerXattrs |-> @[k]]] = KeptNode(node)
  BY DEF KeptNode, Kept
<1>2. QED BY <1>1 DEF filter_xattrs

\* What is left is all there was, if there was nothing else.
LEMMA KeptSame ==
  ASSUME NEW node, NodeFits(node)
  PROVE  KeptNode(node) = node <=> DOMAIN node.stat.xattrs \subseteq ContainerXattrs
<1> DEFINE K(x) == [k \in DOMAIN x \cap ContainerXattrs |-> x[k]]
<1>1. \A s : Kept(s) = [s EXCEPT !.xattrs = K(s.xattrs)]
  BY DEF Kept
<1>2. \A x : DOMAIN K(x) = DOMAIN x \cap ContainerXattrs
  OBVIOUS
<1>0. ASSUME NEW x, DOMAIN x \subseteq ContainerXattrs, x = [k \in DOMAIN x |-> x[k]] PROVE K(x) = x
  <2>1. DOMAIN x \cap ContainerXattrs = DOMAIN x
    BY <1>0
  <2>2. QED BY <1>0, <2>1
<1> HIDE DEF K
<1>3. ASSUME NEW s, IsStat(s) PROVE Kept(s) = s <=> DOMAIN s.xattrs \subseteq ContainerXattrs
  <2>1. \A x : [s EXCEPT !.xattrs = x] = [mode |-> s.mode, mtime |-> s.mtime, xattrs |-> x]
    BY <1>3, StatFits
  <2>2. s = [mode |-> s.mode, mtime |-> s.mtime, xattrs |-> s.xattrs]
    BY <1>3 DEF IsStat
  <2>3. Kept(s) = [mode |-> s.mode, mtime |-> s.mtime, xattrs |-> K(s.xattrs)]
    BY <1>1, <2>1
  <2>4. Kept(s) = s <=> K(s.xattrs) = s.xattrs
    BY <2>2, <2>3
  <2>5. s.xattrs = [k \in DOMAIN s.xattrs |-> s.xattrs[k]]
    BY <1>3 DEF IsStat, IsXattrs
  <2>6. PICK x : x = s.xattrs
    OBVIOUS
  <2>7. ASSUME K(x) = x PROVE DOMAIN x \subseteq ContainerXattrs
    <3>1. DOMAIN K(x) = DOMAIN x \cap ContainerXattrs
      BY <1>2
    <3>2. QED BY <2>7, <3>1
  <2>8. ASSUME DOMAIN x \subseteq ContainerXattrs PROVE K(x) = x
    BY <1>0, <2>5, <2>6, <2>8
  <2>9. QED BY <2>4, <2>6, <2>7, <2>8
<1>4. CASE node.dir
  <2>1. IsStat(node.stat) /\ node = Dir(node.stat)
    BY <1>4, DirFits
  <2>2. KeptNode(node) = Dir(Kept(node.stat))
    BY <2>1, KeptNodeIs
  <2>3. Dir(Kept(node.stat)).stat = Kept(node.stat)
    BY DirFields
  <2>4. KeptNode(node) = node <=> Kept(node.stat) = node.stat
    BY <2>1, <2>2, <2>3
  <2>5. QED BY <1>3, <2>1, <2>4
<1>5. CASE ~node.dir
  <2>1. IsStat(node.stat) /\ node = LeafOf(node.rc, node.stat, node.content)
    BY <1>5, LeafFits
  <2>2. KeptNode(LeafOf(node.rc, node.stat, node.content)) = LeafOf(node.rc, Kept(node.stat), node.content)
    BY KeptNodeIs
  <2>3. LeafOf(node.rc, Kept(node.stat), node.content).stat = Kept(node.stat)
    BY DEF LeafOf
  <2>4. KeptNode(node) = node <=> Kept(node.stat) = node.stat
    BY <2>1, <2>2, <2>3
  <2>5. QED BY <1>3, <2>1, <2>4
<1>6. QED BY <1>4, <1>5

\* A file is read as what has been written.
LEMMA ContentReadsBack ==
  ASSUME NEW content, IsContent(content), NEW inode,
         \/ /\ content.type \in {"inline", "external"}
            /\ inode.type = "regular" /\ inode.data = DataOf(content)
         \/ /\ content.type \notin {"inline", "external"} /\ inode.type = content.type
            /\ content.type = "symlink" => inode.target = content.target
            /\ content.type \in {"chardev", "blockdev"} => inode.rdev = content.rdev
  PROVE  /\ read_leaf_content(inode, TRUE) = content
         /\ CutShort(read_leaf_content(inode, FALSE), content)
<1>0. \A d : Read(d, TRUE) = d /\ Read(d, FALSE) = IF d \in DOMAIN Cut THEN Cut[d] ELSE d
  BY DEF Read
<1>c. CutShort(content, content)
  BY DEF CutShort
<1>1. CASE content.type = "inline"
  <2>1. content = [type |-> "inline", data |-> content.data] /\ SizeOf(content.data) <= INLINE_CONTENT_MAX
    BY <1>1 DEF IsContent
  <2>2. inode.type = "regular" /\ inode.data = content.data
    BY <1>1 DEF DataOf
  <2>3. ~(SizeOf(inode.data) > INLINE_CONTENT_MAX)
    <3>1. IsText(content.data) /\ Len(content.data) = SizeOf(content.data)
      BY <1>1 DEF IsContent
    <3>2. SizeOf(inode.data) \in Nat /\ SizeOf(inode.data) <= INLINE_CONTENT_MAX
      BY <2>1, <2>2, <3>1 DEF IsText
    <3>3. INLINE_CONTENT_MAX \in Nat
      BY ImageConstants
    <3>4. QED BY <3>2, <3>3
  <2>4. read_leaf_content(inode, TRUE) = content
    BY <1>0, <2>1, <2>2, <2>3 DEF read_leaf_content
  <2>5. PICK cut : cut = read_leaf_content(inode, FALSE)
    OBVIOUS
  <2>6. cut = [type |-> "inline", data |-> Read(content.data, FALSE)]
    BY <2>2, <2>3, <2>5 DEF read_leaf_content
  <2>7. CASE content.data \in DOMAIN Cut
    <3>1. SizeOf(Read(content.data, FALSE)) < SizeOf(content.data)
      BY <1>0, <2>7, ImageConstants
    <3>2. cut.type = "inline" /\ cut.data = Read(content.data, FALSE)
      BY <2>6
    <3>3. CutShort(cut, content)
      BY <1>1, <3>1, <3>2 DEF CutShort
    <3>4. QED BY <2>4, <2>5, <3>3
  <2>8. CASE content.data \notin DOMAIN Cut
    <3>1. cut = content
      BY <1>0, <2>1, <2>6, <2>8
    <3>2. QED BY <1>c, <2>4, <2>5, <3>1
  <2>9. QED BY <2>7, <2>8
<1>2. CASE content.type = "external"
  <2>1. PICK d \in DOMAIN Sized : /\ content = [type |-> "external", id |-> Sized[d].id, size |-> SizeOf(d)]
                                  /\ SizeOf(d) > INLINE_CONTENT_MAX
    BY <1>2 DEF IsContent
  <2>2. DataOf(content) = CHOOSE c \in DOMAIN Sized : Sized[c].id = content.id
    BY <1>2 DEF DataOf
  <2>3. content.id = Sized[d].id
    BY <2>1
  <2>4. DataOf(content) \in DOMAIN Sized /\ Sized[DataOf(content)].id = Sized[d].id
    BY <2>2, <2>3
  <2>5. DataOf(content) = d
    BY <2>4, ImageConstants
  <2>6. inode.type = "regular" /\ inode.data = d
    BY <1>2, <2>5
  <2>7. read_leaf_content(inode, TRUE) = content
    BY <1>0, <2>1, <2>6 DEF read_leaf_content
  <2>8. PICK c, cut : c = Read(d, FALSE) /\ cut = read_leaf_content(inode, FALSE)
    OBVIOUS
  <2>9. cut = [type |-> "external", id |-> Sized[c].id, size |-> SizeOf(d)]
    BY <2>1, <2>6, <2>8 DEF read_leaf_content
  <2>10. CASE d \in DOMAIN Cut
    <3>1. c \in DOMAIN Sized /\ SizeOf(c) < SizeOf(d)
      BY <1>0, <2>8, <2>10, ImageConstants
    <3>2. cut.type = "external" /\ cut.id = Sized[c].id /\ cut.size = SizeOf(d)
      BY <2>9
    <3>3. DataOf(cut) = CHOOSE e \in DOMAIN Sized : Sized[e].id = cut.id
      BY <3>2 DEF DataOf
    <3>4. DataOf(cut) \in DOMAIN Sized /\ Sized[DataOf(cut)].id = Sized[c].id
      BY <3>1, <3>2, <3>3
    <3>5. DataOf(cut) = c
      BY <3>1, <3>4, ImageConstants
    <3>6. SizeOf(c) \in Nat /\ SizeOf(d) \in Nat
      BY <3>1, ImageConstants DEF SizeOf
    <3>7. ~CanRead(cut)
      BY <3>1, <3>2, <3>5, <3>6 DEF CanRead
    <3>8. CanRead(content)
      BY <2>1, <2>5 DEF CanRead
    <3>9. CutShort(cut, content)
      BY <1>2, <3>2, <3>7, <3>8 DEF CutShort
    <3>10. QED BY <2>7, <2>8, <3>9
  <2>11. CASE d \notin DOMAIN Cut
    <3>1. c = d
      BY <1>0, <2>8, <2>11
    <3>2. cut = content
      BY <2>1, <2>9, <3>1
    <3>3. QED BY <1>c, <2>7, <2>8, <3>2
  <2>12. QED BY <2>10, <2>11
<1>3. CASE content.type = "symlink"
  <2>1. content = [type |-> "symlink", target |-> content.target]
    BY <1>3 DEF IsContent
  <2>2. inode.type = "symlink" /\ inode.target = content.target
    BY <1>3
  <2>3. read_leaf_content(inode, TRUE) = content /\ read_leaf_content(inode, FALSE) = content
    BY <2>1, <2>2 DEF read_leaf_content
  <2>4. QED BY <1>c, <2>3
<1>4. CASE content.type \in {"chardev", "blockdev"}
  <2>1. content = [type |-> content.type, rdev |-> content.rdev]
    BY <1>4 DEF IsContent
  <2>2. inode.type = content.type /\ inode.rdev = content.rdev
    BY <1>4
  <2>3. read_leaf_content(inode, TRUE) = content /\ read_leaf_content(inode, FALSE) = content
    BY <1>4, <2>1, <2>2 DEF read_leaf_content
  <2>4. QED BY <1>c, <2>3
<1>5. CASE content.type \in {"fifo", "socket"}
  <2>1. content = [type |-> content.type]
    BY <1>5 DEF IsContent
  <2>2. inode.type = content.type
    BY <1>5
  <2>3. read_leaf_content(inode, TRUE) = content /\ read_leaf_content(inode, FALSE) = content
    BY <1>5, <2>1, <2>2 DEF read_leaf_content
  <2>4. QED BY <1>c, <2>3
<1>6. content.type \in {"inline", "external", "symlink", "chardev", "blockdev", "fifo", "socket"}
  BY DEF IsContent
<1>7. QED BY <1>1, <1>2, <1>3, <1>4, <1>5, <1>6


\* What a host adds to the tree.
Added == {q \in {<<"run", "a">>} : get_directory(tree, <<"run">>)}

\* What is read from the container's root: the nodes of the tree without the host's
\* labels, but for the root.
ReadAs(t) ==
  /\ DOMAIN t = DOMAIN tree \cup Added
  /\ \A p \in DOMAIN tree : IF p = <<>> THEN \E stat : IsStat(stat) /\ t[p] = Dir(stat)
                                        ELSE t[p] = KeptNode(tree[p])
  /\ \A p \in DOMAIN t : NodeFits(t[p])

\* A file of an inode is read as a leaf with the inode's number and stat.
LEMMA ReadLeafIs ==
  ASSUME NEW inode, NEW short
  PROVE  read_leaf(inode, short) =
           LeafOf(inode.ino, inode.stat,
                  IF inode.ino \in short THEN read_leaf_content(inode, FALSE) ELSE read_leaf_content(inode, TRUE))
<1>1. CASE inode.ino \in short
  <2>1. (inode.ino \notin short) = FALSE
    BY <1>1
  <2>2. QED BY <1>1, <2>1 DEF read_leaf
<1>2. CASE inode.ino \notin short
  <2>1. (inode.ino \notin short) = TRUE
    BY <1>2
  <2>2. QED BY <1>2, <2>1 DEF read_leaf
<1>3. QED BY <1>1, <1>2

\* A file on a disk is read as its content, or as less of it.
ReadAsContent(inode, content) ==
  /\ read_leaf_content(inode, TRUE) = content
  /\ CutShort(read_leaf_content(inode, FALSE), content)

\* A file on a disk has its inode's number and stat, and is read as its content, if
\* all of that is there.
FileHas(inode, ino, stat) == inode.dir = FALSE /\ inode.ino = ino /\ inode.stat = stat

LEMMA FileReads ==
  ASSUME NEW content, IsContent(content), NEW ino, NEW stat
  PROVE  \A whole \in BOOLEAN :
           /\ FileHas(FileOf(content, whole, ino, stat), ino, stat)
           /\ whole \/ content.type # "external" => ReadAsContent(FileOf(content, whole, ino, stat), content)
<1> SUFFICES ASSUME NEW whole \in BOOLEAN
             PROVE  /\ FileHas(FileOf(content, whole, ino, stat), ino, stat)
                    /\ whole \/ content.type # "external"
                         => ReadAsContent(FileOf(content, whole, ino, stat), content)
  OBVIOUS
<1> DEFINE c == write_leaf_to_disk(content, whole)
           D == DOMAIN c \cup {"dir", "ino", "stat"}
           inode == FileOf(content, whole, ino, stat)
<1>1. inode = [f \in D |-> CASE f = "dir"  -> FALSE
                             [] f = "ino"  -> ino
                             [] f = "stat" -> stat
                             [] OTHER -> c[f]]
  BY DEF FileOf
<1>2. /\ content.type = "inline" => c = [type |-> "regular", data |-> DataOf(content)]
      /\ content.type = "external" /\ whole => c = [type |-> "regular", data |-> DataOf(content)]
      /\ content.type \notin {"inline", "external"} => c = content
  BY DEF write_leaf_to_disk, Read
<1>3. /\ content.type = "symlink" => DOMAIN content = {"type", "target"}
      /\ content.type \in {"chardev", "blockdev"} => DOMAIN content = {"type", "rdev"}
      /\ content.type \in {"fifo", "socket"} => DOMAIN content = {"type"}
      /\ content.type \in {"inline", "external", "symlink", "chardev", "blockdev", "fifo", "socket"}
  <2>1. CASE content.type = "symlink"
    <3>1. content = [type |-> "symlink", target |-> content.target]
      BY <2>1 DEF IsContent
    <3>2. QED BY <2>1, <3>1
  <2>2. CASE content.type \in {"chardev", "blockdev"}
    <3>1. content = [type |-> content.type, rdev |-> content.rdev]
      BY <2>2 DEF IsContent
    <3>2. QED BY <2>2, <3>1
  <2>3. CASE content.type \in {"fifo", "socket"}
    <3>1. content = [type |-> content.type]
      BY <2>3 DEF IsContent
    <3>2. QED BY <2>3, <3>1
  <2>4. content.type \in {"inline", "external", "symlink", "chardev", "blockdev", "fifo", "socket"}
    BY DEF IsContent
  <2>5. QED BY <2>1, <2>2, <2>3, <2>4
<1> HIDE DEF c
<1>4. inode.dir = FALSE /\ inode.ino = ino /\ inode.stat = stat
  BY <1>1
<1>5. /\ "type" \in DOMAIN c => inode.type = c.type
      /\ "data" \in DOMAIN c => inode.data = c.data
      /\ "target" \in DOMAIN c => inode.target = c.target
      /\ "rdev" \in DOMAIN c => inode.rdev = c.rdev
  BY <1>1
<1> HIDE DEF inode
<1>6. CASE content.type \in {"inline", "external"} /\ (whole \/ content.type # "external")
  <2>1. inode.type = "regular" /\ inode.data = DataOf(content)
    BY <1>2, <1>5, <1>6
  <2>2. ReadAsContent(inode, content)
    BY <1>6, <2>1, ContentReadsBack DEF ReadAsContent
  <2>3. QED BY <1>4, <2>2 DEF inode, FileHas
<1>7. CASE content.type \notin {"inline", "external"}
  <2>1. /\ inode.type = content.type
        /\ content.type = "symlink" => inode.target = content.target
        /\ content.type \in {"chardev", "blockdev"} => inode.rdev = content.rdev
    BY <1>2, <1>3, <1>5, <1>7
  <2>2. ReadAsContent(inode, content)
    BY <1>7, <2>1, ContentReadsBack DEF ReadAsContent
  <2>3. QED BY <1>4, <2>2 DEF inode, FileHas
<1>8. QED BY <1>4, <1>6, <1>7 DEF inode, FileHas

LEMMA WholeFileReads ==
  ASSUME NEW content, IsContent(content), NEW ino, NEW stat
  PROVE  /\ FileHas(FileOf(content, TRUE, ino, stat), ino, stat)
         /\ ReadAsContent(FileOf(content, TRUE, ino, stat), content)
<1>1. \A whole \in BOOLEAN :
        /\ FileHas(FileOf(content, whole, ino, stat), ino, stat)
        /\ whole \/ content.type # "external" => ReadAsContent(FileOf(content, whole, ino, stat), content)
  BY FileReads
<1>2. QED BY <1>1

\* What a reader makes of an inode.
ReadNode(inode, short) == IF inode.dir THEN Dir(inode.stat) ELSE read_leaf(inode, short)

\* Nothing is cut short where that happens to no file.
LEMMA WholeReads ==
  ASSUME NEW inode, inode.dir = FALSE, NEW content, ReadAsContent(inode, content)
  PROVE  ReadNode(inode, {}) = LeafOf(inode.ino, inode.stat, content)
<1>1. read_leaf(inode, {}) = LeafOf(inode.ino, inode.stat, read_leaf_content(inode, TRUE))
  BY ReadLeafIs
<1>2. QED BY <1>1 DEF ReadNode, ReadAsContent

\* The inode of a node in a mount is read as the node, but for the label of the host.
LEMMA InodeReads ==
  ASSUME NEW node, NodeFits(node), NEW p, p # <<>>
  PROVE  KeptNode(ReadNode(Inode(node, p), {})) = KeptNode(node)
<1> DEFINE inode == Inode(node, p)
<1>1. CASE node.dir
  <2>1. IsStat(node.stat) /\ node = Dir(node.stat) /\ node.dir = TRUE
    BY <1>1, DirFits
  <2>2. inode = [dir |-> TRUE, ino |-> 0, stat |-> Labelled(node.stat)]
    BY <1>1 DEF Inode
  <2>3. inode.dir = TRUE /\ inode.stat = Labelled(node.stat)
    BY <2>2
  <2> HIDE DEF inode
  <2>4. ReadNode(inode, {}) = Dir(Labelled(node.stat))
    BY <2>3 DEF ReadNode
  <2>5. KeptNode(Dir(Labelled(node.stat))) = Dir(Kept(Labelled(node.stat)))
    BY KeptNodeIs
  <2>6. KeptNode(Dir(node.stat)) = Dir(Kept(node.stat))
    BY KeptNodeIs
  <2>7. Kept(Labelled(node.stat)) = Kept(node.stat)
    BY <2>1, KeptIs
  <2>8. QED BY <2>1, <2>4, <2>5, <2>6, <2>7 DEF inode
<1>2. CASE ~node.dir
  <2>1. /\ IsStat(node.stat) /\ IsContent(node.content)
        /\ node = LeafOf(node.rc, node.stat, node.content)
    BY <1>2, LeafFits
  <2>2. inode = FileOf(node.content, TRUE, node.rc, Labelled(node.stat))
    BY <1>2 DEF Inode
  <2> HIDE DEF inode
  <2>3. /\ inode.dir = FALSE /\ inode.ino = node.rc /\ inode.stat = Labelled(node.stat)
        /\ ReadAsContent(inode, node.content)
    <3>1. /\ FileHas(FileOf(node.content, TRUE, node.rc, Labelled(node.stat)), node.rc, Labelled(node.stat))
          /\ ReadAsContent(FileOf(node.content, TRUE, node.rc, Labelled(node.stat)), node.content)
      BY <2>1, WholeFileReads
    <3>2. QED BY <2>2, <3>1 DEF FileHas
  <2>4. ReadNode(inode, {}) = LeafOf(node.rc, Labelled(node.stat), node.content)
    BY <2>3, WholeReads
  <2>5. KeptNode(LeafOf(node.rc, Labelled(node.stat), node.content)) = LeafOf(node.rc, Kept(Labelled(node.stat)), node.content)
    BY KeptNodeIs
  <2>6. KeptNode(LeafOf(node.rc, node.stat, node.content)) = LeafOf(node.rc, Kept(node.stat), node.content)
    BY KeptNodeIs
  <2>7. Kept(Labelled(node.stat)) = Kept(node.stat)
    BY <2>1, KeptIs
  <2>8. QED BY <2>1, <2>4, <2>5, <2>6, <2>7 DEF inode
<1>3. QED BY <1>1, <1>2


\* Such a node is a node of a FileSystem.
LEMMA FitIsNode ==
  ASSUME NEW node, NodeFits(node)
  PROVE  IsNode(node) /\ node.dir \in BOOLEAN
<1>1. CASE node.dir
  BY <1>1, DirFits
<1>2. CASE ~node.dir
  <2>1. node = LeafOf(node.rc, node.stat, node.content) /\ node.dir = FALSE
    BY <1>2, LeafFits
  <2>2. DOMAIN LeafOf(node.rc, node.stat, node.content) = {"dir", "rc", "stat", "content"}
    BY DEF LeafOf
  <2>3. QED BY <2>1, <2>2 DEF IsNode
<1>3. QED BY <1>1, <1>2

\* Dropping the other attributes makes no other kind of node of it.
LEMMA KeptFits ==
  ASSUME NEW node, NodeFits(node)
  PROVE  NodeFits(KeptNode(node)) /\ KeptNode(node).dir = node.dir
<1>1. CASE node.dir
  <2>1. IsStat(node.stat) /\ node = Dir(node.stat) /\ node.dir = TRUE
    BY <1>1, DirFits
  <2>2. KeptNode(node) = Dir(Kept(node.stat))
    BY <2>1, KeptNodeIs
  <2>3. IsStat(Kept(node.stat))
    BY <2>1, KeptIs
  <2>4. KeptNode(node).dir = TRUE
    BY <2>2, DirFields
  <2>5. QED BY <2>1, <2>2, <2>3, <2>4 DEF NodeFits
<1>2. CASE ~node.dir
  <2>1. /\ node.rc \in Nat /\ IsStat(node.stat) /\ IsContent(node.content) /\ node.dir = FALSE
        /\ node = LeafOf(node.rc, node.stat, node.content)
    BY <1>2, LeafFits
  <2>2. KeptNode(LeafOf(node.rc, node.stat, node.content)) = LeafOf(node.rc, Kept(node.stat), node.content)
    BY KeptNodeIs
  <2>3. KeptNode(node) = LeafOf(node.rc, Kept(node.stat), node.content)
    BY <2>1, <2>2
  <2>4. IsStat(Kept(node.stat))
    BY <2>1, KeptIs
  <2>5. LeafOf(node.rc, Kept(node.stat), node.content).dir = FALSE
    BY DEF LeafOf
  <2>6. KeptNode(node).dir = FALSE
    BY <2>3, <2>5
  <2>7. NodeFits(KeptNode(node))
    BY <2>1, <2>3, <2>4 DEF NodeFits
  <2>8. QED BY <2>1, <2>6, <2>7
<1>3. QED BY <1>1, <1>2

\* The container's root is read so.
LEMMA MountReads ==
  ASSUME Fits(tree)
  PROVE  ReadAs(read_filesystem_filtered(Mounted, {}, ContainerXattrs))
<1> DEFINE t == read_filesystem_filtered(Mounted, {}, ContainerXattrs)
           empty == <<>>
           m == Mounted
           r == read_filesystem(m, {})
<1>1. /\ DOMAIN m = DOMAIN tree \cup Added
      /\ \A p \in DOMAIN tree : m[p] = Inode(tree[p], p)
      /\ \A p \in DOMAIN m \ DOMAIN tree : m[p] = [dir |-> TRUE, ino |-> 0, stat |-> HostStat]
  BY DEF Mounted, Added
<1> HIDE DEF m
<1>2. r = [p \in DOMAIN m |-> ReadNode(m[p], {})]
  BY DEF read_filesystem, ReadNode
<1> HIDE DEF r
<1>3. t = [p \in DOMAIN r |-> KeptNode(r[p])]
  BY FilterIs DEF read_filesystem_filtered, r, m
<1>4. DOMAIN t = DOMAIN m /\ \A p \in DOMAIN m : t[p] = KeptNode(ReadNode(m[p], {}))
  BY <1>2, <1>3
<1>5. IsStat(HostStat)
  BY NoAttributes DEF IsStat, HostStat
<1>6. ASSUME NEW inode, NEW stat, IsStat(stat), inode = [dir |-> TRUE, ino |-> 0, stat |-> stat]
      PROVE  KeptNode(ReadNode(inode, {})) = Dir(Kept(stat)) /\ IsStat(Kept(stat))
  <2>1. inode.dir = TRUE /\ inode.stat = stat
    BY <1>6
  <2>2. ReadNode(inode, {}) = Dir(stat)
    BY <2>1 DEF ReadNode
  <2>3. QED BY <1>6, <2>2, KeptNodeIs, KeptIs
<1> HIDE DEF empty, t
<1>7. empty \in DOMAIN tree /\ tree[empty].dir
  BY DEF Fits, IsTree, empty
<1>8. \E stat : IsStat(stat) /\ t[empty] = Dir(stat)
  <2>1. m[empty] = [dir |-> TRUE, ino |-> 0, stat |-> Labelled(HostStat)]
    BY <1>1, <1>7 DEF Inode, empty
  <2>2. IsStat(Labelled(HostStat))
    BY <1>5, KeptIs
  <2>3. t[empty] = Dir(Kept(Labelled(HostStat))) /\ IsStat(Kept(Labelled(HostStat)))
    BY <1>1, <1>4, <1>6, <1>7, <2>1, <2>2
  <2>4. QED BY <2>3
<1>9. ASSUME NEW p \in DOMAIN tree, p # empty PROVE t[p] = KeptNode(tree[p]) /\ NodeFits(t[p])
  <2>1. NodeFits(tree[p])
    BY DEF Fits
  <2>2. KeptNode(ReadNode(Inode(tree[p], p), {})) = KeptNode(tree[p])
    BY <1>9, <2>1, InodeReads DEF empty
  <2>3. t[p] = KeptNode(tree[p])
    BY <1>1, <1>4, <2>2
  <2>4. QED BY <2>1, <2>3, KeptFits
<1>10. ASSUME NEW p \in DOMAIN t PROVE NodeFits(t[p])
  <2>1. CASE p = empty
    BY <1>8, <2>1 DEF NodeFits
  <2>2. CASE p # empty /\ p \in DOMAIN tree
    BY <1>9, <2>2
  <2>3. CASE p \notin DOMAIN tree
    <3>1. p \in DOMAIN m /\ m[p] = [dir |-> TRUE, ino |-> 0, stat |-> HostStat]
      BY <1>1, <1>4, <2>3
    <3>2. t[p] = Dir(Kept(HostStat)) /\ IsStat(Kept(HostStat))
      BY <1>4, <1>5, <1>6, <3>1
    <3>3. QED BY <3>2 DEF NodeFits
  <2>4. QED BY <2>1, <2>2, <2>3
<1>11. ReadAs(t)
  BY <1>1, <1>4, <1>8, <1>9, <1>10 DEF ReadAs, empty
<1>12. QED BY <1>11 DEF t

\* The beginning of a path of two names.
LEMMA FirstOfTwo ==
  ASSUME NEW a, NEW b
  PROVE  SubSeq(<<a, b>>, 1, 1) = <<a>>
<1> DEFINE two == <<a, b>>  one == <<a>>  N == {a, b}
<1>1. two \in Seq(N) /\ one \in Seq(N) /\ Len(two) = 2 /\ Len(one) = 1 /\ two[1] = one[1]
  OBVIOUS
<1> HIDE DEF two, one, N
<1>2. 1 \in 1 .. Len(two) + 1 /\ 1 \in 1 - 1 .. Len(two)
  BY <1>1
<1> DEFINE s == SubSeq(two, 1, 1)
<1>3. s \in Seq(N) /\ Len(s) = 1 /\ s[1] = two[1]
  BY <1>1, <1>2
<1> HIDE DEF s
<1>4. s = one
  BY <1>1, <1>3, SeqEqual
<1>5. QED BY <1>4 DEF s, two, one

\* What is above a path of the tree is not what the host has added.
LEMMA AddedIs ==
  /\ \A q \in Added : q = <<"run", "a">> /\ Below(<<"run">>, q) /\ Parent(q) = <<"run">> /\ q # <<>>
  /\ \A q \in Added : q \in Seq(Names) /\ q \notin Ancestors(<<"run">>) /\ q \notin Ancestors(<<"usr">>)
<1>1. ASSUME NEW q \in Added PROVE q = <<"run", "a">>
  BY DEF Added
<1>2. {"run", "a"} \subseteq Names
  BY ImageConstants DEF Ordered, Names
<1>3. <<"run", "a">> \in Seq(Names) /\ <<"run", "a">> # <<>> /\ Len(<<"run", "a">>) = 2
  BY <1>2
<1>4. Parent(<<"run", "a">>) = <<"run">>
  <2>1. SubSeq(<<"run", "a">>, 1, 1) = <<"run">>
    BY FirstOfTwo
  <2>2. QED BY <1>3, <2>1 DEF Parent
<1>5. Below(<<"run">>, <<"run", "a">>)
  <2>1. SubSeq(<<"run", "a">>, 1, 1) = <<"run">>
    BY FirstOfTwo
  <2>2. Len(<<"run">>) = 1 /\ <<"run">> # <<"run", "a">>
    OBVIOUS
  <2>3. QED BY <1>3, <2>1, <2>2 DEF Below, In
<1>6. ASSUME NEW s, <<"run", "a">> \in Ancestors(<<s>>) PROVE FALSE
  <2>1. PICK n \in 0 .. Len(<<s>>) : <<"run", "a">> = SubSeq(<<s>>, 1, n)
    BY <1>6 DEF Ancestors
  <2>2. n \in 0 .. 1 /\ Len(SubSeq(<<s>>, 1, n)) = n
    OBVIOUS
  <2>3. QED BY <1>3, <2>1, <2>2
<1>7. QED BY <1>1, <1>3, <1>4, <1>5, <1>6

(***************************************************************************)
(* The container's root.                                                   *)
(***************************************************************************)

\* What has been read is a tree, with the directories of the one that was mounted.
LEMMA ReadIsTree ==
  ASSUME Fits(tree), CanTransform(tree), NEW t, ReadAs(t)
  PROVE  IsTree(t) /\ CanTransform(t)
<1> DEFINE empty == <<>> usr == <<"usr">> run == <<"run">>
<1>1. /\ DOMAIN tree \subseteq Seq(Names) /\ empty \in DOMAIN tree
      /\ \A p \in DOMAIN tree \ {empty} : Parent(p) \in DOMAIN tree /\ tree[Parent(p)].dir
  BY DEF Fits, IsTree
<1>2. \A p \in DOMAIN t : IsNode(t[p]) /\ t[p].dir \in BOOLEAN
  BY FitIsNode DEF ReadAs
<1>3. ASSUME NEW p \in DOMAIN tree PROVE p \in DOMAIN t /\ (t[p].dir <=> tree[p].dir)
  <2>1. NodeFits(tree[p]) /\ tree[empty].dir
    BY DEF Fits, IsTree
  <2>2. CASE p = empty
    <3>1. PICK stat : t[p] = Dir(stat)
      BY <2>2 DEF ReadAs
    <3>2. Dir(stat).dir = TRUE
      BY DirFields
    <3>3. QED BY <2>1, <2>2, <3>1, <3>2 DEF ReadAs
  <2>3. CASE p # empty
    <3>1. t[p] = KeptNode(tree[p]) /\ p \in DOMAIN t
      BY <2>3 DEF ReadAs
    <3>2. KeptNode(tree[p]).dir = tree[p].dir
      BY <2>1, KeptFits
    <3>3. QED BY <3>1, <3>2
  <2>4. QED BY <2>2, <2>3
<1>4. /\ \A q \in Added : Parent(q) = run /\ q # empty /\ q \in Seq(Names)
      /\ \A q \in Added : q \notin Ancestors(run) /\ q \notin Ancestors(usr)
  BY AddedIs
<1>5. ASSUME NEW q \in Added PROVE run \in DOMAIN tree /\ tree[run].dir
  <2>1. get_directory(tree, run)
    BY DEF Added
  <2>2. QED BY <2>1, DirectoryIs DEF Fits
<1>6. DOMAIN t = DOMAIN tree \cup Added
  BY DEF ReadAs
<1> HIDE DEF empty, usr, run
<1>7. ASSUME NEW p \in DOMAIN t \ {empty} PROVE Parent(p) \in DOMAIN t /\ t[Parent(p)].dir
  <2>1. CASE p \in DOMAIN tree
    BY <1>1, <1>3, <2>1
  <2>2. CASE p \in Added
    BY <1>3, <1>4, <1>5, <2>2
  <2>3. QED BY <1>6, <2>1, <2>2
<1>8. IsTree(t)
  <2>1. tree[empty].dir
    BY DEF Fits, IsTree, empty
  <2>2. empty \in DOMAIN t /\ t[empty].dir
    BY <1>1, <1>3, <2>1
  <2>3. DOMAIN t \subseteq Seq(Names)
    BY <1>1, <1>4, <1>6
  <2>4. QED BY <1>2, <1>7, <2>2, <2>3 DEF IsTree, empty
<1>9. ASSUME NEW q, \A a \in Added : a \notin Ancestors(q) /\ a # q
      PROVE  get_directory_opt(t, q) = get_directory_opt(tree, q)
  <2>1. \A r \in Ancestors(q) \cup {q} : r \in DOMAIN t <=> r \in DOMAIN tree
    BY <1>6, <1>9
  <2>2. QED BY <1>3, <2>1 DEF get_directory_opt
<1>10. \A p \in Seq(Names) : p \in Ancestors(p)
  <2>1. ASSUME NEW p \in Seq(Names) PROVE p \in Ancestors(p)
    <3>1. SubSeq(p, 1, Len(p)) = p /\ Len(p) \in 0 .. Len(p)
      BY InSelf DEF In
    <3>2. QED BY <3>1 DEF Ancestors
  <2>2. QED BY <2>1
<1>11. get_directory_opt(t, usr) = get_directory_opt(tree, usr) /\ get_directory_opt(t, run) = get_directory_opt(tree, run)
  <2>1. \A a \in Added : a # usr /\ a # run
    BY <1>4, <1>10
  <2>2. QED BY <1>4, <1>9, <2>1
<1>12. CanTransform(t)
  BY <1>11 DEF CanTransform, get_directory, usr, run
<1>13. QED BY <1>8, <1>12

\* The image of a container is the same from its layers and from its root, but for
\* the attributes.
LEMMA MountFiltered ==
  ASSUME Fits(tree), CanTransform(tree)
  PROVE  read_container_root(Mounted, {}) = filter_xattrs(transform_for_oci(tree), ContainerXattrs)
<1> DEFINE empty == <<>> usr == <<"usr">> run == <<"run">>
<1>1. PICK t : t = read_filesystem_filtered(Mounted, {}, ContainerXattrs)
  OBVIOUS
<1>2. ReadAs(t)
  BY <1>1, MountReads
<1>3. IsTree(t) /\ CanTransform(t) /\ IsTree(tree)
  BY <1>2, ReadIsTree DEF Fits
<1>4. PICK u, v : u = transform_for_oci(t) /\ v = transform_for_oci(tree)
  OBVIOUS
<1>5. TransformedAs(t, u) /\ TransformedAs(tree, v)
  BY <1>3, <1>4, TransformIs
<1>6. PICK stat1, stat2 : /\ stat1 = [t[run].stat EXCEPT !.mtime = t[usr].stat.mtime]
                          /\ stat2 = [tree[run].stat EXCEPT !.mtime = tree[usr].stat.mtime]
  OBVIOUS
<1>7. /\ u = [p \in DOMAIN u |-> u[p]]
      /\ DOMAIN u = {p \in DOMAIN t : ~Below(run, p)}
      /\ \A p \in DOMAIN u \ {empty, run} : u[p] = t[p]
      /\ u[empty] = WithStat(t[empty], t[usr].stat)
      /\ run \in DOMAIN u => u[run] = WithStat(t[run], stat1)
  BY <1>5, <1>6 DEF TransformedAs
<1>8. /\ usr \in DOMAIN tree
      /\ DOMAIN v = {p \in DOMAIN tree : ~Below(run, p)}
      /\ \A p \in DOMAIN v \ {empty, run} : v[p] = tree[p]
      /\ v[empty] = WithStat(tree[empty], tree[usr].stat)
      /\ run \in DOMAIN tree => tree[run].dir
      /\ run \in DOMAIN v => v[run] = WithStat(tree[run], stat2)
  BY <1>5, <1>6 DEF TransformedAs
<1>9. run # empty /\ usr # empty /\ usr # run
  OBVIOUS
<1>10. /\ DOMAIN t = DOMAIN tree \cup Added
       /\ \A p \in DOMAIN tree \ {empty} : t[p] = KeptNode(tree[p])
       /\ \E stat : IsStat(stat) /\ t[empty] = Dir(stat)
  BY <1>3, <1>2 DEF ReadAs, IsTree
<1>11. \A q \in Added : Below(run, q)
  BY AddedIs
<1>12. empty \in DOMAIN tree /\ tree[empty].dir /\ tree[usr].dir
  <2>1. get_directory(tree, usr)
    BY DEF CanTransform
  <2>2. QED BY <1>3, <2>1, DirectoryIs DEF IsTree
<1> HIDE DEF empty, usr, run
<1>13. DOMAIN u = DOMAIN v
  BY <1>7, <1>8, <1>10, <1>11
<1>14. \A p \in DOMAIN tree : NodeFits(tree[p])
  BY DEF Fits
<1>15. ASSUME NEW p \in DOMAIN tree, tree[p].dir, p # empty
       PROVE  IsStat(tree[p].stat) /\ t[p] = Dir(Kept(tree[p].stat)) /\ t[p].stat = Kept(tree[p].stat)
  <2>1. IsStat(tree[p].stat) /\ tree[p] = Dir(tree[p].stat)
    BY <1>14, <1>15, DirFits
  <2>2. t[p] = Dir(Kept(tree[p].stat))
    BY <1>10, <1>15, <2>1, KeptNodeIs
  <2>3. QED BY <2>1, <2>2, DirFields
<1>16. ASSUME NEW s, IsStat(s), NEW s1 PROVE WithStat(Dir(s), s1) = Dir(s1)
  <2>1. IsNode(Dir(s)) /\ Dir(s).dir = TRUE
    BY DEF Dir, IsNode
  <2>2. QED BY <2>1, DirWithStat
<1>17. \A p \in DOMAIN v : u[p] = KeptNode(v[p])
  <2>1. ASSUME NEW p \in DOMAIN v, p \notin {empty, run} PROVE u[p] = KeptNode(v[p])
    <3>1. p \in DOMAIN tree /\ u[p] = t[p] /\ v[p] = tree[p]
      BY <1>7, <1>8, <1>13, <2>1
    <3>2. QED BY <1>10, <2>1, <3>1
  <2>2. u[empty] = KeptNode(v[empty])
    <3>1. t[usr].stat = Kept(tree[usr].stat)
      BY <1>8, <1>9, <1>12, <1>15
    <3>2. u[empty] = Dir(Kept(tree[usr].stat))
      BY <1>7, <1>10, <1>16, <3>1
    <3>3. IsStat(tree[empty].stat) /\ tree[empty] = Dir(tree[empty].stat)
      BY <1>12, <1>14, DirFits
    <3>4. v[empty] = Dir(tree[usr].stat)
      BY <1>8, <1>16, <3>3
    <3>5. QED BY <3>2, <3>4, KeptNodeIs
  <2>3. ASSUME run \in DOMAIN v PROVE u[run] = KeptNode(v[run])
    <3>1. run \in DOMAIN tree /\ tree[run].dir
      BY <1>8, <2>3
    <3>2. /\ IsStat(tree[run].stat) /\ t[run] = Dir(Kept(tree[run].stat)) /\ t[run].stat = Kept(tree[run].stat)
          /\ IsStat(tree[usr].stat) /\ t[usr].stat = Kept(tree[usr].stat)
      BY <1>8, <1>9, <1>12, <1>15, <3>1
    <3>3. Kept(tree[usr].stat).mtime = tree[usr].stat.mtime
      BY <3>2, KeptIs
    <3>4. stat1 = [Kept(tree[run].stat) EXCEPT !.mtime = tree[usr].stat.mtime]
      BY <1>6, <3>2, <3>3
    <3>5. Kept(stat2) = stat1
      BY <1>6, <3>2, <3>4, KeptIs
    <3>6. IsStat(Kept(tree[run].stat))
      BY <3>2, KeptIs
    <3>7. u[run] = Dir(stat1)
      BY <1>7, <1>13, <1>16, <2>3, <3>2, <3>6
    <3>8. tree[run] = Dir(tree[run].stat)
      BY <1>14, <3>1, DirFits
    <3>9. v[run] = Dir(stat2)
      BY <1>8, <1>16, <2>3, <3>2, <3>8
    <3>10. QED BY <3>5, <3>7, <3>9, KeptNodeIs
  <2>4. QED BY <2>1, <2>2, <2>3
<1>18. u = [p \in DOMAIN v |-> KeptNode(v[p])]
  BY <1>7, <1>13, <1>17
<1>19. filter_xattrs(v, ContainerXattrs) = u
  BY <1>18, FilterIs
<1>20. read_container_root(Mounted, {}) = u
  BY <1>1, <1>4 DEF read_container_root
<1>21. QED BY <1>4, <1>19, <1>20

\* It is the same altogether if there are no others.
LEMMA MountAgrees == Fits(tree) => SameFromMount
<1> SUFFICES ASSUME Fits(tree), CanTransform(tree) PROVE SameFromMount
  BY DEF SameFromMount
<1>1. PICK v, scan : v = transform_for_oci(tree) /\ scan = read_container_root(Mounted, {})
  OBVIOUS
<1>2. scan = filter_xattrs(v, ContainerXattrs)
  BY <1>1, MountFiltered
<1>3. Fits(v)
  BY <1>1, TransformFits
<1>4. TransformedAs(tree, v)
  BY <1>1, TransformIs DEF Fits
<1>5. v = [p \in DOMAIN v |-> v[p]]
  BY <1>4 DEF TransformedAs
<1>6. scan = [p \in DOMAIN v |-> KeptNode(v[p])]
  BY <1>2, FilterIs
<1>7. scan = v <=> \A p \in DOMAIN v : KeptNode(v[p]) = v[p]
  BY <1>5, <1>6
<1>8. \A p \in DOMAIN v : KeptNode(v[p]) = v[p] <=> DOMAIN v[p].stat.xattrs \subseteq ContainerXattrs
  BY <1>3, KeptSame DEF Fits
<1>9. scan = v <=> BringsContainerXattrs(v)
  BY <1>7, <1>8 DEF BringsContainerXattrs
<1>10. QED BY <1>1, <1>2, <1>9 DEF SameFromMount

\* A leaf with another content.
LEMMA LeafWithContent ==
  ASSUME NEW no, NEW rc, NEW stat, NEW content, NEW c
  PROVE  [[dir |-> no, rc |-> rc, stat |-> stat, content |-> content] EXCEPT !.content = c]
           = [dir |-> no, rc |-> rc, stat |-> stat, content |-> c]
  OBVIOUS

\* A read() that is cut short changes the content of its own file.
OtherContent(node, other) ==
  node # other =>
    /\ ~other.dir
    /\ node = [other EXCEPT !.content = node.content]
    /\ CutShort(node.content, other.content)

LEMMA CutShortIs ==
  ASSUME NEW node, NodeFits(node), ~node.dir, NEW p, NEW short
  PROVE  /\ OtherContent(ReadNode(Inode(node, p), short), ReadNode(Inode(node, p), {}))
         /\ ReadNode(Inode(node, p), {}).rc = node.rc
         /\ node.rc \notin short => ReadNode(Inode(node, p), short) = ReadNode(Inode(node, p), {})
<1> DEFINE inode == Inode(node, p)
<1>1. PICK rc, stat, content, cut :
        /\ rc = node.rc /\ stat = Labelled(node.stat) /\ content = node.content
        /\ cut = read_leaf_content(inode, FALSE)
  OBVIOUS
<1>2. IsContent(content)
  BY <1>1, LeafFits
<1>3. inode = FileOf(content, TRUE, rc, stat)
  BY <1>1 DEF Inode
<1> HIDE DEF inode
<1>4. inode.dir = FALSE /\ inode.ino = rc /\ inode.stat = stat /\ ReadAsContent(inode, content)
  <2>1. /\ FileHas(FileOf(content, TRUE, rc, stat), rc, stat)
        /\ ReadAsContent(FileOf(content, TRUE, rc, stat), content)
    BY <1>2, WholeFileReads
  <2>2. QED BY <1>3, <2>1 DEF FileHas
<1>5. read_leaf_content(inode, TRUE) = content /\ CutShort(cut, content)
  BY <1>1, <1>4 DEF ReadAsContent
<1>6. ReadNode(inode, {}) = LeafOf(rc, stat, content)
  BY <1>4, WholeReads
<1>7. ReadNode(inode, short) = LeafOf(rc, stat, IF rc \in short THEN cut ELSE content)
  <2>1. read_leaf(inode, short) =
          LeafOf(inode.ino, inode.stat,
                 IF inode.ino \in short THEN read_leaf_content(inode, FALSE) ELSE read_leaf_content(inode, TRUE))
    BY ReadLeafIs
  <2>2. ReadNode(inode, short) = read_leaf(inode, short)
    BY <1>4 DEF ReadNode
  <2>3. QED BY <1>1, <1>4, <1>5, <2>1, <2>2
<1>8. \A c : /\ LeafOf(rc, stat, c).dir = FALSE /\ LeafOf(rc, stat, c).rc = rc
            /\ LeafOf(rc, stat, c).content = c
  BY DEF LeafOf
<1>9. \A c : [LeafOf(rc, stat, content) EXCEPT !.content = c] = LeafOf(rc, stat, c)
  <2>1. PICK no : no = FALSE
    OBVIOUS
  <2>2. \A c : [[dir |-> no, rc |-> rc, stat |-> stat, content |-> content] EXCEPT !.content = c]
                = [dir |-> no, rc |-> rc, stat |-> stat, content |-> c]
    BY LeafWithContent
  <2>3. QED BY <2>1, <2>2 DEF LeafOf
<1>10. CASE rc \in short
  <2>1. ReadNode(inode, short) = LeafOf(rc, stat, cut)
    BY <1>7, <1>10
  <2>2. OtherContent(ReadNode(inode, short), ReadNode(inode, {}))
    BY <1>5, <1>6, <1>8, <1>9, <2>1 DEF OtherContent
  <2>3. QED BY <1>1, <1>6, <1>8, <1>10, <2>2 DEF inode
<1>11. CASE rc \notin short
  <2>1. ReadNode(inode, short) = ReadNode(inode, {})
    BY <1>6, <1>7, <1>11
  <2>2. OtherContent(ReadNode(inode, short), ReadNode(inode, {}))
    BY <2>1 DEF OtherContent
  <2>3. QED BY <1>1, <1>6, <1>8, <2>1, <2>2 DEF inode
<1>12. QED BY <1>10, <1>11

\* The container's root is read in full but for the files that are cut short.
LEMMA CutShortAgrees == Fits(tree) => ShortReadsShow
<1> SUFFICES ASSUME Fits(tree), NEW short \in SUBSET Inodes
             PROVE  LET whole == read_filesystem(Mounted, {})
                        scan == read_filesystem(Mounted, short)
                    IN  /\ DOMAIN scan = DOMAIN whole
                        /\ \A p \in DOMAIN scan :
                             scan[p] # whole[p] =>
                               /\ ~whole[p].dir /\ whole[p].rc \in short
                               /\ scan[p] = [whole[p] EXCEPT !.content = scan[p].content]
                               /\ CutShort(scan[p].content, whole[p].content)
  BY DEF ShortReadsShow
<1>1. PICK m, whole, scan : /\ m = Mounted
                            /\ whole = read_filesystem(m, {})
                            /\ scan = read_filesystem(m, short)
  OBVIOUS
<1>2. /\ \A p \in DOMAIN tree : p \in DOMAIN m /\ m[p] = Inode(tree[p], p)
      /\ \A p \in DOMAIN m \ DOMAIN tree : m[p] = [dir |-> TRUE, ino |-> 0, stat |-> HostStat]
  BY <1>1 DEF Mounted
<1>3. /\ DOMAIN whole = DOMAIN m /\ DOMAIN scan = DOMAIN m
      /\ \A p \in DOMAIN m : whole[p] = ReadNode(m[p], {}) /\ scan[p] = ReadNode(m[p], short)
  BY <1>1 DEF read_filesystem, ReadNode
<1>4. \A inode : inode.dir = TRUE => ReadNode(inode, {}) = ReadNode(inode, short)
  BY DEF ReadNode
<1>5. ASSUME NEW p \in DOMAIN m, scan[p] # whole[p]
      PROVE  OtherContent(scan[p], whole[p]) /\ whole[p].rc \in short
  <2>1. m[p].dir # TRUE
    BY <1>3, <1>4, <1>5
  <2>2. p \in DOMAIN tree
    <3>1. PICK dir : dir = [dir |-> TRUE, ino |-> 0, stat |-> HostStat]
      OBVIOUS
    <3>2. dir.dir = TRUE
      BY <3>1
    <3>3. p \notin DOMAIN tree => m[p] = dir
      BY <1>2, <3>1
    <3>4. QED BY <2>1, <3>2, <3>3
  <2>3. NodeFits(tree[p])
    BY <2>2 DEF Fits
  <2>4. ~tree[p].dir
    <3>1. CASE tree[p].dir
      <4>1. Inode(tree[p], p).dir = TRUE
        BY <3>1 DEF Inode
      <4>2. QED BY <1>2, <2>1, <2>2, <4>1
    <3>2. QED BY <3>1
  <2>5. m[p] = Inode(tree[p], p)
    BY <1>2, <2>2
  <2>6. /\ OtherContent(ReadNode(m[p], short), ReadNode(m[p], {}))
        /\ ReadNode(m[p], {}).rc = tree[p].rc
        /\ tree[p].rc \notin short => ReadNode(m[p], short) = ReadNode(m[p], {})
    BY <2>3, <2>4, <2>5, CutShortIs
  <2>7. QED BY <1>3, <1>5, <2>6
<1>6. \A p \in DOMAIN scan :
        scan[p] # whole[p] =>
          /\ ~whole[p].dir /\ whole[p].rc \in short
          /\ scan[p] = [whole[p] EXCEPT !.content = scan[p].content]
          /\ CutShort(scan[p].content, whole[p].content)
  BY <1>3, <1>5 DEF OtherContent
<1>7. QED BY <1>1, <1>3, <1>6

(***************************************************************************)
(* The unpacked tree.                                                      *)
(***************************************************************************)

\* A walk visits all paths, each once, one after the other.
Walk(order, S) ==
  /\ order \in Seq(S) /\ DOMAIN order = 1 .. Len(order)
  /\ \A p \in S : \E i \in 1 .. Len(order) : order[i] = p
  /\ \A i, j \in 1 .. Len(order) : order[i] \in S /\ (i < j <=> VisitedBefore(order[i], order[j]))
                                   /\ (order[i] = order[j] => i = j)

\* write_to_path visits the paths of a tree in such a walk: their names have an order.
LEMMA InOrderIs ==
  ASSUME NEW S \in SUBSET Seq(Ordered), IsFiniteSet(S)
  PROVE  Walk(InOrder(S, VisitedBefore), S)
<1> DEFINE N == Ordered
           n == Cardinality(S)
           order == InOrder(S, VisitedBefore)
<1>1. PICK rank : rank = [m \in N |-> Rank(m)]
  OBVIOUS
<1>2. ASSUME NEW m \in N PROVE Rank(m) \in Nat /\ NameOrder[Rank(m)] = m
  <2>1. \E i \in DOMAIN NameOrder : NameOrder[i] = m
    BY DEF Ordered
  <2>2. Rank(m) \in DOMAIN NameOrder /\ NameOrder[Rank(m)] = m
    BY <2>1 DEF Rank
  <2>3. QED BY <2>2, ImageConstants
<1> HIDE DEF N
<1>3. (\A m \in N : rank[m] \in Nat) /\ \A m, o \in N : rank[m] = rank[o] => m = o
  <2>1. \A m \in N : rank[m] = Rank(m)
    BY <1>1
  <2>2. QED BY <1>2, <2>1
<1>4. S \in SUBSET Seq(N)
  BY DEF N
<1>5. ASSUME NEW p \in S, NEW q \in S PROVE VisitedSooner(rank, p, q) <=> VisitedBefore(p, q)
  <2>1. p \in Seq(N) /\ q \in Seq(N)
    BY <1>4
  <2>2. ASSUME NEW i \in 1 .. Len(p), i <= Len(q)
        PROVE  rank[p[i]] < rank[q[i]] <=> NameBefore(p[i], q[i])
    <3>1. i \in 1 .. Len(q)
      BY <2>1, <2>2
    <3>2. p[i] \in N /\ q[i] \in N
      BY <2>1, <3>1, ElementOfSeq
    <3>3. QED BY <1>1, <3>2 DEF NameBefore
  <2>3. VisitedSooner(rank, p, q) <=>
          \/ p # q /\ Len(p) <= Len(q) /\ SubSeq(q, 1, Len(p)) = p
          \/ \E i \in 1 .. Len(p) :
               i <= Len(q) /\ SubSeq(p, 1, i - 1) = SubSeq(q, 1, i - 1) /\ rank[p[i]] < rank[q[i]]
    BY <2>1, SoonerIs
  <2>4. QED BY <2>2, <2>3 DEF VisitedBefore, Below, In
<1>6. PICK before : VisitOrder(before, rank, S)
  BY DEF VisitOrder
<1>7. /\ before \in [S -> SUBSET S]
      /\ \A q \in S : q \notin before[q]
      /\ \A p, q \in S : p \in before[q] => before[p] \subseteq before[q]
      /\ \A p, q \in S : p = q \/ p \in before[q] \/ q \in before[p]
  BY <1>3, <1>4, <1>6, SoonerOrders
<1>8. \A p, q \in S : p \in before[q] <=> VisitedBefore(p, q)
  BY <1>5, <1>6 DEF VisitOrder
<1>9. \A q \in S : before[q] = {y \in S : VisitedBefore(y, q)}
  BY <1>7, <1>8
<1>10. order = [i \in 1 .. n |-> CHOOSE x \in S : Cardinality({y \in S : VisitedBefore(y, x)}) = i - 1]
  <2>1. InOrder(S, VisitedBefore)
          = [i \in 1 .. Cardinality(S) |-> CHOOSE x \in S : Cardinality({y \in S : VisitedBefore(y, x)}) = i - 1]
    BY DEF InOrder
  <2>2. QED BY <2>1
<1> HIDE DEF order
<1>11. ListedBy(order, before, S, n)
  <2> DEFINE G(i) == CHOOSE x \in S : Cardinality({y \in S : VisitedBefore(y, x)}) = i - 1
  <2>1. DOMAIN order = 1 .. n /\ order = [i \in DOMAIN order |-> order[i]]
    <3>1. order = [i \in 1 .. n |-> G(i)]
      BY <1>10
    <3> HIDE DEF G, n
    <3>2. QED BY <3>1
  <2>2. ASSUME NEW i \in 1 .. n, NEW b \in S, Cardinality(before[b]) = i - 1
        PROVE  order[i] \in S /\ Cardinality(before[order[i]]) = i - 1
    <3>1. Cardinality({y \in S : VisitedBefore(y, b)}) = i - 1
      BY <1>9, <2>2
    <3>2. order[i] = CHOOSE x \in S : Cardinality({y \in S : VisitedBefore(y, x)}) = i - 1
      BY <1>10
    <3>3. order[i] \in S /\ Cardinality({y \in S : VisitedBefore(y, order[i])}) = i - 1
      BY <3>1, <3>2
    <3>4. QED BY <1>9, <3>3
  <2>3. QED BY <2>1, <2>2 DEF ListedBy
<1>12. n = Cardinality(S)
  OBVIOUS
<1> HIDE DEF n
<1>13. /\ n \in Nat /\ order \in Seq(S) /\ Len(order) = n /\ DOMAIN order = 1 .. n
       /\ \A x \in S : \E i \in 1 .. n : order[i] = x
       /\ \A i, j \in 1 .. n : order[i] \in S /\ (i < j <=> order[i] \in before[order[j]])
                               /\ (order[i] = order[j] => i = j)
  BY <1>7, <1>11, <1>12, Numbering
<1>14. Walk(order, S)
  BY <1>8, <1>13 DEF Walk
<1>15. QED BY <1>14 DEF order

\* What an unpacked tree is read as.
ReadsBack(t, short) ==
  /\ DOMAIN t = DOMAIN tree
  /\ \A p \in DOMAIN t : t[p].dir = tree[p].dir
  /\ \A p \in Leaves : /\ t[p].content = tree[p].content \/ p \in short
                       /\ tree[p].content.type = "external" \/ t[p].content = tree[p].content
  /\ \A p, q \in DOMAIN t : SameLeaf(t, p, q) => p = q

\* What is unpacked is read as it was; each path has an inode of its own.
LEMMA UnpackAgrees == Fits(tree) => UnpackedReadsBack
<1> SUFFICES ASSUME Fits(tree), NEW short \in SUBSET Leaves
             PROVE  ReadsBack(read_filesystem(write_to_path(tree, short), {}), short)
  BY DEF UnpackedReadsBack, ReadsBack
<1> DEFINE disk == write_to_path(tree, short)
           number == InOrder(DOMAIN tree, VisitedBefore)
           at(p) == CHOOSE i \in DOMAIN number : number[i] = p
           t == read_filesystem(disk, {})
<1>1. IsFiniteSet(DOMAIN tree) /\ DOMAIN tree \in SUBSET Seq(Ordered) /\ \A p \in DOMAIN tree : NodeFits(tree[p])
  BY DEF Fits
<1>2. Walk(number, DOMAIN tree)
  BY <1>1, InOrderIs
<1>3. disk = [p \in DOMAIN tree |->
         IF tree[p].dir
         THEN [dir |-> TRUE, stat |-> IF p = <<>> THEN Uninitialized ELSE WrittenStat(tree[p])]
         ELSE FileOf(tree[p].content, p \notin short, at(p), WrittenStat(tree[p]))]
  BY DEF write_to_path
<1> HIDE DEF disk, number
<1>4. DOMAIN t = DOMAIN disk /\ \A p \in DOMAIN disk : t[p] = ReadNode(disk[p], {})
  BY DEF read_filesystem, ReadNode
<1> HIDE DEF t
<1>5. \A p \in DOMAIN tree : at(p) \in DOMAIN number /\ number[at(p)] = p
  BY <1>2 DEF Walk
<1> HIDE DEF at
<1>6. DOMAIN t = DOMAIN tree
  BY <1>3, <1>4
<1>7. ASSUME NEW p \in DOMAIN tree, tree[p].dir
      PROVE  \E stat : t[p] = Dir(stat)
  <2>1. PICK stat : stat = IF p = <<>> THEN Uninitialized ELSE WrittenStat(tree[p])
    OBVIOUS
  <2>2. disk[p] = [dir |-> TRUE, stat |-> stat]
    BY <1>3, <1>7, <2>1
  <2>3. disk[p].dir = TRUE /\ disk[p].stat = stat
    BY <2>2
  <2>4. t[p] = Dir(stat)
    BY <1>4, <1>6, <2>3 DEF ReadNode
  <2>5. QED BY <2>1, <2>4
<1>8. ASSUME NEW p \in DOMAIN tree, ~tree[p].dir
      PROVE  \E stat, content : /\ t[p] = LeafOf(at(p), stat, content)
                                /\ content = tree[p].content \/ p \in short
                                /\ tree[p].content.type = "external" \/ content = tree[p].content
  <2>1. IsContent(tree[p].content)
    BY <1>1, <1>8, LeafFits
  <2>2. PICK stat, whole, inode :
          /\ stat = WrittenStat(tree[p]) /\ whole \in BOOLEAN /\ whole = (p \notin short)
          /\ inode = FileOf(tree[p].content, whole, at(p), stat)
    OBVIOUS
  <2>3. disk[p] = inode
    BY <1>3, <1>8, <2>2
  <2>4. /\ inode.dir = FALSE /\ inode.ino = at(p) /\ inode.stat = stat
        /\ whole \/ tree[p].content.type # "external" => ReadAsContent(inode, tree[p].content)
    <3>1. \A w \in BOOLEAN :
            /\ FileHas(FileOf(tree[p].content, w, at(p), stat), at(p), stat)
            /\ w \/ tree[p].content.type # "external"
                 => ReadAsContent(FileOf(tree[p].content, w, at(p), stat), tree[p].content)
      BY <2>1, FileReads
    <3>2. QED BY <2>2, <3>1 DEF FileHas
  <2>5. t[p] = ReadNode(inode, {})
    BY <1>4, <1>6, <2>3
  <2>6. t[p] = LeafOf(at(p), stat, read_leaf_content(inode, TRUE))
    <3>1. read_leaf(inode, {}) = LeafOf(inode.ino, inode.stat, read_leaf_content(inode, TRUE))
      BY ReadLeafIs
    <3>2. QED BY <2>4, <2>5, <3>1 DEF ReadNode
  <2>7. whole \/ tree[p].content.type # "external" => read_leaf_content(inode, TRUE) = tree[p].content
    BY <2>4 DEF ReadAsContent
  <2>8. whole <=> p \notin short
    BY <2>2
  <2>9. QED BY <2>6, <2>7, <2>8
<1>9. \A stat : Dir(stat).dir = TRUE
  BY DirFields
<1>10. \A rc, stat, content : /\ LeafOf(rc, stat, content).dir = FALSE /\ LeafOf(rc, stat, content).rc = rc
                              /\ LeafOf(rc, stat, content).content = content
  BY DEF LeafOf
<1>11. ASSUME NEW p \in DOMAIN tree PROVE t[p].dir = tree[p].dir
  <2>1. CASE tree[p].dir
    <3>1. tree[p].dir = TRUE
      BY <1>1, <2>1, DirFits
    <3>2. QED BY <1>7, <1>9, <2>1, <3>1
  <2>2. CASE ~tree[p].dir
    <3>1. tree[p].dir = FALSE
      BY <1>1, <2>2, LeafFits
    <3>2. PICK stat, content : t[p] = LeafOf(at(p), stat, content)
      BY <1>8, <2>2
    <3>3. t[p].dir = FALSE
      BY <1>10, <3>2
    <3>4. QED BY <3>1, <3>3
  <2>3. QED BY <2>1, <2>2
<1>12. ASSUME NEW p \in Leaves
       PROVE  /\ t[p].rc = at(p)
              /\ t[p].content = tree[p].content \/ p \in short
              /\ tree[p].content.type = "external" \/ t[p].content = tree[p].content
  <2>1. p \in DOMAIN tree /\ ~tree[p].dir
    BY DEF Leaves
  <2>2. PICK stat, content : /\ t[p] = LeafOf(at(p), stat, content)
                             /\ content = tree[p].content \/ p \in short
                             /\ tree[p].content.type = "external" \/ content = tree[p].content
    BY <1>8, <2>1
  <2>3. t[p].rc = at(p) /\ t[p].content = content
    BY <1>10, <2>2
  <2>4. QED BY <2>2, <2>3
<1>13. ASSUME NEW p \in DOMAIN tree, NEW q \in DOMAIN tree, SameLeaf(t, p, q) PROVE p = q
  <2>1. p \in Leaves /\ q \in Leaves /\ t[p].rc = t[q].rc
    BY <1>11, <1>13 DEF SameLeaf, Leaves
  <2>2. at(p) = at(q)
    BY <1>12, <2>1
  <2>3. QED BY <1>5, <2>2
<1>14. QED BY <1>6, <1>11, <1>12, <1>13 DEF ReadsBack, t, disk

(***************************************************************************)
(* Dumpfiles: what the lines of a tree say, and what is made of them.      *)
(***************************************************************************)

\* What is empty is written as "-", and so is "-" itself.
LEMMA Escaped ==
  /\ IsText("") /\ write_escaped("") = "-"
  /\ \A s : IsText(s) => write_escaped(s) = IF s = "" THEN "-" ELSE s
<1>1. ASSUME NEW s, IsText(s) PROVE write_escaped(s) = IF s = "" THEN "-" ELSE s
  BY <1>1 DEF write_escaped, IsText
<1>2. ASSUME NEW s, NEW e, s = e, NEW n, n = Len(s), n = 0 PROVE Len(s) \in Nat /\ (Len(s) = 0 <=> s = e)
  BY <1>2
<1>3. IsText("")
  <2>1. PICK s : s = ""
    OBVIOUS
  <2>2. PICK n : n = Len(s)
    OBVIOUS
  <2>3. n = 0
    <3>1. n = Len("")
      BY <2>1, <2>2
    <3>2. QED BY <3>1, Lengths
  <2>4. Len(s) \in Nat /\ (Len(s) = 0 <=> s = "")
    BY <1>2, <2>1, <2>2, <2>3
  <2>5. QED BY <2>1, <2>4 DEF IsText
<1>4. QED BY <1>1, <1>3

\* The fields of a line that are told from others.
LineOf(l, p, stat) ==
  /\ l.path = p /\ ~l.hardlink /\ l.numeric /\ l.mtime = stat.mtime
  /\ entry_to_stat(l) = [mode |-> stat.mode, mtime |-> stat.mtime, xattrs |-> Attrs(stat)]

EntryOf(l, p, stat, ifmt, size, rdev, payload, content, digest) ==
  /\ LineOf(l, p, stat) /\ l.ifmt = ifmt /\ l.size = size /\ l.rdev = rdev /\ l.digest = digest
  /\ l.payload = write_escaped(payload) /\ l.content = write_escaped(content)

\* What write_entry has been given.
LEMMA EntryLine ==
  ASSUME NEW p, NEW stat, NEW ifmt, NEW size, NEW nlink, NEW rdev, NEW payload, NEW content, NEW digest
  PROVE  EntryOf(write_entry(p, stat, ifmt, size, nlink, rdev, payload, content, digest),
                 p, stat, ifmt, size, rdev, payload, content, digest)
<1> DEFINE l == write_entry(p, stat, ifmt, size, nlink, rdev, payload, content, digest)
<1>1. PICK no, yes : no = FALSE /\ yes = TRUE
  OBVIOUS
<1>2. PICK attrs, payload1, content1 :
        attrs = Attrs(stat) /\ payload1 = write_escaped(payload) /\ content1 = write_escaped(content)
  OBVIOUS
<1>3. l = [path |-> p, size |-> size, hardlink |-> no, ifmt |-> ifmt, mode |-> stat.mode,
           numeric |-> yes, nlink |-> nlink, rdev |-> rdev, mtime |-> stat.mtime,
           payload |-> payload1, content |-> content1, digest |-> digest, xattrs |-> attrs]
  BY <1>1, <1>2 DEF write_entry
<1>4. /\ l.path = p /\ l.size = size /\ l.hardlink = no /\ l.ifmt = ifmt /\ l.mode = stat.mode
      /\ l.numeric = yes /\ l.rdev = rdev /\ l.mtime = stat.mtime
      /\ l.payload = payload1 /\ l.content = content1 /\ l.digest = digest /\ l.xattrs = attrs
  BY <1>3
<1> HIDE DEF l
<1>5. EntryOf(l, p, stat, ifmt, size, rdev, payload, content, digest)
  BY <1>1, <1>2, <1>4 DEF EntryOf, LineOf, entry_to_stat
<1>6. QED BY <1>5 DEF l

\* The line of a directory is one if its time is not before 1970.
LEMMA DirectoryLine ==
  ASSUME NEW p, NEW stat, NEW nlink, NEW l, l = write_directory(p, stat, nlink)
  PROVE  /\ LineOf(l, p, stat)
         /\ Parse(l) # "error" <=> stat.mtime >= 0
         /\ Parse(l) # "error" => Parse(l) = "directory"
<1>1. /\ LineOf(l, p, stat) /\ l.ifmt = "directory" /\ l.rdev = 0 /\ l.digest = "-"
      /\ l.content = write_escaped("")
  <2>1. l = write_entry(p, stat, "directory", 0, nlink, 0, "", "", "-")
    BY DEF write_directory
  <2>2. EntryOf(l, p, stat, "directory", 0, 0, "", "", "-")
    BY <2>1, EntryLine
  <2>3. QED BY <2>2 DEF EntryOf
<1>2. l.content = "-"
  BY <1>1, Escaped
<1>3. ItemOf(l) = "directory"
  BY <1>1, <1>2 DEF ItemOf, LineOf, check_nonregfile, check_rdev, optional_str
<1>4. QED BY <1>1, <1>3 DEF Parse, LineOf

\* What a line cannot say.
Unwritable(c) == c.type = "socket" \/ (c.type = "symlink" /\ c.target \in {"", "-"})

LeafLineOf(l, c, mtime) ==
  /\ Parse(l) # "error" <=> mtime >= 0 /\ ~Unwritable(c)
  /\ Parse(l) \notin {"directory", "hardlink"}
  /\ Parse(l) = "external" => optional_str(l.digest)
  /\ Parse(l) # "error" /\ ~(c.type = "inline" /\ c.data = "-") => ContentOf(l) = c

\* The line of a leaf is parsed as its content, but for those that are refused.
LEMMA LeafLine ==
  ASSUME NEW p, NEW stat, NEW nlink, NEW c, IsContent(c), NEW l, l = write_leaf(p, stat, c, nlink)
  PROVE  LineOf(l, p, stat) /\ LeafLineOf(l, c, stat.mtime)
<1>1. /\ IsText("") /\ write_escaped("") = "-"
      /\ \A s : IsText(s) => write_escaped(s) = IF s = "" THEN "-" ELSE s
  BY Escaped
<1>2. CASE c.type = "inline"
  <2>1. /\ c = [type |-> "inline", data |-> c.data]
        /\ IsText(c.data) /\ Len(c.data) <= INLINE_CONTENT_MAX
    BY <1>2 DEF IsContent
  <2>2. /\ LineOf(l, p, stat) /\ l.ifmt = "regular" /\ l.rdev = 0 /\ l.digest = "-"
        /\ l.payload = write_escaped("") /\ l.content = write_escaped(c.data)
    <3>1. l = write_entry(p, stat, "regular", Len(c.data), nlink, 0, "", c.data, "-")
      BY <1>2 DEF write_leaf
    <3>2. EntryOf(l, p, stat, "regular", Len(c.data), 0, "", c.data, "-")
      BY <3>1, EntryLine
    <3>3. QED BY <3>2 DEF EntryOf
  <2>3. l.payload = "-" /\ l.content = IF c.data = "" THEN "-" ELSE c.data
    BY <1>1, <2>1, <2>2
  <2>4. Len(l.content) <= MAX_INLINE_CONTENT
    <3>1. MAX_INLINE_CONTENT \in Nat \ {0} /\ INLINE_CONTENT_MAX \in Nat /\ INLINE_CONTENT_MAX <= MAX_INLINE_CONTENT
      BY ImageConstants
    <3>2. CASE c.data = ""
      <4>1. PICK n : n = Len(l.content)
        OBVIOUS
      <4>2. n = Len("-")
        BY <2>3, <3>2, <4>1
      <4>3. n = 1
        BY <4>2, Lengths
      <4>4. QED BY <3>1, <4>1, <4>3
    <3>3. CASE c.data # ""
      <4>1. PICK n : n = Len(c.data)
        OBVIOUS
      <4>2. n \in Nat /\ n <= INLINE_CONTENT_MAX
        BY <2>1, <4>1 DEF IsText
      <4>3. n <= MAX_INLINE_CONTENT
        BY <3>1, <4>2
      <4>4. Len(l.content) = n
        BY <2>3, <3>3, <4>1
      <4>5. QED BY <4>3, <4>4
    <3>4. QED BY <3>2, <3>3
  <2>5. ItemOf(l) = "inline"
    BY <2>2, <2>3, <2>4 DEF ItemOf, LineOf, check_rdev, optional_str
  <2>6. Parse(l) = IF stat.mtime >= 0 THEN "inline" ELSE "error"
    BY <2>2, <2>5 DEF Parse, LineOf
  <2>7. ASSUME Parse(l) # "error", c.data # "-" PROVE ContentOf(l) = c
    <3>1. Parse(l) = "inline"
      BY <2>6, <2>7
    <3>2. (IF optional_str(l.content) THEN l.content ELSE "") = c.data
      BY <2>3, <2>7 DEF optional_str
    <3>3. QED BY <2>1, <3>1, <3>2 DEF ContentOf
  <2>8. QED BY <1>2, <2>2, <2>6, <2>7 DEF LeafLineOf, Unwritable
<1>3. CASE c.type = "external"
  <2>1. PICK d \in DOMAIN Sized : c = [type |-> "external", id |-> Sized[d].id, size |-> SizeOf(d)]
    BY <1>3 DEF IsContent
  <2>2. c.id = Sized[d].id /\ c.size = SizeOf(d)
    BY <2>1
  <2>3. IsText(c.id) /\ c.id \notin {"", "-"}
    BY <2>2, ImageConstants
  <2>4. /\ LineOf(l, p, stat) /\ l.ifmt = "regular" /\ l.rdev = 0 /\ l.digest = c.id /\ l.size = c.size
        /\ l.payload = write_escaped(c.id)
    <3>1. l = write_entry(p, stat, "regular", c.size, nlink, 0, c.id, "", c.id)
      BY <1>3 DEF write_leaf
    <3>2. EntryOf(l, p, stat, "regular", c.size, 0, c.id, "", c.id)
      BY <3>1, EntryLine
    <3>3. QED BY <3>2 DEF EntryOf
  <2>5. l.payload = c.id
    BY <1>1, <2>3, <2>4
  <2>6. ItemOf(l) = "external"
    BY <2>3, <2>4, <2>5 DEF ItemOf, LineOf, check_rdev, optional_str
  <2>7. Parse(l) = IF stat.mtime >= 0 THEN "external" ELSE "error"
    BY <2>4, <2>6 DEF Parse, LineOf
  <2>8. ASSUME Parse(l) # "error" PROVE ContentOf(l) = c
    <3>1. Parse(l) = "external"
      BY <2>7, <2>8
    <3>2. c = [type |-> "external", id |-> c.id, size |-> c.size]
      BY <2>1, <2>2
    <3>3. QED BY <2>4, <3>1, <3>2 DEF ContentOf
  <2>9. QED BY <1>3, <2>3, <2>4, <2>7, <2>8 DEF LeafLineOf, Unwritable, optional_str
<1>4. CASE c.type = "symlink"
  <2>1. c = [type |-> "symlink", target |-> c.target] /\ IsText(c.target)
    BY <1>4 DEF IsContent
  <2>2. /\ LineOf(l, p, stat) /\ l.ifmt = "symlink" /\ l.rdev = 0 /\ l.digest = "-"
        /\ l.payload = write_escaped(c.target) /\ l.content = write_escaped("")
    <3>1. l = write_entry(p, stat, "symlink", Len(c.target), nlink, 0, c.target, "", "-")
      BY <1>4 DEF write_leaf
    <3>2. EntryOf(l, p, stat, "symlink", Len(c.target), 0, c.target, "", "-")
      BY <3>1, EntryLine
    <3>3. QED BY <3>2 DEF EntryOf
  <2>3. l.content = "-" /\ l.payload = IF c.target = "" THEN "-" ELSE c.target
    BY <1>1, <2>1, <2>2
  <2>4. ItemOf(l) = IF c.target \in {"", "-"} THEN "error" ELSE "symlink"
    BY <2>2, <2>3 DEF ItemOf, LineOf, check_rdev, check_nonregfile, optional_str
  <2>5. Parse(l) = IF stat.mtime >= 0 /\ c.target \notin {"", "-"} THEN "symlink" ELSE "error"
    BY <2>2, <2>4 DEF Parse, LineOf
  <2>6. ASSUME Parse(l) # "error" PROVE ContentOf(l) = c
    <3>1. Parse(l) = "symlink" /\ c.target \notin {"", "-"}
      BY <2>5, <2>6
    <3>2. l.payload = c.target
      BY <2>3, <3>1
    <3>3. QED BY <2>1, <3>1, <3>2 DEF ContentOf
  <2>7. QED BY <1>4, <2>2, <2>5, <2>6 DEF LeafLineOf, Unwritable
<1>5. CASE c.type \in {"chardev", "blockdev"}
  <2>1. c = [type |-> c.type, rdev |-> c.rdev]
    BY <1>5 DEF IsContent
  <2>2. /\ LineOf(l, p, stat) /\ l.ifmt = c.type /\ l.rdev = c.rdev /\ l.digest = "-"
        /\ l.content = write_escaped("")
    <3>1. l = write_entry(p, stat, c.type, 0, nlink, c.rdev, "", "", "-")
      BY <1>5 DEF write_leaf
    <3>2. EntryOf(l, p, stat, c.type, 0, c.rdev, "", "", "-")
      BY <3>1, EntryLine
    <3>3. QED BY <3>2 DEF EntryOf
  <2>3. l.content = "-"
    BY <1>1, <2>2
  <2>4. ItemOf(l) = c.type
    BY <1>5, <2>2, <2>3 DEF ItemOf, LineOf, check_nonregfile, optional_str
  <2>5. Parse(l) = IF stat.mtime >= 0 THEN c.type ELSE "error"
    BY <2>2, <2>4 DEF Parse, LineOf
  <2>6. ASSUME Parse(l) # "error" PROVE ContentOf(l) = c
    <3>1. Parse(l) = c.type
      BY <2>5, <2>6
    <3>2. QED BY <1>5, <2>1, <2>2, <3>1 DEF ContentOf
  <2>7. QED BY <1>5, <2>2, <2>5, <2>6 DEF LeafLineOf, Unwritable
<1>6. CASE c.type \in {"fifo", "socket"}
  <2>1. c = [type |-> c.type]
    BY <1>6 DEF IsContent
  <2>2. /\ LineOf(l, p, stat) /\ l.ifmt = c.type /\ l.rdev = 0 /\ l.digest = "-"
        /\ l.content = write_escaped("")
    <3>1. l = write_entry(p, stat, c.type, 0, nlink, 0, "", "", "-")
      BY <1>6 DEF write_leaf
    <3>2. EntryOf(l, p, stat, c.type, 0, 0, "", "", "-")
      BY <3>1, EntryLine
    <3>3. QED BY <3>2 DEF EntryOf
  <2>3. l.content = "-"
    BY <1>1, <2>2
  <2>4. ItemOf(l) = IF c.type = "fifo" THEN "fifo" ELSE "error"
    BY <1>6, <2>2, <2>3 DEF ItemOf, LineOf, check_rdev, check_nonregfile, optional_str
  <2>5. Parse(l) = IF stat.mtime >= 0 /\ c.type = "fifo" THEN "fifo" ELSE "error"
    BY <2>2, <2>4 DEF Parse, LineOf
  <2>6. ASSUME Parse(l) # "error" PROVE ContentOf(l) = c
    <3>1. Parse(l) = "fifo" /\ c.type = "fifo"
      BY <2>5, <2>6
    <3>2. QED BY <2>1, <3>1 DEF ContentOf
  <2>7. QED BY <1>6, <2>2, <2>5, <2>6 DEF LeafLineOf, Unwritable
<1>7. c.type \in {"inline", "external", "symlink", "chardev", "blockdev", "fifo", "socket"}
  BY DEF IsContent
<1>8. QED BY <1>2, <1>3, <1>4, <1>5, <1>6, <1>7

\* The line of a path.
LineSays(t, p, l) ==
  IF t[p].dir
  THEN /\ LineOf(l, p, t[p].stat)
       /\ Parse(l) # "error" <=> t[p].stat.mtime >= 0
       /\ Parse(l) # "error" => Parse(l) = "directory"
  ELSE IF strong_count(t, t[p].rc) > 1 /\ Owner(t, p) # p THEN Parse(l) = "error"
  ELSE LineOf(l, p, t[p].stat) /\ LeafLineOf(l, t[p].content, t[p].stat.mtime)

\* A hard link cannot be parsed, as its numbers are not numbers.
LEMMA LineIs ==
  ASSUME NEW t, Fits(t), NEW p \in DOMAIN t
  PROVE  LineSays(t, p, Line(t, p))
<1> DEFINE l == Line(t, p)  nlink == strong_count(t, t[p].rc)
<1>1. NodeFits(t[p])
  BY DEF Fits
<1>2. CASE t[p].dir
  <2>1. PICK n : n = 2 + Cardinality({q \in Entries(t, p) : t[q].dir})
    OBVIOUS
  <2>2. l = write_directory(p, t[p].stat, n)
    BY <1>2, <2>1 DEF Line
  <2> HIDE DEF l
  <2>3. /\ LineOf(l, p, t[p].stat)
        /\ Parse(l) # "error" <=> t[p].stat.mtime >= 0
        /\ Parse(l) # "error" => Parse(l) = "directory"
    BY <2>2, DirectoryLine
  <2>4. LineSays(t, p, l)
    BY <1>2, <2>3 DEF LineSays
  <2>5. QED BY <2>4 DEF l
<1>3. CASE ~t[p].dir /\ nlink > 1 /\ Owner(t, p) # p
  <2>1. l = write_hardlink(p, Owner(t, p))
    BY <1>3 DEF Line
  <2>2. ~l.numeric
    BY <2>1 DEF write_hardlink
  <2> HIDE DEF l
  <2>3. Parse(l) = "error"
    BY <2>2 DEF Parse
  <2>4. LineSays(t, p, l)
    BY <1>3, <2>3 DEF LineSays
  <2>5. QED BY <2>4 DEF l
<1>4. CASE ~t[p].dir /\ ~(nlink > 1 /\ Owner(t, p) # p)
  <2>1. l = write_leaf(p, t[p].stat, t[p].content, nlink)
    BY <1>4 DEF Line
  <2>2. IsContent(t[p].content)
    BY <1>1, <1>4, LeafFits
  <2> HIDE DEF l
  <2>3. LineOf(l, p, t[p].stat) /\ LeafLineOf(l, t[p].content, t[p].stat.mtime)
    BY <2>1, <2>2, LeafLine
  <2>4. LineSays(t, p, l)
    BY <1>4, <2>3 DEF LineSays
  <2>5. QED BY <2>4 DEF l
<1>5. QED BY <1>2, <1>3, <1>4

\* The links of a leaf are counted.
LEMMA LinksCounted ==
  ASSUME NEW t, IsFiniteSet(DOMAIN t), NEW p \in DOMAIN t, ~t[p].dir, NEW q \in DOMAIN t, SameLeaf(t, p, q), p # q
  PROVE  /\ strong_count(t, t[p].rc) > 1 /\ strong_count(t, t[q].rc) > 1
         /\ Owner(t, p) # p \/ Owner(t, q) # q
<1> DEFINE S == {r \in DOMAIN t : ~t[r].dir /\ t[r].rc = t[p].rc}
           L(r) == {x \in DOMAIN t : SameLeaf(t, r, x)}
           C(X) == CHOOSE x \in X : \A y \in X \ {x} : VisitedBefore(x, y)
<1>1. t[q].rc = t[p].rc /\ ~t[q].dir
  BY DEF SameLeaf
<1>2. IsFiniteSet(S) /\ {p, q} \subseteq S
  BY <1>1, FS_Subset
<1>3. Cardinality({p, q}) = 2
  <2>1. IsFiniteSet({p}) /\ Cardinality({p}) = 1
    BY FS_Singleton
  <2>2. Cardinality({p} \cup {q}) = Cardinality({p}) + 1
    BY <2>1, FS_AddElement
  <2>3. {p} \cup {q} = {p, q}
    OBVIOUS
  <2>4. QED BY <2>1, <2>2, <2>3
<1>4. Cardinality(S) \in Nat /\ Cardinality({p, q}) <= Cardinality(S)
  BY <1>2, FS_Subset, FS_CardinalityType
<1>5. strong_count(t, t[p].rc) = Cardinality(S)
  BY DEF strong_count
<1>6. strong_count(t, t[p].rc) > 1 /\ strong_count(t, t[q].rc) > 1
  <2>1. Cardinality(S) > 1
    BY <1>3, <1>4
  <2>2. QED BY <1>1, <1>5, <2>1
<1>7. L(p) = L(q)
  BY <1>1 DEF SameLeaf
<1>8. Owner(t, p) = C(L(p)) /\ Owner(t, q) = C(L(q))
  BY <1>1 DEF Owner
<1> HIDE DEF C, L
<1>9. Owner(t, p) = Owner(t, q)
  BY <1>7, <1>8
<1>10. QED BY <1>6, <1>9

\* A leaf with one link is the only one.
LEMMA OnlyLink ==
  ASSUME NEW t, IsFiniteSet(DOMAIN t), NEW p \in DOMAIN t, ~t[p].dir,
         \A q \in DOMAIN t : SameLeaf(t, p, q) => p = q
  PROVE  strong_count(t, t[p].rc) = 1
<1>1. {r \in DOMAIN t : ~t[r].dir /\ t[r].rc = t[p].rc} = {p}
  BY DEF SameLeaf
<1>2. Cardinality({p}) = 1
  BY FS_Singleton
<1>3. QED BY <1>1, <1>2 DEF strong_count

\* All lines can be parsed if the format can say what is in the tree.
LEMMA AllParsed ==
  ASSUME Fits(tree)
  PROVE  (\A p \in DOMAIN tree : Parse(Line(tree, p)) # "error") <=> Dumpable
<1> DEFINE Fine(p) == Parse(Line(tree, p)) # "error"
           count(p) == strong_count(tree, tree[p].rc)
<1>1. \A p \in DOMAIN tree : LineSays(tree, p, Line(tree, p))
  BY LineIs
<1>2. IsFiniteSet(DOMAIN tree)
  BY DEF Fits
<1>3. ASSUME \A p \in DOMAIN tree : Fine(p) PROVE Dumpable
  <2>1. ASSUME NEW p \in DOMAIN tree, ~tree[p].dir, NEW q \in DOMAIN tree, SameLeaf(tree, p, q), p # q PROVE FALSE
    <3>1. count(p) > 1 /\ count(q) > 1 /\ (Owner(tree, p) # p \/ Owner(tree, q) # q) /\ ~tree[q].dir
      BY <1>2, <2>1, LinksCounted DEF SameLeaf
    <3>2. QED BY <1>1, <1>3, <2>1, <3>1 DEF LineSays
  <2>2. ASSUME NEW p \in DOMAIN tree, ~tree[p].dir PROVE count(p) = 1
    BY <1>2, <2>1, <2>2, OnlyLink
  <2>3. ASSUME NEW p \in DOMAIN tree, ~tree[p].dir PROVE tree[p].stat.mtime >= 0 /\ ~Unwritable(tree[p].content)
    <3>1. ~(count(p) > 1)
      BY <2>2, <2>3
    <3>2. QED BY <1>1, <1>3, <2>3, <3>1 DEF LineSays, LeafLineOf
  <2>4. ASSUME NEW p \in DOMAIN tree, tree[p].dir PROVE tree[p].stat.mtime >= 0
    BY <1>1, <1>3, <2>4 DEF LineSays
  <2>5. QED BY <2>2, <2>3, <2>4 DEF Dumpable, Leaves, Unwritable
<1>4. ASSUME Dumpable, NEW p \in DOMAIN tree PROVE Fine(p)
  <2>1. tree[p].stat.mtime >= 0
    BY <1>4 DEF Dumpable
  <2>2. CASE tree[p].dir
    BY <1>1, <2>1, <2>2 DEF LineSays
  <2>3. CASE ~tree[p].dir
    <3>1. count(p) = 1 /\ ~Unwritable(tree[p].content)
      BY <1>4, <2>3 DEF Dumpable, Leaves, Unwritable
    <3>2. ~(count(p) > 1)
      BY <3>1
    <3>3. QED BY <1>1, <2>1, <2>3, <3>1, <3>2 DEF LineSays, LeafLineOf
  <2>4. QED BY <2>2, <2>3
<1>5. QED BY <1>3, <1>4

\* What a line makes of a node, and the part of the tree that the first lines make.
MadeOf(node, l, i) ==
  IF node.dir THEN Dir(entry_to_stat(l)) ELSE LeafOf(i, entry_to_stat(l), ContentOf(l))

Part(made, order, i) == [p \in {order[j] : j \in 1 .. i} |-> made[p]]

MadeBy(made, t, order) ==
  /\ DOMAIN made = DOMAIN t
  /\ \A i \in 1 .. Len(order) : made[order[i]] = MadeOf(t[order[i]], Line(t, order[i]), i)

\* The beginning of a walk.
LEMMA WalkBegins ==
  ASSUME NEW t, Fits(t), NEW order, Walk(order, DOMAIN t)
  PROVE  /\ Len(order) \in Nat \ {0} /\ order[1] = <<>>
         /\ \A i \in 2 .. Len(order) : /\ order[i] \in DOMAIN t /\ order[i] # <<>>
                                       /\ \E j \in 1 .. i - 1 : order[j] = Parent(order[i])
         /\ \A i \in 1 .. Len(order) : \A j \in 1 .. i : In(order[i], order[j]) => j = i
<1> DEFINE empty == <<>>  n == Len(order)
<1>1. n \in Nat /\ empty \in DOMAIN t /\ DOMAIN t \subseteq Seq(Names)
      /\ \A p \in DOMAIN t \ {empty} : Parent(p) \in DOMAIN t
  BY DEF Walk, Fits, IsTree
<1>2. /\ \A p \in DOMAIN t : \E i \in 1 .. n : order[i] = p
      /\ \A i, j \in 1 .. n : order[i] \in DOMAIN t /\ (i < j <=> VisitedBefore(order[i], order[j]))
                              /\ (order[i] = order[j] => i = j)
  BY DEF Walk
<1>3. \A p \in DOMAIN t : In(empty, p)
  BY <1>1, InSelf
<1>4. \A p \in DOMAIN t \ {empty} : VisitedBefore(empty, p) /\ VisitedBefore(Parent(p), p)
  <2>1. ASSUME NEW p \in DOMAIN t \ {empty} PROVE VisitedBefore(empty, p) /\ VisitedBefore(Parent(p), p)
    <3>1. p \in Seq(Names) /\ p # <<>> /\ In(empty, p) /\ empty # p
      BY <1>1, <1>3
    <3>2. Below(Parent(p), p)
      BY <3>1, ParentIs
    <3>3. Below(empty, p)
      BY <3>1 DEF Below
    <3>4. QED BY <3>2, <3>3 DEF VisitedBefore
  <2>2. QED BY <2>1
<1> HIDE DEF empty, n
<1>5. PICK r \in 1 .. n : order[r] = empty
  BY <1>1, <1>2
<1>6. n # 0 /\ 1 \in 1 .. n
  BY <1>1, <1>5
<1>7. order[1] = empty
  <2>1. ASSUME order[1] # empty PROVE FALSE
    <3>1. VisitedBefore(empty, order[1])
      BY <1>2, <1>4, <1>6, <2>1
    <3>2. r < 1
      BY <1>2, <1>5, <1>6, <3>1
    <3>3. QED BY <3>2
  <2>2. QED BY <2>1
<1>8. ASSUME NEW i \in 2 .. n
      PROVE  order[i] \in DOMAIN t /\ order[i] # empty /\ \E j \in 1 .. i - 1 : order[j] = Parent(order[i])
  <2>1. i \in 1 .. n /\ i # 1
    BY <1>1
  <2>2. order[i] \in DOMAIN t /\ order[i] # empty
    BY <1>2, <1>6, <1>7, <2>1
  <2>3. PICK j \in 1 .. n : order[j] = Parent(order[i])
    BY <1>1, <1>2, <2>2
  <2>4. j < i
    BY <1>2, <1>4, <2>1, <2>2, <2>3
  <2>5. QED BY <1>1, <2>2, <2>3, <2>4
<1>9. ASSUME NEW i \in 1 .. n, NEW j \in 1 .. i, In(order[i], order[j]) PROVE j = i
  <2>1. j \in 1 .. n
    BY <1>1
  <2>2. CASE order[i] = order[j]
    BY <1>2, <2>1, <2>2
  <2>3. CASE order[i] # order[j]
    <3>1. VisitedBefore(order[i], order[j])
      BY <1>9, <2>3 DEF VisitedBefore, Below
    <3>2. i < j
      BY <1>2, <2>1, <3>1
    <3>3. QED BY <1>1, <3>2
  <2>4. QED BY <2>2, <2>3
<1>10. QED BY <1>1, <1>6, <1>7, <1>8, <1>9 DEF empty, n

\* Something above a path is a path.
LEMMA AncestorIs ==
  ASSUME NEW N, NEW p \in Seq(N), NEW q \in Ancestors(p)
  PROVE  q \in Seq(N) /\ In(q, p)
<1>1. PICK m \in 0 .. Len(p) : q = SubSeq(p, 1, m)
  BY DEF Ancestors
<1>2. Len(p) \in Nat /\ m \in Nat /\ m <= Len(p)
  BY <1>1
<1>3. q \in Seq(N) /\ Len(q) = m
  BY <1>1, <1>2
<1>4. QED BY <1>1, <1>2, <1>3 DEF In

\* A line is added if it can be parsed, and puts its node to what is there.
LEMMA LineAdded ==
  ASSUME NEW t, Fits(t), NEW order, Walk(order, DOMAIN t), NEW made, MadeBy(made, t, order),
         NEW i \in 2 .. Len(order), NEW l, l = Line(t, order[i])
  PROVE  LET before == Part(made, order, i - 1)
         IN  /\ CanAdd(before, l) <=> Parse(l) # "error"
             /\ Parse(l) # "error" => add_entry_to_filesystem(before, l, i) = Part(made, order, i)
<1> DEFINE n == Len(order)  p == order[i]
<1>1. PICK before : before = Part(made, order, i - 1)
  OBVIOUS
<1>2. /\ n \in Nat \ {0} /\ i \in 1 .. n /\ i - 1 \in 1 .. n /\ p \in DOMAIN t /\ p # <<>>
      /\ \A j \in 1 .. i : In(p, order[j]) => j = i
      /\ \E j \in 1 .. i - 1 : order[j] = Parent(p)
  BY WalkBegins
<1>3. /\ DOMAIN before = {order[j] : j \in 1 .. i - 1} /\ \A q \in DOMAIN before : before[q] = made[q]
  BY <1>1 DEF Part
<1>4. DOMAIN t \subseteq Seq(Names) /\ IsTree(t) /\ p \in Seq(Names)
  BY <1>2 DEF Fits, IsTree
<1>5. \A q \in DOMAIN before : q \in DOMAIN t /\ before[q].dir = t[q].dir
  <2>1. ASSUME NEW j \in 1 .. i - 1
        PROVE  order[j] \in DOMAIN t /\ made[order[j]].dir = t[order[j]].dir
    <3>1. j \in 1 .. n
      BY <1>2
    <3>2. order[j] \in DOMAIN t /\ made[order[j]] = MadeOf(t[order[j]], Line(t, order[j]), j)
      BY <3>1 DEF Walk, MadeBy
    <3>3. NodeFits(t[order[j]])
      BY <3>2 DEF Fits
    <3>4. CASE t[order[j]].dir
      <4>1. made[order[j]] = Dir(entry_to_stat(Line(t, order[j])))
        BY <3>2, <3>4 DEF MadeOf
      <4>2. t[order[j]].dir = TRUE
        BY <3>3, <3>4, DirFits
      <4>3. QED BY <3>2, <4>1, <4>2, DirFields
    <3>5. CASE ~t[order[j]].dir
      <4>1. PICK m : m = LeafOf(j, entry_to_stat(Line(t, order[j])), ContentOf(Line(t, order[j])))
        OBVIOUS
      <4>2. made[order[j]] = m
        BY <3>2, <3>5, <4>1 DEF MadeOf
      <4>3. t[order[j]].dir = FALSE
        BY <3>3, <3>5, LeafFits
      <4>4. m.dir = FALSE
        BY <4>1 DEF LeafOf
      <4>5. QED BY <3>2, <4>2, <4>3, <4>4
    <3>6. QED BY <3>4, <3>5
  <2>2. QED BY <1>3, <2>1
<1>6. LineSays(t, p, l) /\ NodeFits(t[p])
  BY <1>2, LineIs DEF Fits
<1> HIDE DEF p, n
<1>7. split(before, p)
  <2>1. Parent(p) \in DOMAIN before
    BY <1>2, <1>3
  <2>2. ASSUME NEW q \in Ancestors(Parent(p)), q \in DOMAIN before PROVE before[q].dir
    <3>1. Parent(p) \in Seq(Names) /\ Below(Parent(p), p)
      BY <1>2, <1>4, ParentIs
    <3>2. q \in Seq(Names) /\ In(q, Parent(p))
      BY <3>1, AncestorIs
    <3>3. Below(q, p)
      BY <1>4, <3>1, <3>2, InTransitive DEF Below
    <3>4. t[q].dir
      BY <1>2, <1>4, <3>2, <3>3, AboveIsDir
    <3>5. QED BY <1>5, <2>2, <3>4
  <2>3. QED BY <1>2, <2>1, <2>2 DEF split, get_directory, get_directory_opt
<1>8. Parse(l) # "error" =>
        /\ l.path = p
        /\ Parse(l) # "hardlink" /\ (Parse(l) = "external" => optional_str(l.digest))
        /\ Parse(l) = "directory" <=> t[p].dir
  BY <1>6 DEF LineSays, LineOf, LeafLineOf
<1>9. CanAdd(before, l) <=> Parse(l) # "error"
  BY <1>7, <1>8 DEF CanAdd
<1>10. ASSUME Parse(l) # "error" PROVE add_entry_to_filesystem(before, l, i) = Part(made, order, i)
  <2>1. PICK node : node = MadeOf(t[p], l, i)
    OBVIOUS
  <2>2. add_entry_to_filesystem(before, l, i) = insert(before, p, node)
    BY <1>2, <1>8, <1>10, <2>1 DEF add_entry_to_filesystem, MadeOf
  <2>3. made[p] = node
    BY <1>2, <2>1 DEF MadeBy, p, n
  <2>4. \A r \in DOMAIN before : ~In(p, r)
    <3>1. ASSUME NEW j \in 1 .. i - 1, In(p, order[j]) PROVE FALSE
      <4>1. j \in 1 .. i /\ j # i
        BY <1>2
      <4>2. QED BY <1>2, <3>1, <4>1
    <3>2. QED BY <1>3, <3>1
  <2>5. insert(before, p, node) = [q \in DOMAIN before \cup {p} |-> IF q = p THEN node ELSE before[q]]
    BY <2>4 DEF insert
  <2>6. DOMAIN before \cup {p} = {order[j] : j \in 1 .. i}
    <3>1. \A j : j \in 1 .. i <=> j \in 1 .. i - 1 \/ j = i
      BY <1>2
    <3>2. QED BY <1>3, <3>1 DEF p
  <2>7. \A q \in DOMAIN before \cup {p} : (IF q = p THEN node ELSE before[q]) = made[q]
    BY <1>3, <2>3
  <2>8. insert(before, p, node) = [q \in {order[j] : j \in 1 .. i} |-> made[q]]
    BY <2>5, <2>6, <2>7
  <2>9. QED BY <2>2, <2>8 DEF Part
<1>11. QED BY <1>1, <1>9, <1>10

\* What dumpfile_to_filesystem has read so far.
ReadState(ok, fs) == [ok |-> ok, fs |-> fs]

\* Its parts.
LEMMA ReadStateIs ==
  ASSUME NEW ok, NEW fs
  PROVE  ReadState(ok, fs).ok = ok /\ ReadState(ok, fs).fs = fs
  BY DEF ReadState

\* The recursion of dumpfile_to_filesystem.
NextRead(c, l, i) ==
  IF c.ok /\ CanAdd(c.fs, l) THEN ReadState(TRUE, add_entry_to_filesystem(c.fs, l, i)) ELSE ReadState(FALSE, c.fs)

FirstRead(l) == ReadState(Parse(l) # "error" /\ l.path = <<>>, new(entry_to_stat(l)))

IsRead(f, dump) ==
  f = [i \in 1 .. Len(dump) |-> IF i = 1 THEN FirstRead(dump[1]) ELSE NextRead(f[i - 1], dump[i], i)]

\* A sequence that follows the recursion is what it computes.
LEMMA ReadIs ==
  ASSUME NEW dump, Len(dump) \in Nat \ {0}, NEW f, IsRead(f, dump)
  PROVE  dumpfile_to_filesystem(dump) = f[Len(dump)]
<1> DEFINE n == Len(dump)  g == CHOOSE x : IsRead(x, dump)
<1>1. dumpfile_to_filesystem(dump) = g[n]
  BY DEF dumpfile_to_filesystem, IsRead, ReadState, NextRead, FirstRead
<1>2. IsRead(g, dump)
  OBVIOUS
<1> HIDE DEF g
<1>3. /\ f[1] = FirstRead(dump[1]) /\ \A i \in 2 .. n : f[i] = NextRead(f[i - 1], dump[i], i)
      /\ g[1] = FirstRead(dump[1]) /\ \A i \in 2 .. n : g[i] = NextRead(g[i - 1], dump[i], i)
  <2>1. n \in Nat \ {0} /\ 1 \in 1 .. n /\ \A i \in 2 .. n : i \in 1 .. n /\ i # 1
    OBVIOUS
  <2>2. ASSUME NEW h, IsRead(h, dump)
        PROVE  h[1] = FirstRead(dump[1]) /\ \A i \in 2 .. n : h[i] = NextRead(h[i - 1], dump[i], i)
    <3>1. h = [i \in 1 .. n |-> IF i = 1 THEN FirstRead(dump[1]) ELSE NextRead(h[i - 1], dump[i], i)]
      BY <2>2 DEF IsRead
    <3> HIDE DEF n
    <3>2. \A i \in 1 .. n : h[i] = IF i = 1 THEN FirstRead(dump[1]) ELSE NextRead(h[i - 1], dump[i], i)
      BY <3>1
    <3>3. QED BY <2>1, <3>2
  <2>3. QED BY <1>2, <2>2
<1> DEFINE G == {i \in 0 .. n : i = 0 \/ f[i] = g[i]}
<1>4. n \in Nat /\ n # 0
  OBVIOUS
<1> HIDE DEF n
<1>5. 0 .. n \subseteq G
  <2>1. 0 \in G
    BY <1>4
  <2>2. ASSUME NEW i \in 1 .. n, i - 1 \in G PROVE i \in G
    <3>1. CASE i = 1
      BY <1>3, <3>1
    <3>2. CASE i # 1
      <4>1. i \in 2 .. n /\ i - 1 # 0 /\ f[i - 1] = g[i - 1]
        BY <2>2, <3>2
      <4>2. f[i] = g[i]
        BY <1>3, <4>1
      <4>3. QED BY <4>2
    <3>3. QED BY <3>1, <3>2
  <2> HIDE DEF G
  <2>3. QED BY <1>4, <2>1, <2>2, IndexInduction
<1>6. f[n] = g[n]
  BY <1>4, <1>5
<1>7. QED BY <1>1, <1>6 DEF n

\* The first lines make a tree as long as they can be parsed.
LEMMA ReadsPart ==
  ASSUME NEW t, Fits(t), NEW order, Walk(order, DOMAIN t), NEW made, MadeBy(made, t, order),
         NEW dump, Len(dump) = Len(order), \A i \in 1 .. Len(order) : dump[i] = Line(t, order[i])
  PROVE  LET r == dumpfile_to_filesystem(dump)
         IN  /\ r.ok \in BOOLEAN
             /\ r.ok <=> \A i \in 1 .. Len(order) : Parse(dump[i]) # "error"
             /\ r.ok => r.fs = Part(made, order, Len(order))
<1> DEFINE n == Len(order)
           bad == {i \in 1 .. n : Parse(dump[i]) = "error"}
<1>1. n \in Nat \ {0} /\ 1 \in 1 .. n
  BY WalkBegins
<1>2. PICK k \in 1 .. n + 1 : (\A i \in 1 .. n : i < k => i \notin bad) /\ (k <= n => k \in bad)
  <2>1. CASE bad = {}
    <3>1. n + 1 \in 1 .. n + 1 /\ ~(n + 1 <= n)
      BY <1>1
    <3>2. QED BY <2>1, <3>1
  <2>2. CASE bad # {}
    <3>1. bad \in SUBSET Nat
      OBVIOUS
    <3>2. PICK x \in bad : \A y \in bad : x <= y
      BY <2>2, <3>1, LeastNumber
    <3>3. x \in 1 .. n + 1 /\ \A i \in 1 .. n : i < x => i \notin bad
      BY <1>1, <3>2
    <3>4. QED BY <3>2, <3>3
  <2>3. QED BY <2>1, <2>2
<1> DEFINE last(i) == IF i < k THEN i ELSE IF k = 1 THEN 1 ELSE k - 1
           f == [i \in 1 .. n |-> ReadState(i < k, Part(made, order, last(i)))]
<1>3. \A i \in 1 .. n : Parse(dump[i]) # "error" <=> i \notin bad
  OBVIOUS
<1>4. f[1] = FirstRead(dump[1])
  <2>1. order[1] = <<>> /\ t[<<>>].dir /\ <<>> \in DOMAIN t
    BY WalkBegins DEF Fits, IsTree
  <2>2. dump[1] = Line(t, order[1])
    BY <1>1
  <2>3. LineSays(t, <<>>, dump[1])
    BY <2>1, <2>2, LineIs
  <2>4. dump[1].path = <<>>
    BY <2>1, <2>3 DEF LineSays, LineOf
  <2>5. made[<<>>] = Dir(entry_to_stat(dump[1]))
    BY <1>1, <2>1, <2>2 DEF MadeBy, MadeOf
  <2>6. Part(made, order, 1) = new(entry_to_stat(dump[1]))
    <3>1. {order[j] : j \in 1 .. 1} = {<<>>}
      BY <2>1
    <3>2. QED BY <2>5, <3>1 DEF Part, new
  <2>7. last(1) = 1
    BY <1>2
  <2>8. (1 < k) = (Parse(dump[1]) # "error" /\ dump[1].path = <<>>)
    <3>1. 1 < k <=> 1 \notin bad
      BY <1>1, <1>2
    <3>2. QED BY <1>1, <1>3, <2>4, <3>1
  <2>9. f[1] = ReadState(1 < k, Part(made, order, 1))
    BY <1>1, <2>7
  <2>10. QED BY <2>6, <2>8, <2>9 DEF FirstRead
<1>5. ASSUME NEW i \in 2 .. n PROVE f[i] = NextRead(f[i - 1], dump[i], i)
  <2>1. i \in 1 .. n /\ i - 1 \in 1 .. n /\ i \in Nat /\ i # 1
    BY <1>1
  <2>2. PICK c : c = f[i - 1]
    OBVIOUS
  <2>3. c = ReadState(i - 1 < k, Part(made, order, last(i - 1)))
    BY <2>1, <2>2
  <2>4. c.ok = (i - 1 < k) /\ c.fs = Part(made, order, last(i - 1))
    BY <2>3, ReadStateIs
  <2>5. /\ CanAdd(Part(made, order, i - 1), dump[i]) <=> Parse(dump[i]) # "error"
        /\ Parse(dump[i]) # "error" =>
             add_entry_to_filesystem(Part(made, order, i - 1), dump[i], i) = Part(made, order, i)
    <3>1. dump[i] = Line(t, order[i])
      BY <2>1
    <3>2. QED BY <3>1, LineAdded
  <2>6. CASE i < k
    <3>1. i - 1 < k /\ i \notin bad /\ last(i - 1) = i - 1 /\ last(i) = i
      BY <1>2, <2>1, <2>6
    <3>2. c.ok /\ c.fs = Part(made, order, i - 1)
      BY <2>4, <3>1
    <3>3. NextRead(c, dump[i], i) = ReadState(TRUE, Part(made, order, i))
      BY <1>3, <2>1, <2>5, <3>1, <3>2 DEF NextRead
    <3>4. f[i] = ReadState(i < k, Part(made, order, i))
      BY <2>1, <3>1
    <3>5. (i < k) = TRUE
      BY <2>6
    <3>6. QED BY <2>2, <3>3, <3>4, <3>5
  <2>7. CASE ~(i < k)
    <3>1. last(i) = last(i - 1)
      BY <1>2, <2>1, <2>7
    <3>2. ~(c.ok /\ CanAdd(c.fs, dump[i]))
      <4>1. CASE i = k
        <5>1. i \in bad /\ last(i - 1) = i - 1
          BY <1>2, <2>1, <4>1
        <5>2. QED BY <1>3, <2>1, <2>4, <2>5, <5>1
      <4>2. CASE i # k
        <5>1. ~(i - 1 < k)
          BY <1>2, <2>1, <2>7, <4>2
        <5>2. QED BY <2>4, <5>1
      <4>3. QED BY <4>1, <4>2
    <3>3. NextRead(c, dump[i], i) = ReadState(FALSE, Part(made, order, last(i)))
      BY <2>4, <3>1, <3>2 DEF NextRead
    <3>4. f[i] = ReadState(i < k, Part(made, order, last(i)))
      BY <2>1
    <3>5. (i < k) = FALSE
      BY <2>7
    <3>6. QED BY <2>2, <3>3, <3>4, <3>5
  <2>8. QED BY <2>6, <2>7
<1>6. f[n] = ReadState(n < k, Part(made, order, last(n)))
  BY <1>1
<1>7. DOMAIN f = 1 .. n /\ f = [i \in 1 .. n |-> f[i]]
  OBVIOUS
<1> HIDE DEF f
<1>8. IsRead(f, dump)
  <2>1. ASSUME NEW i \in 1 .. n PROVE f[i] = IF i = 1 THEN FirstRead(dump[1]) ELSE NextRead(f[i - 1], dump[i], i)
    <3>1. CASE i = 1
      BY <1>4, <3>1
    <3>2. CASE i # 1
      <4>1. i \in 2 .. n
        BY <1>1, <3>2
      <4>2. QED BY <1>5, <3>2, <4>1
    <3>3. QED BY <3>1, <3>2
  <2>2. Len(dump) = n
    OBVIOUS
  <2> HIDE DEF n
  <2>3. f = [i \in 1 .. n |-> IF i = 1 THEN FirstRead(dump[1]) ELSE NextRead(f[i - 1], dump[i], i)]
    BY <1>7, <2>1
  <2>4. QED BY <2>2, <2>3 DEF IsRead
<1>9. PICK r : r = dumpfile_to_filesystem(dump)
  OBVIOUS
<1>10. r = ReadState(n < k, Part(made, order, last(n)))
  BY <1>1, <1>6, <1>8, <1>9, ReadIs
<1>11. r.ok = (n < k) /\ r.fs = Part(made, order, last(n))
  BY <1>10, ReadStateIs
<1>12. r.ok <=> \A i \in 1 .. n : Parse(dump[i]) # "error"
  <2>1. CASE n < k
    <3>1. \A i \in 1 .. n : i < k
      BY <1>1, <1>2, <2>1
    <3>2. \A i \in 1 .. n : i \notin bad
      BY <1>2, <3>1
    <3>3. QED BY <1>3, <1>11, <2>1, <3>2
  <2>2. CASE ~(n < k)
    <3>1. k \in 1 .. n /\ k <= n
      BY <1>1, <1>2, <2>2
    <3>2. k \in bad
      BY <1>2, <3>1
    <3>3. QED BY <1>3, <1>11, <2>2, <3>1, <3>2
  <2>3. QED BY <2>1, <2>2
<1>13. r.ok => last(n) = n
  BY <1>11
<1>14. r.ok \in BOOLEAN
  BY <1>11
<1>15. QED BY <1>9, <1>11, <1>12, <1>13, <1>14

\* A value written over with itself.
LEMMA Rewritten ==
  ASSUME NEW kind, NEW of, NEW v, v = [kind |-> kind, of |-> of]
  PROVE  [v EXCEPT !.of = of] = v
<1>1. DOMAIN v = {"kind", "of"} /\ v.kind = kind /\ v.of = of
  OBVIOUS
<1>2. [v EXCEPT !.of = of] = [f \in {"kind", "of"} |-> IF f = "of" THEN of ELSE v[f]]
  BY <1>1
<1>3. v = [f \in {"kind", "of"} |-> v[f]]
  BY <1>1
<1>4. QED BY <1>1, <1>2, <1>3

\* Attributes with values are written as they are.
LEMMA AttrsKept ==
  ASSUME NEW stat, IsStat(stat), \A k \in DOMAIN stat.xattrs : stat.xattrs[k].of # ""
  PROVE  [mode |-> stat.mode, mtime |-> stat.mtime, xattrs |-> Attrs(stat)] = stat
<1>1. PICK x : x = stat.xattrs
  OBVIOUS
<1>2. x = [k \in DOMAIN x |-> Value(x[k].kind, x[k].of)] /\ \A k \in DOMAIN x : IsText(x[k].of) /\ x[k].of # ""
  BY <1>1 DEF IsStat, IsXattrs
<1>3. ASSUME NEW k \in DOMAIN x PROVE [x[k] EXCEPT !.of = write_escaped(@)] = x[k]
  <2>1. PICK kind, of : kind = x[k].kind /\ of = x[k].of
    OBVIOUS
  <2>2. x[k] = [kind |-> kind, of |-> of]
    BY <1>2, <2>1 DEF Value
  <2>3. write_escaped(of) = of
    BY <1>2, <2>1, Escaped
  <2>4. [x[k] EXCEPT !.of = write_escaped(@)] = [x[k] EXCEPT !.of = of]
    BY <2>1, <2>3
  <2>5. PICK v : v = x[k]
    OBVIOUS
  <2>6. v = [kind |-> kind, of |-> of]
    BY <2>2, <2>5
  <2>7. [v EXCEPT !.of = of] = v
    BY <2>6, Rewritten
  <2>8. QED BY <2>4, <2>5, <2>7
<1>4. Attrs(stat) = [k \in DOMAIN x |-> x[k]]
  BY <1>1, <1>3 DEF Attrs
<1>5. Attrs(stat) = stat.xattrs
  BY <1>1, <1>2, <1>4
<1>6. QED BY <1>5 DEF IsStat

\* No leaf of a tree that can be dumped has several links.
LEMMA OneLink ==
  ASSUME Dumpable, NEW p \in DOMAIN tree, ~tree[p].dir
  PROVE  ~(strong_count(tree, tree[p].rc) > 1)
<1>1. PICK count : count = strong_count(tree, tree[p].rc)
  OBVIOUS
<1>2. count = 1
  BY <1>1 DEF Dumpable, Leaves
<1>3. QED BY <1>1, <1>2

\* A dumpfile is read as the tree it was written of, or not at all.
LEMMA DumpAgrees == Fits(tree) => DumpReadsBack
<1> SUFFICES ASSUME Fits(tree), ~Mistaken
             PROVE  LET r == dumpfile_to_filesystem(write_dumpfile(tree))
                    IN  r.ok = Dumpable /\ (r.ok => SameTree(r.fs, tree))
  BY DEF DumpReadsBack
<1>1. IsFiniteSet(DOMAIN tree) /\ DOMAIN tree \in SUBSET Seq(Ordered) /\ \A p \in DOMAIN tree : NodeFits(tree[p])
  BY DEF Fits
<1>2. PICK order : order = InOrder(DOMAIN tree, VisitedBefore)
  OBVIOUS
<1>3. Walk(order, DOMAIN tree)
  BY <1>1, <1>2, InOrderIs
<1> DEFINE n == Len(order)
           at(p) == CHOOSE i \in 1 .. n : order[i] = p
           made == [p \in DOMAIN tree |-> MadeOf(tree[p], Line(tree, p), at(p))]
<1>4. PICK dump : dump = write_dumpfile(tree)
  OBVIOUS
<1>5. n \in Nat \ {0} /\ DOMAIN order = 1 .. n /\ \A p \in DOMAIN tree : \E i \in 1 .. n : order[i] = p
  BY <1>3, WalkBegins DEF Walk
<1>6. \A i, j \in 1 .. n : order[i] \in DOMAIN tree /\ (order[i] = order[j] => i = j)
  BY <1>3 DEF Walk
<1>7. Len(dump) = n /\ \A i \in 1 .. n : dump[i] = Line(tree, order[i])
  <2>1. dump = [i \in 1 .. n |-> Line(tree, order[i])]
    BY <1>2, <1>4, <1>5 DEF write_dumpfile
  <2> HIDE DEF n
  <2>2. QED BY <1>5, <2>1
<1>8. \A p \in DOMAIN tree : at(p) \in 1 .. n /\ order[at(p)] = p
  BY <1>5
<1>9. \A i \in 1 .. n : at(order[i]) = i
  BY <1>6
<1>10. \A p \in DOMAIN tree : made[p] = MadeOf(tree[p], Line(tree, p), at(p))
  OBVIOUS
<1>11. DOMAIN made = DOMAIN tree /\ made = [p \in DOMAIN tree |-> made[p]]
  OBVIOUS
<1> HIDE DEF made, at
<1>12. MadeBy(made, tree, order)
  BY <1>6, <1>9, <1>10, <1>11 DEF MadeBy
<1>13. PICK r : r = dumpfile_to_filesystem(dump)
  OBVIOUS
<1>14. /\ r.ok \in BOOLEAN
       /\ r.ok <=> \A i \in 1 .. n : Parse(dump[i]) # "error"
       /\ r.ok => r.fs = Part(made, order, n)
  BY <1>3, <1>7, <1>12, <1>13, ReadsPart
<1>15. (\A i \in 1 .. n : Parse(dump[i]) # "error") <=> \A p \in DOMAIN tree : Parse(Line(tree, p)) # "error"
  BY <1>5, <1>6, <1>7
<1>16. r.ok <=> Dumpable
  BY <1>14, <1>15, AllParsed
<1>17. r.ok = Dumpable
  BY <1>14, <1>16 DEF Dumpable
<1>18. ASSUME r.ok PROVE SameTree(r.fs, tree)
  <2>0. \A rc, stat, content :
          /\ LeafOf(rc, stat, content).dir = FALSE /\ LeafOf(rc, stat, content).rc = rc
          /\ LeafOf(rc, stat, content).stat = stat /\ LeafOf(rc, stat, content).content = content
    BY DEF LeafOf
  <2>1. r.fs = made
    <3>1. {order[i] : i \in 1 .. n} = DOMAIN tree
      BY <1>5, <1>6
    <3>2. r.fs = [p \in DOMAIN tree |-> made[p]]
      BY <1>14, <1>18, <3>1 DEF Part
    <3>3. QED BY <1>11, <3>2
  <2>2. \A p \in DOMAIN tree : Parse(Line(tree, p)) # "error"
    BY <1>14, <1>15, <1>18
  <2>3. Dumpable
    BY <1>16, <1>18
  <2>4. ASSUME NEW p \in DOMAIN tree
        PROVE  IsStat(tree[p].stat) /\ \A k \in DOMAIN tree[p].stat.xattrs : tree[p].stat.xattrs[k].of # ""
    BY <1>1, <2>4, DirFits, LeafFits DEF Mistaken
  <2>5. ASSUME NEW p \in DOMAIN tree, NEW l, LineOf(l, p, tree[p].stat) PROVE entry_to_stat(l) = tree[p].stat
    <3>1. entry_to_stat(l) = [mode |-> tree[p].stat.mode, mtime |-> tree[p].stat.mtime, xattrs |-> Attrs(tree[p].stat)]
      BY <2>5 DEF LineOf
    <3>2. QED BY <2>4, <3>1, AttrsKept
  <2>6. ASSUME NEW p \in DOMAIN tree, tree[p].dir PROVE made[p] = Dir(tree[p].stat)
    <3>1. PICK l : l = Line(tree, p)
      OBVIOUS
    <3>2. LineOf(l, p, tree[p].stat)
      BY <2>6, <3>1, LineIs DEF LineSays
    <3>3. QED BY <1>10, <2>5, <2>6, <3>1, <3>2 DEF MadeOf
  <2>7. ASSUME NEW p \in DOMAIN tree, ~tree[p].dir PROVE made[p] = LeafOf(at(p), tree[p].stat, tree[p].content)
    <3>1. PICK l : l = Line(tree, p)
      OBVIOUS
    <3>2. ~(strong_count(tree, tree[p].rc) > 1)
      BY <2>3, <2>7, OneLink
    <3>3. LineOf(l, p, tree[p].stat) /\ LeafLineOf(l, tree[p].content, tree[p].stat.mtime)
      BY <2>7, <3>1, <3>2, LineIs DEF LineSays
    <3>4. ~(tree[p].content.type = "inline" /\ tree[p].content.data = "-")
      BY <2>7 DEF Mistaken, Leaves
    <3>5. ContentOf(l) = tree[p].content
      BY <2>2, <3>1, <3>3, <3>4 DEF LeafLineOf
    <3>6. QED BY <1>10, <2>5, <2>7, <3>1, <3>3, <3>5 DEF MadeOf
  <2>8. ASSUME NEW p \in DOMAIN tree
        PROVE  /\ made[p].dir = tree[p].dir /\ made[p].stat = tree[p].stat
               /\ ~made[p].dir => made[p].content = tree[p].content /\ made[p].rc = at(p)
    <3>1. CASE tree[p].dir
      <4>1. tree[p].dir = TRUE
        BY <1>1, <3>1, DirFits
      <4>2. QED BY <2>6, <3>1, <4>1, DirFields
    <3>2. CASE ~tree[p].dir
      <4>1. tree[p].dir = FALSE
        BY <1>1, <3>2, LeafFits
      <4>2. made[p] = LeafOf(at(p), tree[p].stat, tree[p].content)
        BY <2>7, <3>2
      <4>3. /\ made[p].dir = FALSE /\ made[p].rc = at(p)
            /\ made[p].stat = tree[p].stat /\ made[p].content = tree[p].content
        BY <4>2, <2>0
      <4>4. QED BY <4>1, <4>3
    <3>3. QED BY <3>1, <3>2
  <2>9. ASSUME NEW p \in DOMAIN tree, NEW q \in DOMAIN tree PROVE SameLeaf(made, p, q) <=> SameLeaf(tree, p, q)
    <3>1. ASSUME SameLeaf(made, p, q) PROVE SameLeaf(tree, p, q)
      <4>1. ~tree[p].dir /\ at(p) = at(q)
        BY <2>8, <3>1 DEF SameLeaf
      <4>2. p = q
        BY <1>8, <4>1
      <4>3. QED BY <4>1, <4>2 DEF SameLeaf
    <3>2. ASSUME SameLeaf(tree, p, q) PROVE SameLeaf(made, p, q)
      <4>1. ~tree[p].dir /\ ~tree[q].dir
        BY <3>2 DEF SameLeaf
      <4>2. ~(strong_count(tree, tree[p].rc) > 1)
        BY <2>3, <4>1, OneLink
      <4>3. p = q
        BY <1>1, <3>2, <4>1, <4>2, LinksCounted
      <4>4. QED BY <2>8, <4>1, <4>3 DEF SameLeaf
    <3>3. QED BY <3>1, <3>2
  <2>10. SameTree(made, tree)
    BY <1>11, <2>8, <2>9 DEF SameTree
  <2>11. QED BY <2>1, <2>10
<1>19. QED BY <1>4, <1>13, <1>17, <1>18

(***************************************************************************)
(* The steps of ImageBuild.                                                *)
(***************************************************************************)

\* The trees that are built, written and scanned are trees of entries.
ImageIInv == LayersIInv /\ Fits(tree)

\* Every step keeps that.
LEMMA ImageStep == ImageIInv /\ [Image_Next]_Image_vars => ImageIInv'
<1> SUFFICES ASSUME ImageIInv, [Image_Next]_Image_vars PROVE ImageIInv'
  OBVIOUS
<1>1. LayersIInv /\ Fits(tree)
  BY DEF ImageIInv
<1>2. [LayersNext]_layersVars
  BY DEF Image_Next, Image_vars, layersVars, commit_image
<1>3. LayersIInv'
  BY <1>1, <1>2, LayersStep
<1>4. ASSUME NEW e \in Entry, process_entry(e) PROVE Fits(tree')
  <2>1. Accepts(e) /\ tree' = Processed(e, Len(applied) + 1)
    BY <1>4 DEF process_entry
  <2>2. Len(applied) + 1 \in Nat
    BY <1>1 DEF LayersIInv, AppliedOK
  <2>3. QED BY <1>1, <2>1, <2>2, ProcessedFits
<1>5. ASSUME Fail PROVE Fits(tree')
  BY <1>5, NewFits DEF Fail
<1>6. ASSUME Transform PROVE Fits(tree')
  <2>1. CanTransform(tree) /\ tree' = transform_for_oci(tree)
    BY <1>6 DEF Transform
  <2>2. Fits(transform_for_oci(tree))
    BY <1>1, <2>1, TransformFits
  <2>3. QED BY <2>1, <2>2
<1>7. ASSUME tree' = tree PROVE Fits(tree')
  BY <1>1, <1>7
<1>8. Fits(tree')
  <2>1. CASE \E e \in Entry : process_entry(e) \/ EntryFails(e)
    <3>1. PICK e \in Entry : process_entry(e) \/ EntryFails(e)
      BY <2>1
    <3>2. CASE process_entry(e)
      BY <1>4, <3>2
    <3>3. CASE EntryFails(e)
      BY <1>5, <3>3 DEF EntryFails
    <3>4. QED BY <3>1, <3>2, <3>3
  <2>2. CASE OpenLayer
    BY <1>7, <2>2 DEF OpenLayer
  <2>3. CASE LayerEnds
    BY <1>7, <2>3 DEF LayerEnds
  <2>4. CASE ReadFails
    BY <1>5, <2>4 DEF ReadFails
  <2>5. CASE Transform
    BY <1>6, <2>5
  <2>6. CASE TransformFails
    BY <1>5, <2>6 DEF TransformFails
  <2>7. CASE UNCHANGED layersVars
    BY <1>7, <2>7 DEF layersVars
  <2>8. QED BY <1>2, <2>1, <2>2, <2>3, <2>4, <2>5, <2>6, <2>7 DEF LayersNext
<1>9. Fits(tree)'
  BY <1>8
<1>10. QED BY <1>3, <1>9 DEF ImageIInv

\* Image_Spec builds trees as LayersSpec does, and all that is in one is of the entries.
THEOREM ImageInvariance == Image_Spec => []ImageIInv
<1>1. Image_Init => ImageIInv
  BY InitLayers, NewFits DEF Image_Init, LayersInit, ImageIInv
<1>2. ImageIInv /\ [Image_Next]_Image_vars => ImageIInv'
  BY ImageStep
<1>3. QED BY <1>1, <1>2, PTL DEF Image_Spec

\* What read_container_root makes of a mounted container is what its layers make, less
\* the attributes it drops; files that are cut short are shorter, or objects of another
\* size than their inode's, and what write_to_path unpacks is read as the same files but
\* for the objects that are cut short (fs.rs): for any entries.
THEOREM ScansStayTrue == Image_Spec => []ScansAgree
<1>1. ImageIInv => ScansAgree
  BY MountAgrees, CutShortAgrees, UnpackAgrees DEF ImageIInv, ScansAgree
<1>2. QED BY <1>1, ImageInvariance, PTL

(***************************************************************************)
(* A dumpfile that write_dumpfile makes of a tree is read as the same tree *)
(* by dumpfile_to_filesystem, or refused, whatever is in the tree but for  *)
(* what is Mistaken; refused are the trees that are not Dumpable.          *)
(***************************************************************************)
THEOREM DumpsReadBack == Image_Spec => []DumpReadsBack
<1>1. ImageIInv => DumpReadsBack
  BY DumpAgrees DEF ImageIInv
<1>2. QED BY <1>1, ImageInvariance, PTL
===============================================================================
