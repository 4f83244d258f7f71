---------------------------- MODULE StorageProofs -----------------------------
(***************************************************************************)
(* The two procedures by which the repository puts something on the disk,  *)
(* which share nothing, neither files nor the names of their models.       *)
(*                                                                         *)
(* Objects (ObjectStore): ensure_object keeps its word, what appears in    *)
(* objects/ is complete, and tasks that store the same object do not make  *)
(* each other fail, for any number of tasks, objects, children and power   *)
(* failures.  Links (ReplaceSymlink): replace_symlinkat sets a link in one *)
(* step, for any number of callers, targets, names and tries.              *)
(***************************************************************************)
EXTENDS ObjectStore, ReplaceSymlink, TLAPS

-------------------------------------------------------------------------------
(* Objects *)

\* A task has an entry to look at or to seal; it seals one with insecure only.
Holds(t) ==
  /\ pc[t] \in {"measure", "upgrade", "remeasure"} => entry[obj[t]] # Absent
  /\ pc[t] \in {"upgrade", "remeasure"} => mode.insecure

\* The task's own file is sealed before it is linked, or cannot be and need not.
Prepared(t) ==
  /\ sealed[t] => mode.fsverity
  /\ pc[t] \in {"link", "stat"} =>
       /\ sealed[t] = mode.fsverity
       /\ mode.fsverity \/ mode.insecure

\* Who has found no entry, or has been told that there is a good one, has to do
\* with a file that was linked after the last power failure.
Recent(t) ==
  how[t] = "store" /\ ~mode.insecure =>
    /\ pc[t] \in {"write", "enable", "copy", "enable_copy", "link"} /\ entry[obj[t]] # Absent =>
         entry[obj[t]].data = "good" /\ entry[obj[t]].sealed
    /\ pc[t] = "ok" => Good(entry[obj[t]]) /\ entry[obj[t]].sealed

\* Only finalize_object_tmpfile looks at the size of an entry.
Route(t) == pc[t] = "stat" => how[t] = "finalize"

\* Only a power failure harms a file.
Unharmed == failures = 0 => \A o \in Object : entry[o] # Absent => entry[o].data = "good"

IInv ==
  /\ TypeOK
  /\ \A t \in Task : Holds(t) /\ Prepared(t) /\ Recent(t) /\ Route(t)
  /\ Unharmed
  /\ NoFalseErrors

LEMMA InitIInv == Init => IInv
<1> SUFFICES ASSUME Init PROVE IInv
  OBVIOUS
<1> USE ObjectStoreConstants
<1>1. TypeOK
  <2>1. Inherited \subseteq File \cup {Absent}
    BY DEF Inherited, File
  <2>2. entry \in [Object -> File \cup {Absent}]
    BY <2>1 DEF Init
  <2>3. QED BY <2>2 DEF Init, TypeOK, PC
<1>2. \A t \in Task : Holds(t) /\ Prepared(t) /\ Recent(t) /\ Route(t)
  BY DEF Init, Holds, Prepared, Recent, Route
<1>3. Unharmed
  BY DEF Init, Inherited, Unharmed
<1>4. NoFalseErrors
  BY DEF Init, NoFalseErrors
<1>5. QED
  BY <1>1, <1>2, <1>3, <1>4 DEF IInv

\* Every handler leaves values of the variables' types.
LEMMA TypeStep == ASSUME TypeOK, NEW t \in Task, Holds(t), Step(t) \/ Finish(t) PROVE TypeOK'
<1> USE ObjectStoreConstants DEF TypeOK, PC, Goto, world, own
<1>1. CASE Lookup(t)
  BY <1>1 DEF Lookup
<1>2. CASE Measure(t)
  BY <1>2 DEF Measure
<1>3. CASE Upgrade(t)
  <2>1. [data |-> entry[obj[t]].data, sealed |-> TRUE] \in File
    BY <1>3 DEF Upgrade, Holds, File
  <2>2. entry' \in [Object -> File \cup {Absent}]
    BY <1>3, <2>1 DEF Upgrade
  <2>3. pc' \in [Task -> PC]
    BY <1>3 DEF Upgrade
  <2>4. QED BY <1>3, <2>2, <2>3 DEF Upgrade
<1>4. CASE Remeasure(t)
  BY <1>4 DEF Remeasure
<1>5. CASE Written(t)
  BY <1>5 DEF Written, Writing
<1>6. CASE Enable(t)
  BY <1>6 DEF Enable, Enabled
<1>7. CASE EnableUnsupported(t)
  BY <1>7 DEF EnableUnsupported, Enabled
<1>8. CASE EnableBusy(t)
  BY <1>8 DEF EnableBusy
<1>9. CASE Stat(t)
  BY <1>9 DEF Stat
<1>10. CASE Link(t)
  BY <1>10 DEF Link, File
<1>11. CASE Finish(t)
  BY <1>11 DEF Finish
<1>12. CASE EnableFails(t)
  BY <1>12 DEF EnableFails
<1>13. CASE IoFails(t)
  BY <1>13 DEF IoFails
<1>14. QED
  BY <1>1, <1>2, <1>3, <1>4, <1>5, <1>6, <1>7, <1>8, <1>9, <1>10, <1>11, <1>12, <1>13 DEF Step

LEMMA TypeNext == ASSUME TypeOK, \A t \in Task : Holds(t), [Next]_vars PROVE TypeOK'
<1> USE ObjectStoreConstants DEF TypeOK, PC, world, own
<1>1. ASSUME NEW t \in Task, NEW o \in Object, ensure_object(t, o) \/ create_object_tmpfile(t, o)
      PROVE  TypeOK'
  BY <1>1 DEF ensure_object, create_object_tmpfile, Begin, Goto
<1>2. ASSUME NEW t \in Task, Step(t) \/ Finish(t) PROVE TypeOK'
  BY <1>2, TypeStep
<1>3. ASSUME NEW c \in Child, Fork(c) PROVE TypeOK'
  BY <1>3 DEF Fork
<1>4. ASSUME NEW c \in Child, Exec(c) PROVE TypeOK'
  BY <1>4 DEF Exec
<1>5. CASE sync
  BY <1>5 DEF sync, task
<1>6. CASE PowerFailure
  BY <1>6 DEF PowerFailure
<1>7. CASE DeviceFails \/ DeviceRecovers
  BY <1>7 DEF DeviceFails, DeviceRecovers, task
<1>8. CASE UNCHANGED vars
  BY <1>8 DEF vars, task
<1>9. QED
  BY <1>1, <1>2, <1>3, <1>4, <1>5, <1>6, <1>7, <1>8 DEF Next

\* A step of a task leaves what concerns the others alone, and goes where the
\* invariant says: each handler by itself.
LEMMA StepIInv == ASSUME IInv, NEW t \in Task, Step(t) \/ Finish(t) PROVE IInv'
<1>1. TypeOK /\ TypeOK'
  BY TypeStep DEF IInv
<1>2. mode.insecure \in BOOLEAN /\ mode.fsverity \in BOOLEAN
  BY <1>1 DEF TypeOK, Modes
<1> USE <1>1, <1>2, ObjectStoreConstants DEF IInv, TypeOK, Goto, world, own, Good, File, PC
<1> DEFINE P == \A u \in Task : Holds(u) /\ Prepared(u) /\ Recent(u) /\ Route(u)
<1>3. CASE Lookup(t)
  <2>1. P' BY <1>3 DEF Lookup, Holds, Prepared, Recent, Route
  <2>2. Unharmed' /\ NoFalseErrors' BY <1>3 DEF Lookup, Unharmed, NoFalseErrors
  <2>3. QED BY <2>1, <2>2
<1>4. CASE Measure(t)
  <2>1. P' BY <1>4 DEF Measure, Measured, Holds, Prepared, Recent, Route
  <2>2. Unharmed' BY <1>4 DEF Measure, Unharmed
  <2>3. NoFalseErrors' BY <1>4 DEF Measure, Measured, Unharmed, NoFalseErrors, Holds
  <2>4. QED BY <2>1, <2>2, <2>3
<1>5. CASE Upgrade(t)
  <2>1. ASSUME NEW u \in Task PROVE Holds(u)' /\ Prepared(u)' /\ Recent(u)' /\ Route(u)'
    <3>1. Holds(u)'
      <4>1. [data |-> entry[obj[t]].data, sealed |-> TRUE] \in File
        BY <1>5 DEF Upgrade, Holds
      <4>2. \A o \in Object : entry[o] # Absent => entry'[o] # Absent
        <5>1. entry' = entry \/ entry' = [entry EXCEPT ![obj[t]] = [data |-> @.data, sealed |-> TRUE]]
          BY <1>5 DEF Upgrade
        <5>2. Absent # [data |-> entry[obj[t]].data, sealed |-> TRUE]
          BY <4>1
        <5> QED BY <5>1, <5>2
      <4>3. pc' = [pc EXCEPT ![t] = pc'[t]] /\ obj' = obj /\ mode' = mode
        BY <1>5 DEF Upgrade
      <4>4. pc[t] = "upgrade" /\ pc'[t] \in {"error", "remeasure"}
        BY <1>5 DEF Upgrade
      <4>5. QED BY <4>2, <4>3, <4>4 DEF Holds
    <3>2. Prepared(u)' BY <1>5 DEF Upgrade, Prepared
    <3>3. Recent(u)'
      <4>1. mode.insecure /\ mode' = mode BY <1>5 DEF Upgrade, Holds
      <4>2. QED BY <4>1 DEF Recent
    <3>4. Route(u)' BY <1>5 DEF Upgrade, Route
    <3>5. QED BY <3>1, <3>2, <3>3, <3>4
  <2>2. Unharmed' BY <1>5 DEF Upgrade, Unharmed, Holds
  <2>3. NoFalseErrors' BY <1>5 DEF Upgrade, NoFalseErrors, Holds
  <2>4. QED BY <2>1, <2>2, <2>3
<1>6. CASE Remeasure(t)
  <2>1. P' BY <1>6 DEF Remeasure, Measured, Holds, Prepared, Recent, Route
  <2>2. Unharmed' BY <1>6 DEF Remeasure, Unharmed
  <2>3. NoFalseErrors' BY <1>6 DEF Remeasure, NoFalseErrors, Holds
  <2>4. QED BY <2>1, <2>2, <2>3
<1>7. CASE Written(t)
  <2>1. P' BY <1>7 DEF Written, Writing, Holds, Prepared, Recent, Route
  <2>2. Unharmed' /\ NoFalseErrors' BY <1>7 DEF Written, Writing, Unharmed, NoFalseErrors
  <2>3. QED BY <2>1, <2>2
<1>8. CASE Enable(t)
  <2>1. ASSUME NEW u \in Task PROVE Holds(u)' /\ Prepared(u)' /\ Recent(u)' /\ Route(u)'
    <3>1. Holds(u)' BY <1>8 DEF Enable, Enabling, Enabled, Holds
    <3>2. Prepared(u)' BY <1>8 DEF Enable, Enabling, Enabled, Prepared
    <3>3. Recent(u)' BY <1>8 DEF Enable, Enabling, Enabled, Recent, Holds
    <3>4. Route(u)' BY <1>8 DEF Enable, Enabling, Enabled, Route
    <3>5. QED BY <3>1, <3>2, <3>3, <3>4
  <2>2. Unharmed' /\ NoFalseErrors' BY <1>8 DEF Enable, Enabling, Enabled, Unharmed, NoFalseErrors
  <2>3. QED BY <2>1, <2>2
<1>9. CASE EnableUnsupported(t)
  <2>1. P' BY <1>9 DEF EnableUnsupported, Enabled, Holds, Prepared, Recent, Route
  <2>2. Unharmed' /\ NoFalseErrors' BY <1>9 DEF EnableUnsupported, Enabled, Unharmed, NoFalseErrors
  <2>3. QED BY <2>1, <2>2
<1>10. CASE EnableBusy(t)
  <2>1. ASSUME NEW u \in Task PROVE Holds(u)' /\ Prepared(u)' /\ Recent(u)' /\ Route(u)'
    <3>1. Holds(u)' BY <1>10 DEF EnableBusy, Enabling, Holds
    <3>2. Prepared(u)'
      <4>1. sealed' = sealed /\ mode' = mode BY <1>10 DEF EnableBusy
      <4>2. pc' = pc \/ pc' = [pc EXCEPT ![t] = "copy"] BY <1>10 DEF EnableBusy
      <4>3. pc'[u] \in {"link", "stat"} => pc[u] \in {"link", "stat"} BY <4>2
      <4>4. Prepared(u) OBVIOUS
      <4>5. QED BY <4>1, <4>3, <4>4 DEF Prepared
    <3>3. Recent(u)' BY <1>10 DEF EnableBusy, Enabling, Recent, Holds
    <3>4. Route(u)' BY <1>10 DEF EnableBusy, Enabling, Route
    <3>5. QED BY <3>1, <3>2, <3>3, <3>4
  <2>2. Unharmed' /\ NoFalseErrors' BY <1>10 DEF EnableBusy, Enabling, Unharmed, NoFalseErrors
  <2>3. QED BY <2>1, <2>2
<1>11. CASE Stat(t)
  <2>1. P' BY <1>11 DEF Stat, Holds, Prepared, Recent, Route
  <2>2. Unharmed' /\ NoFalseErrors' BY <1>11 DEF Stat, Unharmed, NoFalseErrors
  <2>3. QED BY <2>1, <2>2
<1>12. CASE Link(t)
  <2>1. P' BY <1>12 DEF Link, Holds, Prepared, Recent, Route
  <2>2. Unharmed' BY <1>12 DEF Link, Unharmed
  <2>3. NoFalseErrors' BY <1>12 DEF Link, NoFalseErrors, Prepared
  <2>4. QED BY <2>1, <2>2, <2>3
<1>13. CASE Finish(t)
  <2>1. P' BY <1>13 DEF Finish, Holds, Prepared, Recent, Route
  <2>2. Unharmed' /\ NoFalseErrors' BY <1>13 DEF Finish, Unharmed, NoFalseErrors
  <2>3. QED BY <2>1, <2>2
<1>14. CASE EnableFails(t)
  <2>1. pc' = [pc EXCEPT ![t] = pc'[t]] /\ Enabling(t) /\ pc'[t] \in {"copy", "error"}
    BY <1>14 DEF EnableFails
  <2>2. UNCHANGED <<world, entry, obj, how, sealed>> /\ device = "failing"
    BY <1>14 DEF EnableFails
  <2>3. P' BY <2>1, <2>2 DEF Enabling, Holds, Prepared, Recent, Route
  <2>4. Unharmed' /\ NoFalseErrors' BY <2>2 DEF Unharmed, NoFalseErrors
  <2>5. QED BY <2>3, <2>4
<1>15. CASE IoFails(t)
  <2>1. P' BY <1>15 DEF IoFails, Holds, Prepared, Recent, Route
  <2>2. Unharmed' /\ NoFalseErrors' BY <1>15 DEF IoFails, Unharmed, NoFalseErrors
  <2>3. QED BY <2>1, <2>2
<1>16. QED
  BY <1>3, <1>4, <1>5, <1>6, <1>7, <1>8, <1>9, <1>10, <1>11, <1>12, <1>13, <1>14, <1>15 DEF Step

\* Whatever happens next, a fork, a sync or a power failure included.
LEMMA NextIInv == ASSUME IInv, [Next]_vars PROVE IInv'
<1>1. TypeOK /\ TypeOK'
  BY TypeNext DEF IInv
<1>2. mode.insecure \in BOOLEAN /\ mode.fsverity \in BOOLEAN
  BY <1>1 DEF TypeOK, Modes
<1> USE <1>1, <1>2, ObjectStoreConstants DEF IInv, TypeOK, world, own, Good, File, PC
<1> DEFINE P == \A u \in Task : Holds(u) /\ Prepared(u) /\ Recent(u) /\ Route(u)
<1>3. ASSUME NEW t \in Task, NEW o \in Object, ensure_object(t, o) \/ create_object_tmpfile(t, o)
      PROVE  IInv'
  <2>1. P' BY <1>3 DEF ensure_object, create_object_tmpfile, Begin, Goto, Holds, Prepared, Recent, Route
  <2>2. Unharmed' /\ NoFalseErrors'
    BY <1>3 DEF ensure_object, create_object_tmpfile, Begin, Goto, Unharmed, NoFalseErrors
  <2>3. QED BY <2>1, <2>2
<1>4. ASSUME NEW t \in Task, Step(t) \/ Finish(t) PROVE IInv'
  BY <1>4, StepIInv
<1>5. ASSUME NEW c \in Child, Fork(c) PROVE IInv'
  <2>1. P' BY <1>5 DEF Fork, Holds, Prepared, Recent, Route
  <2>2. Unharmed' /\ NoFalseErrors' BY <1>5 DEF Fork, Unharmed, NoFalseErrors
  <2>3. QED BY <2>1, <2>2
<1>6. ASSUME NEW c \in Child, Exec(c) PROVE IInv'
  <2>1. P' BY <1>6 DEF Exec, Holds, Prepared, Recent, Route
  <2>2. Unharmed' /\ NoFalseErrors' BY <1>6 DEF Exec, Unharmed, NoFalseErrors
  <2>3. QED BY <2>1, <2>2
<1>7. CASE sync
  <2>1. P' BY <1>7 DEF sync, task, Holds, Prepared, Recent, Route
  <2>2. Unharmed' /\ NoFalseErrors' BY <1>7 DEF sync, task, Unharmed, NoFalseErrors
  <2>3. QED BY <2>1, <2>2
<1>8. CASE PowerFailure
  <2>1. P' BY <1>8 DEF PowerFailure, Holds, Prepared, Recent, Route
  <2>2. failures' # 0 BY <1>8 DEF PowerFailure
  <2>3. QED BY <2>1, <2>2 DEF Unharmed, NoFalseErrors
<1>9. CASE UNCHANGED vars
  <2>1. P' BY <1>9 DEF vars, task, Holds, Prepared, Recent, Route
  <2>2. Unharmed' /\ NoFalseErrors' BY <1>9 DEF vars, task, Unharmed, NoFalseErrors
  <2>3. QED BY <2>1, <2>2
<1>10. CASE DeviceFails \/ DeviceRecovers
  <2>1. P' BY <1>10 DEF DeviceFails, DeviceRecovers, task, Holds, Prepared, Recent, Route
  <2>2. Unharmed' /\ NoFalseErrors'
    BY <1>10 DEF DeviceFails, DeviceRecovers, task, Unharmed, NoFalseErrors
  <2>3. QED BY <2>1, <2>2
<1>11. QED
  BY <1>3, <1>4, <1>5, <1>6, <1>7, <1>8, <1>9, <1>10 DEF Next

THEOREM Invariance == Spec => []IInv
<1>1. Init => IInv
  BY InitIInv
<1>2. IInv /\ [Next]_vars => IInv'
  BY NextIInv
<1>3. QED BY <1>1, <1>2, PTL DEF Spec

\* What ensure_object reports as stored is there, complete and sealed, in a
\* repository without insecure: whatever runs at the same time, and whatever power
\* failures have left.
THEOREM WordKept == Spec => []StoreKeepsWord
<1>1. IInv => StoreKeepsWord
  BY DEF IInv, Recent, StoreKeepsWord
<1>2. QED BY <1>1, Invariance, PTL

\* Without insecure no task fails because of the others, of children that hold its
\* file open, or of a file found there, unless one was left without fs-verity or
\* the power has failed.
THEOREM ErrorsAreReal == Spec => []NoFalseErrors
<1>1. IInv => NoFalseErrors
  BY DEF IInv
<1>2. QED BY <1>1, Invariance, PTL

\* Only linkat of a prepared file makes an entry appear; a power failure takes
\* entries away, or harms them, and makes none.
LEMMA OnlyLinkAdds ==
  ASSUME IInv, [Next]_vars, NEW o \in Object, entry[o] = Absent, entry'[o] # Absent
  PROVE  Good(entry'[o]) /\ entry'[o].sealed = mode.fsverity
<1> USE ObjectStoreConstants DEF IInv, TypeOK, world, own, File, PC
<1>1. PICK t \in Task : Link(t) /\ obj[t] = o
  <2>1. ASSUME NEW t \in Task, Upgrade(t) PROVE entry'[o] = entry[o]
    BY <2>1 DEF Upgrade, Holds
  <2>2. ASSUME PowerFailure PROVE entry'[o] = entry[o]
    BY <2>2 DEF PowerFailure
  <2>3. ASSUME NEW t \in Task, Link(t), obj[t] # o PROVE entry'[o] = entry[o]
    BY <2>3 DEF Link
  <2>4. QED
    BY <2>1, <2>2, <2>3 DEF Next, vars, task, Step, ensure_object, create_object_tmpfile, Begin,
      Lookup, Measure, Remeasure, Written, Enable, EnableUnsupported, EnableBusy, EnableFails,
      Stat, IoFails, Finish, Fork, Exec, DeviceFails, DeviceRecovers, sync
<1>2. entry'[o] = [data |-> "good", sealed |-> sealed[t]] /\ pc[t] = "link"
  BY <1>1 DEF Link
<1>3. sealed[t] = mode.fsverity
  BY <1>2 DEF Prepared
<1>4. QED
  BY <1>2, <1>3 DEF Good

\* Nobody ever sees part of an object under its name, or one that could have been
\* sealed and is not.
THEOREM AppearsCompleteAlways == Spec => AppearsComplete
<1>1. ASSUME IInv, [Next]_vars
      PROVE  \A o \in Object :
               entry[o] = Absent /\ entry'[o] # Absent =>
                 Good(entry'[o]) /\ entry'[o].sealed = mode.fsverity
  BY <1>1, OnlyLinkAdds
<1>2. QED BY <1>1, Invariance, PTL DEF Spec, AppearsComplete

-------------------------------------------------------------------------------
(* Links *)

LEMMA LinkInitInv == LinkInit => LinkIInv
BY ReplaceSymlinkConstants DEF LinkInit, LinkIInv, LinkTypeOK, TempsApart, TriesLeft, CallState, Running

\* Every step keeps the types and the ownership of the temporary links.
LEMMA LinkStepInv == LinkIInv /\ [LinkNext]_linkVars => LinkIInv'
<1> SUFFICES ASSUME LinkIInv, [LinkNext]_linkVars PROVE LinkIInv'
  OBVIOUS
<1> USE ReplaceSymlinkConstants DEF LinkIInv, CallState, Running, Enter
<1>1. ASSUME NEW p \in Proc, NEW t \in Target, replace_symlinkat(p, t) PROVE LinkIInv'
  <2>1. LinkTypeOK' BY <1>1 DEF LinkTypeOK, replace_symlinkat
  <2>2. TempsApart' BY <1>1 DEF LinkTypeOK, TempsApart, replace_symlinkat
  <2>3. TriesLeft' BY <1>1 DEF LinkTypeOK, TriesLeft, replace_symlinkat
  <2> QED BY <2>1, <2>2, <2>3
<1>2. ASSUME NEW p \in Proc, Create(p) PROVE LinkIInv'
  <2>1. LinkTypeOK' BY <1>2 DEF LinkTypeOK, Create
  <2>2. TempsApart' BY <1>2 DEF LinkTypeOK, TempsApart, Create
  <2>3. TriesLeft' BY <1>2 DEF LinkTypeOK, TriesLeft, Create
  <2> QED BY <2>1, <2>2, <2>3
<1>3. ASSUME NEW p \in Proc, Read(p) PROVE LinkIInv'
  <2>1. LinkTypeOK' BY <1>3 DEF LinkTypeOK, Read
  <2>2. TempsApart' BY <1>3 DEF LinkTypeOK, TempsApart, Read
  <2>3. TriesLeft' BY <1>3 DEF LinkTypeOK, TriesLeft, Read
  <2> QED BY <2>1, <2>2, <2>3
<1>4. ASSUME NEW p \in Proc, Draw(p) PROVE LinkIInv'
  <2> PICK n \in Name :
        IF temps[n] = None
        THEN /\ temps' = [temps EXCEPT ![n] = target[p]]
             /\ temp' = [temp EXCEPT ![p] = n]
             /\ Enter(p, "rename")
             /\ UNCHANGED tries
        ELSE /\ tries' = [tries EXCEPT ![p] = @ + 1]
             /\ Enter(p, IF tries[p] + 1 = MaxTries THEN "failed" ELSE "draw")
             /\ UNCHANGED <<temps, temp>>
    BY <1>4 DEF Draw
  <2> /\ call[p] = "draw" /\ UNCHANGED <<link, target>>
    BY <1>4 DEF Draw
  <2>1. CASE temps[n] = None
    <3>1. LinkTypeOK' BY <2>1 DEF LinkTypeOK
    \* The name is nobody else's: the link of that name was not there.
    <3>2. \A q \in Proc : temp[q] # n
      BY <2>1 DEF LinkTypeOK, TempsApart
    <3>3. TempsApart' BY <2>1, <3>2 DEF LinkTypeOK, TempsApart
    <3>4. TriesLeft' BY <2>1, <3>2 DEF LinkTypeOK, TriesLeft
    <3> QED BY <3>1, <3>3, <3>4
  <2>2. CASE temps[n] # None
    <3>1. tries[p] + 1 \in 0..MaxTries
      BY DEF LinkTypeOK, TriesLeft
    <3>2. LinkTypeOK' BY <2>2, <3>1 DEF LinkTypeOK
    <3>3. TempsApart' BY <2>2 DEF LinkTypeOK, TempsApart
    <3>4. TriesLeft' BY <2>2 DEF LinkTypeOK, TriesLeft
    <3> QED BY <3>2, <3>3, <3>4
  <2> QED BY <2>1, <2>2
<1>5. ASSUME NEW p \in Proc, Rename(p) PROVE LinkIInv'
  <2>1. LinkTypeOK' BY <1>5 DEF LinkTypeOK, TempsApart, Rename
  <2>2. TempsApart' BY <1>5 DEF LinkTypeOK, TempsApart, Rename
  <2>3. TriesLeft' BY <1>5 DEF LinkTypeOK, TriesLeft, Rename
  <2> QED BY <2>1, <2>2, <2>3
<1>6. ASSUME NEW p \in Proc, RenameFailed(p) PROVE LinkIInv'
  <2>1. LinkTypeOK' BY <1>6 DEF LinkTypeOK, RenameFailed
  <2>2. TempsApart' BY <1>6 DEF LinkTypeOK, TempsApart, RenameFailed
  <2>3. TriesLeft' BY <1>6 DEF LinkTypeOK, TriesLeft, RenameFailed
  <2> QED BY <2>1, <2>2, <2>3
<1>7. ASSUME NEW p \in Proc, CallFailed(p) \/ Return(p) \/ Die(p) PROVE LinkIInv'
  <2>1. LinkTypeOK' BY <1>7 DEF LinkTypeOK, CallFailed, Return, Die
  <2>2. TempsApart' BY <1>7 DEF LinkTypeOK, TempsApart, CallFailed, Return, Die
  <2>3. TriesLeft' BY <1>7 DEF LinkTypeOK, TriesLeft, CallFailed, Return, Die
  <2> QED BY <2>1, <2>2, <2>3
<1>8. CASE UNCHANGED linkVars
  BY <1>8 DEF linkVars, LinkTypeOK, TempsApart, TriesLeft
<1> QED BY <1>1, <1>2, <1>3, <1>4, <1>5, <1>6, <1>7, <1>8 DEF LinkNext, CallStep

\* No two calls share a temporary link, and each call has one that points where it
\* was asked to (symlinkat refuses a name that exists).
THEOREM TempsOwned == LinkSpec => []LinkIInv
BY LinkInitInv, LinkStepInv, PTL DEF LinkSpec

-------------------------------------------------------------------------------
LEMMA InitRefines == LinkInit => Atomic!Init
BY DEF LinkInit, Atomic!Init, Running

\* A step of a call is the abstract step that it is named after, or none.
LEMMA StepRefines == LinkIInv /\ [LinkNext]_linkVars => [Atomic!Next]_<<link,
    [p \in Proc |-> IF call[p] \in Running THEN "called" ELSE call[p]], target>>
<1> DEFINE st == [p \in Proc |-> IF call[p] \in Running THEN "called" ELSE call[p]]
<1> SUFFICES ASSUME LinkIInv, [LinkNext]_linkVars
             PROVE  Atomic!Next \/ UNCHANGED <<link, st, target>>
  OBVIOUS
<1> USE DEF Running, CallState
<1>0. call \in [Proc -> CallState] /\ target \in [Proc -> Target] BY DEF LinkIInv, LinkTypeOK
<1>1. ASSUME NEW p \in Proc, NEW t \in Target, replace_symlinkat(p, t)
      PROVE  Atomic!Call(p, t)
  BY <1>0, <1>1 DEF replace_symlinkat, Enter, Atomic!Call
<1>2. ASSUME NEW p \in Proc, Create(p) PROVE Atomic!Apply(p) \/ UNCHANGED <<link, st, target>>
  BY <1>0, <1>2 DEF Create, Enter, Atomic!Apply
<1>3. ASSUME NEW p \in Proc, Read(p) PROVE Atomic!Apply(p) \/ UNCHANGED <<link, st, target>>
  BY <1>0, <1>3 DEF Read, Enter, Atomic!Apply
<1>4. ASSUME NEW p \in Proc, Draw(p) PROVE Atomic!Fail(p) \/ UNCHANGED <<link, st, target>>
  BY <1>0, <1>4 DEF Draw, Enter, Atomic!Fail
<1>5. ASSUME NEW p \in Proc, Rename(p) PROVE Atomic!Apply(p)
  \* What is renamed is the call's own link.
  <2>1. temps[temp[p]] = target[p] BY <1>5 DEF LinkIInv, TempsApart, Rename
  <2> QED BY <1>0, <1>5, <2>1 DEF Rename, Enter, Atomic!Apply
<1>6. ASSUME NEW p \in Proc, RenameFailed(p) PROVE Atomic!Fail(p)
  BY <1>0, <1>6 DEF RenameFailed, Enter, Atomic!Fail
<1>7. ASSUME NEW p \in Proc, CallFailed(p) PROVE Atomic!Fail(p)
  BY <1>0, <1>7 DEF CallFailed, Enter, Atomic!Fail
<1>8. ASSUME NEW p \in Proc, Return(p) \/ Die(p) PROVE Atomic!End(p)
  BY <1>0, <1>8 DEF Return, Die, Enter, Atomic!End
<1>9. CASE UNCHANGED linkVars
  BY <1>9 DEF linkVars
<1> QED
  BY <1>1, <1>2, <1>3, <1>4, <1>5, <1>6, <1>7, <1>8, <1>9 DEF LinkNext, CallStep, Atomic!Next

\* replace_symlinkat is atomic: with any number of callers and whoever dies, a reader
\* of the link sees the old target or the new one.
THEOREM IsAtomic == LinkSpec => ImplementsAtomicLink
BY LinkInitInv, LinkStepInv, InitRefines, StepRefines, PTL
   DEF LinkSpec, ImplementsAtomicLink, Atomic!Spec
===============================================================================
