---------------------------- MODULE ReplaceSymlink ----------------------------
(***************************************************************************)
(* replace_symlinkat of crates/composefs/src/util.rs: how the links of     *)
(* streams/, images/ and their refs/ are made, when several processes make *)
(* the same one.  Each step is one system call.  The name of a temporary   *)
(* link is drawn at random, so that two calls may draw the same one.       *)
(***************************************************************************)
EXTENDS Naturals

CONSTANTS
  Proc,
  Target,    \* what a link may be asked to point to
  Name,      \* the names a temporary link may be given
  None,      \* "there is no such link"
  MaxTries   \* how many names a call tries (16 in the code)

ASSUME ReplaceSymlinkConstants ==
  /\ None \notin Target \cup Name
  /\ MaxTries \in Nat \ {0}

VARIABLES
  link,    \* the link that the calls are about
  temps,   \* the temporary links
  call, target,
  temp,    \* the name of the call's own temporary link
  tries

linkVars == <<link, temps, call, target, temp, tries>>

Running == {"create", "read", "draw", "rename"}
CallState == {"idle", "done", "failed"} \cup Running

LinkTypeOK ==
  /\ link \in Target \cup {None}
  /\ temps \in [Name -> Target \cup {None}]
  /\ call \in [Proc -> CallState]
  /\ target \in [Proc -> Target]
  /\ temp \in [Proc -> Name \cup {None}]
  /\ tries \in [Proc -> 0..MaxTries]

LinkInit ==
  /\ link \in Target \cup {None}
  /\ temps = [n \in Name |-> None]
  /\ call = [p \in Proc |-> "idle"]
  /\ target \in [Proc -> Target]
  /\ temp = [p \in Proc |-> None]
  /\ tries = [p \in Proc |-> 0]

Enter(p, l) == call' = [call EXCEPT ![p] = l]

-------------------------------------------------------------------------------
(* Deliberate errors, for the properties to find *)

\* Draw with a temporary link of that name replaced.
DrawOver(p) ==
  /\ call[p] = "draw"
  /\ \E n \in Name :
       /\ temps' = [temps EXCEPT ![n] = target[p]]
       /\ temp' = [temp EXCEPT ![p] = n]
  /\ Enter(p, "rename")
  /\ UNCHANGED <<link, target, tries>>

\* Read that removes a link with another target, to make it anew.
ReadAndUnlink(p) ==
  /\ call[p] = "read"
  /\ link' = IF link = target[p] THEN link ELSE None
  /\ Enter(p, IF link = target[p] THEN "done" ELSE "create")
  /\ UNCHANGED <<temps, target, temp, tries>>

-------------------------------------------------------------------------------
replace_symlinkat(p, t) ==
  /\ call[p] = "idle"
  /\ target' = [target EXCEPT ![p] = t]
  /\ tries' = [tries EXCEPT ![p] = 0]
  /\ Enter(p, "create")
  /\ UNCHANGED <<link, temps, temp>>

\* Step 1: symlinkat, which fails with EEXIST if there is a link.
Create(p) ==
  /\ call[p] = "create"
  /\ link' = IF link = None THEN target[p] ELSE link
  /\ Enter(p, IF link = None THEN "done" ELSE "read")
  /\ UNCHANGED <<temps, target, temp, tries>>

\* Step 2: readlinkat.  Maybe the link is right already.
Read(p) ==
  /\ call[p] = "read"
  /\ Enter(p, IF link = target[p] THEN "done" ELSE "draw")
  /\ UNCHANGED <<link, temps, target, temp, tries>>

\* Step 3: a temporary link, under a name that is not taken, ...
Draw(p) ==
  /\ call[p] = "draw"
  /\ \E n \in Name :
       IF temps[n] = None
       THEN /\ temps' = [temps EXCEPT ![n] = target[p]]
            /\ temp' = [temp EXCEPT ![p] = n]
            /\ Enter(p, "rename")
            /\ UNCHANGED tries
       ELSE /\ tries' = [tries EXCEPT ![p] = @ + 1]
            /\ Enter(p, IF tries[p] + 1 = MaxTries THEN "failed" ELSE "draw")
            /\ UNCHANGED <<temps, temp>>
  /\ UNCHANGED <<link, target>>

\* ... and renameat.
Rename(p) ==
  /\ call[p] = "rename"
  /\ link' = temps[temp[p]]
  /\ temps' = [temps EXCEPT ![temp[p]] = None]
  /\ temp' = [temp EXCEPT ![p] = None]
  /\ Enter(p, "done")
  /\ UNCHANGED <<target, tries>>

\* The temporary link is removed, if that can be done: the error is ignored.
RenameFailed(p) ==
  /\ call[p] = "rename"
  /\ temps' \in {temps, [temps EXCEPT ![temp[p]] = None]}
  /\ temp' = [temp EXCEPT ![p] = None]
  /\ Enter(p, "failed")
  /\ UNCHANGED <<link, target, tries>>

\* symlinkat or readlinkat fails in a way the code does not provide for.
CallFailed(p) ==
  /\ call[p] \in {"create", "read", "draw"}
  /\ Enter(p, "failed")
  /\ UNCHANGED <<link, temps, target, temp, tries>>

Return(p) ==
  /\ call[p] \in {"done", "failed"}
  /\ Enter(p, "idle")
  /\ UNCHANGED <<link, temps, target, temp, tries>>

\* The process dies, and another takes its place.  Its temporary link stays.
Die(p) ==
  /\ call[p] \in Running
  /\ temp' = [temp EXCEPT ![p] = None]
  /\ Enter(p, "idle")
  /\ UNCHANGED <<link, temps, target, tries>>

CallStep(p) == Create(p) \/ Read(p) \/ Draw(p) \/ Rename(p)

LinkNext ==
  \E p \in Proc :
    \/ \E t \in Target : replace_symlinkat(p, t)
    \/ CallStep(p) \/ RenameFailed(p) \/ CallFailed(p) \/ Return(p) \/ Die(p)

LinkSpec == LinkInit /\ [][LinkNext]_linkVars
-------------------------------------------------------------------------------
(* Properties *)

\* No two calls have the same temporary link, and what a call is about to rename
\* points to what the call was asked for.
TempsApart ==
  \A p \in Proc :
    IF call[p] = "rename"
    THEN /\ temp[p] \in Name /\ temps[temp[p]] = target[p]
         /\ \A q \in Proc \ {p} : temp[q] # temp[p]
    ELSE temp[p] = None

\* A call that may still draw a name has a try left.
TriesLeft == \A p \in Proc : call[p] \in {"create", "read", "draw"} => tries[p] < MaxTries

\* The inductive invariant.
LinkIInv == LinkTypeOK /\ TempsApart /\ TriesLeft

\* The calls implement a link that is set in one step: a reader that looks at any
\* moment finds the old or the new target, the link is never missing once it is
\* there, and no call leaves it with a target that nobody in a call asked for.
Atomic == INSTANCE AtomicLink WITH
            stage  <- [p \in Proc |-> IF call[p] \in Running THEN "called" ELSE call[p]],
            wanted <- target

ImplementsAtomicLink == Atomic!Spec

===============================================================================
