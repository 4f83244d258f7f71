--------------------------- MODULE HttpDownloadSafety ---------------------------
(***************************************************************************)
(* What a download promises.                                               *)
(***************************************************************************)
EXTENDS HttpDownload

TypeOK ==
  /\ objects \subseteq DOMAIN Data
  /\ phase \in {"name", "streams", "objects", "verify", "done", "error"}
  /\ name \in DOMAIN Names
  /\ my_id \in DOMAIN Data \cup {None}
  /\ {splitstreams_todo[i] : i \in DOMAIN splitstreams_todo} \subseteq DOMAIN splitstreams
  /\ objects_todo \cup DOMAIN tasks \cup verified \subseteq DOMAIN Data
  /\ faults \in 0 .. MaxFaults

NamedOf(id) == {Data[id].named[i] : i \in DOMAIN Data[id].named}

\* The streams one comes to from a stream, and all objects these need.
StreamsFrom(id) ==
  LET step(S) == S \cup UNION {{n.id : n \in NamedOf(s)} : s \in S}
      upto[n \in 0 .. Cardinality(DOMAIN Data)] == IF n = 0 THEN {id} ELSE step(upto[n - 1])
  IN  upto[Cardinality(DOMAIN Data)]

Needed(id) == StreamsFrom(id) \cup UNION {Data[s].objects : s \in StreamsFrom(id)}

\* Every referent of a stream gives the checksum that its content has.
TruthfulFrom(id) ==
  \A s \in StreamsFrom(id) : \A n \in NamedOf(s) : n.body = Data[n.id].body

(***************************************************************************)
(* When download returns without an error, the stream with the name, all   *)
(* streams it leads to and all objects of all of them are in the           *)
(* repository, and each stream's content has the checksum by which the     *)
(* others refer to it -- whatever the server has sent, whatever was there  *)
(* before, and in whatever order the tasks have ended.                     *)
(***************************************************************************)
DoneIsComplete ==
  phase = "done" =>
    /\ my_id = Names[name].id
    /\ Needed(my_id) \subseteq objects
    /\ TruthfulFrom(my_id)

(***************************************************************************)
(* There are never more requests than the limit, and as long as objects    *)
(* are waiting to be fetched there are no fewer (the loop around           *)
(* join_next): no object is left when the last task has been joined.       *)
(***************************************************************************)
TasksBounded ==
  /\ TypeOK
  /\ phase = "objects" =>
       /\ Cardinality(DOMAIN tasks) <= MaxTasks
       /\ objects_todo # {} => Cardinality(DOMAIN tasks) = MaxTasks

\* The server has everything the name needs, or the repository has.
Available ==
  /\ TruthfulFrom(Names[name].id)
  /\ \A s \in StreamsFrom(Names[name].id) : Data[s].stream
  /\ \A id \in Needed(Names[name].id) : id \in objects \/ Fetched(id) = {id}

(***************************************************************************)
(* If the server has what is needed and requests do not fail for ever, a   *)
(* download that is tried again ends with success: what is in the          *)
(* repository, also what earlier attempts have left, is never in the way.  *)
(***************************************************************************)
DownloadSucceeds == []Available => <>(phase = "done")
===============================================================================
