---------------------------- MODULE StreamCatalog -----------------------------
(***************************************************************************)
(* What a repository promises about its streams, whatever happens to its   *)
(* processes: a stream becomes available in one step and only after        *)
(* everything it links to; a name is only ever given to an available       *)
(* stream; and a collection takes streams away in one step, all at once,   *)
(* never one that a name still reaches.                                    *)
(***************************************************************************)
CONSTANTS Stream, StreamRef, None, IdOf, Links

VARIABLES
  available,  \* the streams that can be opened and read to their last byte
  names       \* the named references

\* Every stream that a member of S links to is itself a member.
SelfContained(S) ==
  \A s \in S : \A o \in Links[IdOf[s]] : \E t \in S : IdOf[t] = o

Init ==
  /\ available = {}
  /\ names = [n \in StreamRef |-> None]

Publish(s) ==
  /\ SelfContained(available \cup {s})
  /\ available' = available \cup {s}
  /\ UNCHANGED names

Name(n, s) ==
  /\ s \in available
  /\ names' = [names EXCEPT ![n] = s]
  /\ UNCHANGED available

Collect(keep) ==
  /\ \A n \in StreamRef : names[n] # None => names[n] \in keep
  /\ SelfContained(keep)
  /\ available' = keep
  /\ UNCHANGED names

Next ==
  \/ \E s \in Stream : Publish(s)
  \/ \E n \in StreamRef, s \in Stream : Name(n, s)
  \/ \E keep \in SUBSET available : Collect(keep)

Spec == Init /\ [][Next]_<<available, names>>
===============================================================================
