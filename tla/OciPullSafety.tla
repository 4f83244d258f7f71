----------------------------- MODULE OciPullSafety -----------------------------
(***************************************************************************)
(* What a pull promises.                                                   *)
(***************************************************************************)
EXTENDS OciPull

TypeOK ==
  /\ image \in [Process -> Images]
  /\ pull \in [Process -> {"manifest", "spawn", "name", "done", "sealed", "error"}]
  /\ \A p \in Process : \A i \in DOMAIN task[p] :
       task[p][i] \in {"none", "ensure", "split", "driver", "bad", "register", "done", "failed"}
  /\ faults \in 0 .. MaxFaults
  /\ \A p \in Process : Cardinality(Running(p)) <= Threads

Configs == {c \in DOMAIN stream : c[1] = "oci-config"}

RefsOf(c) == {stream[c].refs[i] : i \in DOMAIN stream[c].refs}

\* The layers of a config, and those of them that the manifest goes far enough for.
DiffIds(p) == {image[p].diff_ids[i] : i \in DOMAIN image[p].diff_ids}
Paired(p)  == {image[p].diff_ids[i] : i \in Pairs(p)}

\* Who pulls an image with the same layers, and whose manifest lists them all.
Fellows(p) == {q \in Process : image[q].diff_ids = image[p].diff_ids}
Whole(p)   == Len(image[p].sizes) >= Len(image[p].diff_ids)

\* Two manifests with this config list other layers, or layers of other sizes.
Disputed(config) ==
  \E p, q \in Process :
    image[p].config = config /\ image[q].config = config /\ image[p].sizes # image[q].sizes

(***************************************************************************)
(* A config that is in the repository (ensure_config in skopeo.rs,         *)
(* write_config in lib.rs) has references to the layers that the manifest  *)
(* of somebody who has pulled these layers pairs with diff_ids, and to     *)
(* nothing else, and every one of them is there under its own identifier   *)
(* -- whichever tasks have failed, whoever was killed, and whoever else    *)
(* has fetched some of them.  These are all the layers of the image,       *)
(* provided that no manifest lists fewer layers than its config: zip says  *)
(* nothing if one does.  pull looks no further than for the config.        *)
(***************************************************************************)
ConfigComplete ==
  /\ TypeOK
  /\ \A p \in Process : \A c \in Configs :
       c[2] \in {image[p].config, Sealed(image[p].config)} =>
         /\ \E q \in Fellows(p) : RefsOf(c) = Paired(q)
         /\ (\A q \in Fellows(p) : Whole(q)) => RefsOf(c) = DiffIds(p)
         /\ \A d \in RefsOf(c) : has_stream(layer_identifier(d))

(***************************************************************************)
(* A layer is only there if skopeo has vouched for its data (ensure_layer  *)
(* awaits the driver before register_stream): nobody who finds it asks     *)
(* again.                                                                  *)
(***************************************************************************)
LayersVerified ==
  \A c \in DOMAIN stream : c[1] = "oci-layer" => stream[c] = LayerObject(c[2], TRUE)

(***************************************************************************)
(* Who pulls an image gets the same config stream, with the same fs-verity *)
(* digest, however its tasks were interleaved (ensure_config sorts what    *)
(* they return): a registered stream never becomes another one.  This is   *)
(* not so for what seal writes, nor where two manifests with one config    *)
(* do not agree on the layers.                                             *)
(***************************************************************************)
StreamsStable ==
  [][\A c \in DOMAIN stream :
       ~(c[1] = "oci-config" /\ (Disputed(c[2]) \/ \E p \in Process : c[2] = Sealed(image[p].config)))
         => c \in DOMAIN stream' /\ stream'[c] = stream[c]]_vars

(***************************************************************************)
(* If the proxy fails now and then but not for ever, everybody who tries   *)
(* again gets the image: no failure leaves something behind that is in the *)
(* way of the next attempt, and no task waits for a permit in vain.        *)
(***************************************************************************)
PullsSucceed == \A p \in Process : <>(pull[p] \in {"done", "sealed"})

(***************************************************************************)
(* The tag that pull has been asked to add leads to the image.             *)
(***************************************************************************)
TagLeadsToImage == \A r \in DOMAIN name : has_stream(name[r])
===============================================================================
