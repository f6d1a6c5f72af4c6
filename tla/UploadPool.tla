----------------------------- MODULE UploadPool -----------------------------
(***************************************************************************)
(* What the write-back queue promises to the code that hands it uploads,   *)
(* without workers, attempts or a channel.  An accepted upload is pending   *)
(* until it is uploaded or abandoned; its bytes are never in neither of the *)
(* two places, the staging directory and the bucket; and the pool closes    *)
(* only when nothing accepted before the close is pending, after which it   *)
(* does nothing any more.                                                   *)
(***************************************************************************)
CONSTANT Upload

VARIABLES
  status,   \* what became of each upload
  copies,   \* where its bytes are: {"staging"}, {"bucket"} or both
  gate,     \* "open", then "closing", then "closed"
  late      \* the uploads accepted after the close began

vars == <<status, copies, gate, late>>

Status == {"new", "refused", "pending", "uploaded", "abandoned"}

Init ==
  /\ status = [u \in Upload |-> "new"]
  /\ copies = [u \in Upload |-> {}]
  /\ gate = "open"
  /\ late = {}

Accept(u) ==
  /\ status[u] = "new"
  /\ status' = [status EXCEPT ![u] = "pending"]
  /\ copies' = [copies EXCEPT ![u] = {"staging"}]
  /\ late' = IF gate = "open" THEN late ELSE late \union {u}
  /\ UNCHANGED gate

Refuse(u) ==
  /\ status[u] = "new"
  /\ status' = [status EXCEPT ![u] = "refused"]
  /\ UNCHANGED <<copies, gate, late>>

(* A PUT of the upload reaches the bucket, whether or not its answer will. *)
Land(u) ==
  /\ gate # "closed"
  /\ status[u] = "pending"
  /\ copies' = [copies EXCEPT ![u] = @ \union {"bucket"}]
  /\ UNCHANGED <<status, gate, late>>

(* The staging copy may outlive the upload. *)
Finish(u) ==
  /\ gate # "closed"
  /\ status[u] = "pending"
  /\ "bucket" \in copies[u]
  /\ status' = [status EXCEPT ![u] = "uploaded"]
  /\ copies' \in {copies, [copies EXCEPT ![u] = @ \ {"staging"}]}
  /\ UNCHANGED <<gate, late>>

Abandon(u) ==
  /\ gate # "closed"
  /\ status[u] = "pending"
  /\ status' = [status EXCEPT ![u] = "abandoned"]
  /\ UNCHANGED <<copies, gate, late>>

BeginClose ==
  /\ gate = "open"
  /\ gate' = "closing"
  /\ UNCHANGED <<status, copies, late>>

Close ==
  /\ gate = "closing"
  /\ {u \in Upload : status[u] = "pending"} \subseteq late
  /\ gate' = "closed"
  /\ UNCHANGED <<status, copies, late>>

Next ==
  \/ \E u \in Upload :
       Accept(u) \/ Refuse(u) \/ Land(u) \/ Finish(u) \/ Abandon(u)
  \/ BeginClose
  \/ Close

Spec == Init /\ [][Next]_vars
=============================================================================
