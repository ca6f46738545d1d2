------------------------------ MODULE Documents -----------------------------
(***************************************************************************)
(* The private files of one customer (service/private_uploads.go 62-163,   *)
(* 253-278): a row in the database and an encrypted object in a store      *)
(* outside it, written one after the other.  An upload checks, puts the    *)
(* object, then publishes the row; a deletion marks the row, then removes  *)
(* the object.  The process may die between any two of them, and the       *)
(* answer to a commit may be lost.  An identity is drawn for each upload,  *)
(* so a file has one life.  Scans and quotas only refuse.                  *)
(***************************************************************************)
EXTENDS FiniteSets

CONSTANTS Uploads,
          SupportUploads   \* those whose purpose is "support"; the others' is "kyc"

ASSUME DocumentAssumption == SupportUploads \subseteq Uploads

VARIABLES
  document,   \* private_uploads.state, "none" before the row exists
  object,     \* the objects in the store
  stage,      \* where the call that uploads or deletes a file is
  answerLost  \* history: uploads whose row was committed without an answer

documentVars == <<document, object, stage, answerLost>>

DocumentTypeOK ==
  /\ document \in [Uploads -> {"none", "clean", "deleted"}]
  /\ object \subseteq Uploads
  /\ stage \in [Uploads -> {"new", "checked", "stored", "cleanup", "kept", "deleting", "over"}]
  /\ answerLost \subseteq Uploads

DocumentInit ==
  /\ document = [u \in Uploads |-> "none"]
  /\ object = {}
  /\ stage = [u \in Uploads |-> "new"]
  /\ answerLost = {}

Stage(u, from, to) == stage[u] = from /\ stage' = [stage EXCEPT ![u] = to]

CheckUpload(u) ==
  /\ Stage(u, "new", "checked")
  /\ UNCHANGED <<document, object, answerLost>>

PutObject(u) ==
  /\ Stage(u, "checked", "stored")
  /\ object' = object \cup {u}
  /\ UNCHANGED <<document, answerLost>>

(* Put reports an error: it may have written or not.                       *)
PutFails(u) ==
  /\ Stage(u, "checked", "over")
  /\ object' \in {object, object \cup {u}}
  /\ UNCHANGED <<document, answerLost>>

Publish(u) ==
  /\ Stage(u, "stored", "kept")
  /\ document' = [document EXCEPT ![u] = "clean"]
  /\ UNCHANGED <<object, answerLost>>

(* The transaction is refused, or its commit fails before or after it took *)
(* effect: the caller sees an error in each case and removes the object.   *)
PublishFails(u) ==
  /\ Stage(u, "stored", "cleanup")
  /\ UNCHANGED <<document, object, answerLost>>

PublishAnswerLost(u) ==
  /\ Stage(u, "stored", "cleanup")
  /\ document' = [document EXCEPT ![u] = "clean"]
  /\ answerLost' = answerLost \cup {u}
  /\ UNCHANGED object

(* Best effort: the removal may fail.                                      *)
RemoveObject(u) ==
  /\ \/ Stage(u, "cleanup", "over")
     \/ Stage(u, "deleting", "over")
  /\ object' \in {object, object \ {u}}
  /\ UNCHANGED <<document, answerLost>>

UploadDies(u) ==
  /\ stage[u] \in {"checked", "stored", "cleanup", "deleting"}
  /\ stage' = [stage EXCEPT ![u] = "over"]
  /\ UNCHANGED <<document, object, answerLost>>

(* DeleteUpload; "connected" files are retained.                           *)
DeleteUpload(u, connected) ==
  /\ document[u] = "clean" /\ ~connected
  /\ document' = [document EXCEPT ![u] = "deleted"]
  /\ stage' = [stage EXCEPT ![u] = "deleting"]
  /\ UNCHANGED <<object, answerLost>>
=============================================================================
