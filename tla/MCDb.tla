------------------------------- MODULE MCDb -------------------------------
\* A small instance of Db.
EXTENDS Db, TLC

\* Two files: one whose key is its uuid, one whose key takes in what lies
\* behind the uuid.
MCUuids == {"f1", "f2"}
MCKeyLen == "f1" :> 8 @@ "f2" :> 24
MCHead == "f1" :> "f" @@ "f2" :> "f"
=============================================================================
