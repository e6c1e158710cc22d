----------------------------- MODULE PublishOnce -----------------------------
(***************************************************************************)
(* What the three atomic_create functions promise their callers:           *)
(* archive_v1.rs ("Existing targets are never overwritten"), archive_v2.rs *)
(* (shared by Archive V3) and portable_session.rs.  A call publishes its   *)
(* bytes at the target path at most once, completely, only where nothing   *)
(* stands, and its result tells whether it did, except where a caller adds *)
(* steps whose errors look the same (Vague).  How temporary names, hard    *)
(* links and directory flushes achieve it is left to AtomicCreate; how     *)
(* directories are published likewise, to DirectoryPublication.            *)
(***************************************************************************)

CONSTANTS Calls,     \* every call that may be made
          Vague,     \* results that say nothing about the publication
          NoFile     \* nothing at the target path

VARIABLES visible,   \* the call whose complete bytes stand at the target
          published, \* history: calls whose bytes ever stood there
          outcome    \* what each call has returned

vars == <<visible, published, outcome>>

Succeeded == {"ok", "dirty"}        \* Ok, Err(PublishedWithCleanupError)
Refused   == {"exists", "failed"}   \* Err(AlreadyExists), any other Err

Init ==
  /\ visible = NoFile
  /\ published = {}
  /\ outcome = [c \in Calls |-> "pending"]

Publish(c) ==
  /\ visible = NoFile
  /\ c \notin published
  /\ outcome[c] = "pending"
  /\ visible' = c
  /\ published' = published \cup {c}
  /\ UNCHANGED outcome

\* A call that reports success has published, a call that is refused has not
\* and never will, and AlreadyExists needs another publication.
Return(c, r) ==
  /\ outcome[c] = "pending"
  /\ r \in Succeeded => c \in published
  /\ r \in Refused => c \notin published
  /\ r = "exists" => published # {}
  /\ outcome' = [outcome EXCEPT ![c] = r]
  /\ UNCHANGED <<visible, published>>

\* The owner of the directory deletes the file.
Remove ==
  /\ visible # NoFile
  /\ visible' = NoFile
  /\ UNCHANGED <<published, outcome>>

\* After a power failure the directory shows the name it last made durable.
Recover ==
  /\ visible' \in published \cup {NoFile}
  /\ UNCHANGED <<published, outcome>>

Next ==
  \/ \E c \in Calls : Publish(c) \/ \E r \in Succeeded \cup Refused \cup Vague : Return(c, r)
  \/ Remove
  \/ Recover

Spec == Init /\ [][Next]_vars
=============================================================================
