-------------------------- MODULE CanonicalHistory --------------------------
(***************************************************************************)
(* What ingestion promises, without locks, ledgers or processes: every     *)
(* event is decided once, its effect on the canonical record happens       *)
(* together with the decision, it is settled only after that, and a        *)
(* message that was removed is never written or published again.           *)
(***************************************************************************)
EXTENDS Naturals

CONSTANTS Messages, Revisions, SourceTime, ExportRevisions, Absent,
          Events, Verdicts

VARIABLES
  content,   \* the canonical revision of a message, or Absent
  removed,   \* messages known to be deleted at the source
  public,    \* messages whose listing is shown
  verdict,   \* the decision about an event, or Absent
  done       \* the events nobody will work on again

vars == <<content, removed, public, verdict, done>>

Init ==
  /\ content \in [Messages -> Revisions \cup {Absent}]
  /\ removed \subseteq Messages
  /\ public \subseteq Messages \ removed
  /\ verdict = [e \in Events |-> Absent]
  /\ done = {}

NotOlder(m, r) == content[m] # Absent => SourceTime[content[m]] <= SourceTime[r]

\* The canonical revision of m becomes r.
Write(m, r) ==
  /\ m \notin removed
  /\ content' = [content EXCEPT ![m] = r]
  /\ UNCHANGED <<removed, public>>

Remove(m) ==
  /\ removed' = removed \cup {m}
  /\ public' = public \ {m}
  /\ UNCHANGED content

Effect(e, d) ==
  CASE d = "deleted" -> Remove(e.msg)
    [] d \in {"applied", "non_candidate"} ->
         NotOlder(e.msg, e.rev) /\ Write(e.msg, e.rev)
    [] OTHER -> UNCHANGED <<content, removed, public>>

Decide(e) ==
  /\ verdict[e] = Absent
  /\ \E d \in Verdicts : verdict' = [verdict EXCEPT ![e] = d] /\ Effect(e, d)
  /\ UNCHANGED done

\* A delivery of an event that was decided before: it may bring its revision
\* back over an older one, or carry out a removal, and decides nothing.
Redeliver(e) ==
  /\ verdict[e] # Absent
  /\ Remove(e.msg) \/ (NotOlder(e.msg, e.rev) /\ Write(e.msg, e.rev))
  /\ UNCHANGED <<verdict, done>>

\* A batch writer brings a revision of an export, however old.
Import(m) ==
  /\ \E r \in ExportRevisions : Write(m, r)
  /\ UNCHANGED <<verdict, done>>

\* A batch writer meets a message whose deletion is on file.
Clear(m) == Remove(m) /\ UNCHANGED <<verdict, done>>

Publish ==
  /\ \E S \in SUBSET (Messages \ removed) : public' = public \cup S
  /\ UNCHANGED <<content, removed, verdict, done>>

Settle(e) ==
  /\ verdict[e] # Absent
  /\ done' = done \cup {e}
  /\ UNCHANGED <<content, removed, public, verdict>>

Next ==
  \/ \E e \in Events : Decide(e) \/ Redeliver(e) \/ Settle(e)
  \/ \E m \in Messages : Import(m) \/ Clear(m)
  \/ Publish

Spec == Init /\ [][Next]_vars
=============================================================================
