------------------------------ MODULE EventFeed ------------------------------
(***************************************************************************)
(* What the metric store promises its readers, whatever the processes that *)
(* write it do: samples are recorded under distinct, past timestamps; an   *)
(* event is reported only about a sample that is stored at that moment, at *)
(* most once per subject and sample, and in time order; and a row leaves   *)
(* the store only once it is older than the retention.                     *)
(* Sampler.tla is shown to implement this specification.                   *)
(***************************************************************************)
EXTENDS Integers

CONSTANTS Subjects,    \* what events are about: cpu, memory, ..., the collector
          Observations,\* what a sample may say of all the subjects
          Retention    \* age at which rows may be deleted

VARIABLES now,         \* logical time: the newest timestamp handed out
          samples,     \* table metric_samples
          events       \* table events

vars == <<now, samples, events>>

Init == now = 0 /\ samples = {} /\ events = {}

\* Time passes, without or with a collection that takes the new instant.
Advance ==
  /\ now' = now + 1
  /\ UNCHANGED <<samples, events>>

\* A collected sample enters the table under a timestamp of its own.
Record ==
  \E s \in [ts : 1 .. now, obs : Observations, ctx : {"live", "cancelled"}] :
    /\ \A other \in samples : other.ts # s.ts
    /\ samples' = samples \cup {s}
  /\ UNCHANGED <<now, events>>

\* A transition is reported about a sample the table holds.
Report ==
  \E s \in samples, subject \in Subjects :
   \E from \in {obs[subject] : obs \in Observations} \ {s.obs[subject]} :
    /\ \A e \in events : /\ e.at <= s.ts
                         /\ e.at = s.ts => e.subject < subject
    /\ events' = events \cup
         {[subject |-> subject, from |-> from, to |-> s.obs[subject], at |-> s.ts]}
  /\ UNCHANGED <<now, samples>>

\* Rows older than a cutoff leave one of the tables.
Retire ==
  \E cutoff \in 0 .. now - Retention :
    \/ /\ samples' = {s \in samples : s.ts >= cutoff}
       /\ UNCHANGED <<now, events>>
    \/ /\ events' = {e \in events : e.at >= cutoff}
       /\ UNCHANGED <<now, samples>>

Next == Advance \/ Record \/ Report \/ Retire

Spec == Init /\ [][Next]_vars
=============================================================================
