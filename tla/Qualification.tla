---------------------------- MODULE Qualification ----------------------------
(***************************************************************************)
(* QualificationService and SQLiteQualificationRepository: one dataset of   *)
(* evidence and the qualification run that it is bound to.                  *)
(*                                                                         *)
(* Several sessions, each with the repository it loaded when it started,    *)
(* work on one database.  A repository checks a record against what it has  *)
(* in memory and then inserts it; the database refuses a row whose key it   *)
(* has.  A refused or failed insertion restores the memory, so that it is   *)
(* no step here; finalize_evaluation restores more than it changed.  A      *)
(* caller may pass any revision of the dataset that its session has seen.   *)
(***************************************************************************)
EXTENDS GraduationGates

CONSTANTS
    Session,
    Generation,     \* dependency manifests, by their digest
    ExpiryOf,       \* when the acceptances of each expire
    History,        \* what M9 may have recorded: [Key -> [claim, decision]]
    Compatible,     \* the keys whose view and invocations are those of their generation
    StatusOf,       \* StatusOf[k]: the M8 outcome of the intent of decision k
    RealizedOf,     \* and its realized multiple
    Incident,       \* incidents that may be recorded: [id, category]
    Kind,           \* the kinds the partition may be declared with
    MaxRevisions, MaxTime, MaxReassessments     \* bounds

ASSUME QualificationAssumption ==
    /\ \A k \in Key : k > 0
    /\ Incident \subseteq [id : Nat, category : IncidentCategory]
    /\ Kind \subseteq {"RESEARCH", "VALIDATION", "OUT_OF_SAMPLE"}
    /\ ExpiryOf \in [Generation -> Nat]
    /\ \A k \in Key : StatusOf[k] \in Resolved <=> RealizedOf[k] # None

VARIABLES
    now,
    kind,           \* of the declared partition
    m9,             \* the observation repository: [Key -> [claim, decision]]
    manifest,       \* the current dependency manifest
    disk,           \* the tables
    memory,         \* memory[s]: the repository of a session, None when it is not running
    pending         \* pending[s]: a status that reassess_current has yet to append

vars == <<now, kind, m9, manifest, disk, memory, pending>>

NoEvidence == [claims |-> <<>>, decisions |-> <<>>, outcomes |-> {}, incidents |-> {}]

Empty == [evidence |-> <<>>, run |-> None, validity |-> <<>>, evaluations |-> {},
          statuses |-> <<>>]

\* What a repository loads: the tables, and _evaluation_by_run.
Loaded(tables) ==
    [evidence |-> tables.evidence, run |-> tables.run, validity |-> tables.validity,
     evaluations |-> tables.evaluations, statuses |-> tables.statuses,
     indexed |-> tables.evaluations # {}]

Init ==
    /\ now = 0 /\ kind \in Kind /\ m9 \in History /\ manifest \in Generation
    /\ disk = Empty
    /\ memory = [s \in Session |-> None]
    /\ pending = [s \in Session |-> None]

Idle(s) == memory[s] # None /\ pending[s] = None

-----------------------------------------------------------------------------
(* Evidence *)

\* content_digest of a revision.
Digest(r) == <<r.revision, r.lifecycle, r.content, r.generation, r.evaluation, r.previous>>

\* append_evidence_revision in memory.
RevisionAccepted(revisions, r) ==
    IF revisions = <<>>
    THEN r.revision = 1 /\ r.previous = None /\ r.lifecycle = "OPEN"
    ELSE LET last == Last(revisions)
         IN  /\ r.revision = last.revision + 1
             /\ r.previous = Digest(last)
             /\ CASE last.lifecycle = "OPEN" -> r.lifecycle \in {"OPEN", "SEALED"}
                  [] last.lifecycle = "SEALED" ->
                        r.lifecycle = "EVALUATED" /\ r.content = last.content
                  [] OTHER -> FALSE

\* As NewRevision, but the database takes a second row of a revision.
NewRevisionAlways(r) == TRUE

\* The primary key of m10_evidence.
NewRevision(r) == \A i \in DOMAIN disk.evidence : disk.evidence[i].revision # r.revision

AppendRevision(s, r) ==
    /\ Len(disk.evidence) < MaxRevisions
    /\ RevisionAccepted(memory[s].evidence, r)
    /\ NewRevision(r)
    /\ memory' = [memory EXCEPT ![s].evidence = Append(@, r)]
    /\ disk' = [disk EXCEPT !.evidence = Append(@, r)]
    /\ UNCHANGED <<now, kind, m9, manifest, pending>>

\* The revisions that a caller of the session may pass.
Seen(s) == Range(memory[s].evidence)

Follows(r, changed) ==
    [changed EXCEPT !.revision = r.revision + 1, !.previous = Digest(r)]

Open(s) ==
    /\ Idle(s)
    /\ AppendRevision(s, [revision |-> 1, lifecycle |-> "OPEN", content |-> NoEvidence,
                          generation |-> manifest, evaluation |-> None, previous |-> None])

\* append_evidence with outcomes of the keys O and the incidents I, a tuple of
\* each, none of which the evidence c has.
Added(c, O, I) ==
    [c EXCEPT !.outcomes = @ \cup
                  {[key |-> k, status |-> StatusOf[k], realized |-> RealizedOf[k]] : k \in O},
              !.incidents = @ \cup I]

AppendEvidence(s, r, c, O, I) ==
    /\ Idle(s)
    /\ r.lifecycle = "OPEN"
    /\ \A k \in O : k \in Cycles(c) /\ Profile[k].intent
    /\ O \cap {o.key : o \in c.outcomes} = {} /\ I \cap c.incidents = {}
    /\ IsFiniteSet(O) /\ IsFiniteSet(I)
    /\ AppendRevision(s, Follows(r, [r EXCEPT !.content = Added(c, O, I)]))

\* collect_m9_evidence: the claims and decisions of the interval as well.  A
\* claim that the evidence has may not come again, whatever has become of it.
Collected(c) ==
    LET claimed == {k \in Key : m9[k].claim # None}
        decided == {k \in claimed : m9[k].decision # None}
    IN  [c EXCEPT !.claims = [k \in claimed |-> m9[k].claim],
                  !.decisions = [k \in decided |-> m9[k].decision]]

Collect(s, r, O, I) ==
    /\ DOMAIN r.content.claims = {}
    /\ AppendEvidence(s, r, Collected(r.content), O, I)

Supplement(s, r, O, I) == ~(O = {} /\ I = {}) /\ AppendEvidence(s, r, r.content, O, I)

\* QualificationService.seal.
Seal(s, r) ==
    /\ Idle(s)
    /\ r.lifecycle = "OPEN"
    /\ AppendRevision(s, Follows(r, [r EXCEPT !.lifecycle = "SEALED"]))

\* QualificationService.create_run: it keeps the manifest and the digest of
\* the sealed content.
CreateRun(s, r) ==
    /\ Idle(s)
    /\ r.lifecycle = "SEALED"
    /\ r.generation = manifest
    /\ memory[s].run = None /\ disk.run = None
    /\ memory' = [memory EXCEPT ![s].run = [manifest |-> manifest, content |-> r.content]]
    /\ disk' = [disk EXCEPT !.run = [manifest |-> manifest, content |-> r.content]]
    /\ UNCHANGED <<now, kind, m9, manifest, pending>>

-----------------------------------------------------------------------------
(* Validity *)

\* _evidence_dependency_reasons against the current manifest.
DependenciesAgree(r) ==
    r.generation = manifest /\ DOMAIN r.content.decisions \subseteq Compatible

\* As ValidityState, but an acceptance is good to the end of its last moment.
ValidityStateLate(run, r, flag) ==
    LET same == DependenciesAgree(r) /\ manifest = run.manifest
    IN  CASE flag # None -> flag
          [] flag = None /\ ~same -> "INVALIDATED"
          [] flag = None /\ same /\ now > ExpiryOf[manifest] -> "EXPIRED"
          [] OTHER -> "VALID"

\* assess_validity.  flag: the caller says that the evidence is contaminated,
\* or that it is invalidated.
ValidityState(run, r, flag) ==
    LET same == DependenciesAgree(r) /\ manifest = run.manifest
    IN  CASE flag # None -> flag
          [] flag = None /\ ~same -> "INVALIDATED"
          [] flag = None /\ same /\ now >= ExpiryOf[manifest] -> "EXPIRED"
          [] OTHER -> "VALID"

\* A run and sealed evidence that assess_validity accepts.
Bound(run, r) ==
    run # None /\ r.lifecycle \in {"SEALED", "EVALUATED"} /\ run.content = r.content

Assessment(run, r, flag) ==
    [state |-> ValidityState(run, r, flag), manifest |-> manifest, at |-> now, flag |-> flag]

\* append_validity: a new identity, and no earlier than the last.
ValidityAccepted(records, v) ==
    v \notin Range(records) /\ (records # <<>> => v.at >= Last(records).at)

\* append_current_status, and the primary key of m10_status.
StatusAccepted(records, st) == records # <<>> => st.at >= Last(records).at
NewStatus(st) == \A i \in DOMAIN disk.statuses : disk.statuses[i].at # st.at

CurrentStatus(e, v) ==
    [eligible |-> e.eligible /\ v.state = "VALID", validity |-> v, evaluation |-> e.id, at |-> now]

-----------------------------------------------------------------------------
(* Evaluation *)

Evaluation(r) == [id |-> now, eligible |-> Eligible(r.content, kind), content |-> r.content]

\* mark_evaluated.
Evaluated(r, e) == Follows(r, [r EXCEPT !.lifecycle = "EVALUATED", !.evaluation = e.id])

\* finalize_evaluation in memory, and the keys of the four tables.
Finalizable(s, r, e, v, st) ==
    /\ ~memory[s].indexed /\ \A x \in memory[s].evaluations : x.id # e.id
    /\ RevisionAccepted(memory[s].evidence, r)
    /\ StatusAccepted(memory[s].statuses, st)
    /\ v \notin Range(disk.validity) /\ disk.evaluations = {}
    /\ NewRevision(r) /\ NewStatus(st)

\* The rollback: every record of this call is taken back, and with them the
\* entry of the run in _evaluation_by_run, whichever evaluation it named.
Restored(s, r, e) ==
    [memory[s] EXCEPT !.indexed = FALSE, !.evaluations = {x \in @ : x.id # e.id}]

\* What one transaction adds to a memory or to the tables.
Finalized(t, r, v, e, st) ==
    [t EXCEPT !.evidence = Append(@, r), !.validity = Append(@, v),
              !.evaluations = @ \cup {e}, !.statuses = Append(@, st)]

\* As Evaluate, but the transaction leaves the evidence revision out.
EvaluateUnmarked(s, r, commits) ==
    LET run == memory[s].run
        v == Assessment(run, r, None)
        e == Evaluation(r)
        next == Evaluated(r, e)
        st == CurrentStatus(e, v)
        possible == Finalizable(s, next, e, v, st)
    IN  /\ Idle(s)
        /\ r.lifecycle = "SEALED" /\ Bound(run, r)
        /\ v.state = "VALID"
        /\ ValidityAccepted(memory[s].validity, v)
        /\ Len(disk.validity) < MaxReassessments
        /\ \/ /\ commits /\ possible
              /\ memory' = [memory EXCEPT ![s] =
                              [Finalized(@, next, v, e, st) EXCEPT !.indexed = TRUE]]
              /\ disk' = [Finalized(disk, next, v, e, st) EXCEPT !.evidence = disk.evidence]
           \/ /\ ~commits
              /\ memory' = [memory EXCEPT ![s] = Restored(s, next, e)]
              /\ UNCHANGED disk
        /\ UNCHANGED <<now, kind, m9, manifest, pending>>

\* One transaction that commits, or a record refused or an insertion failed.
Evaluate(s, r, commits) ==
    LET run == memory[s].run
        v == Assessment(run, r, None)
        e == Evaluation(r)
        next == Evaluated(r, e)
        st == CurrentStatus(e, v)
        possible == Finalizable(s, next, e, v, st)
    IN  /\ Idle(s)
        /\ r.lifecycle = "SEALED" /\ Bound(run, r)
        /\ v.state = "VALID"
        /\ ValidityAccepted(memory[s].validity, v)
        /\ Len(disk.validity) < MaxReassessments
        /\ \/ /\ commits /\ possible
              /\ memory' = [memory EXCEPT ![s] =
                              [Finalized(@, next, v, e, st) EXCEPT !.indexed = TRUE]]
              /\ disk' = Finalized(disk, next, v, e, st)
           \/ /\ ~commits
              /\ memory' = [memory EXCEPT ![s] = Restored(s, next, e)]
              /\ UNCHANGED disk
        /\ UNCHANGED <<now, kind, m9, manifest, pending>>

\* reassess_current: the assessment is appended, then, on its own, the status.
Reassess(s, r, e, flag) ==
    LET v == Assessment(memory[s].run, r, flag)
    IN  /\ Idle(s)
        /\ Bound(memory[s].run, r)
        /\ Len(disk.validity) < MaxReassessments
        /\ ValidityAccepted(memory[s].validity, v) /\ v \notin Range(disk.validity)
        /\ memory' = [memory EXCEPT ![s].validity = Append(@, v)]
        /\ disk' = [disk EXCEPT !.validity = Append(@, v)]
        /\ pending' = [pending EXCEPT ![s] = CurrentStatus(e, v)]
        /\ UNCHANGED <<now, kind, m9, manifest>>

AppendStatus(s) ==
    /\ pending[s] # None
    /\ pending' = [pending EXCEPT ![s] = None]
    /\ IF StatusAccepted(memory[s].statuses, pending[s]) /\ NewStatus(pending[s])
       THEN /\ memory' = [memory EXCEPT ![s].statuses = Append(@, pending[s])]
            /\ disk' = [disk EXCEPT !.statuses = Append(@, pending[s])]
       ELSE UNCHANGED <<memory, disk>>
    /\ UNCHANGED <<now, kind, m9, manifest>>

-----------------------------------------------------------------------------
(* The world *)

Start(s) ==
    /\ memory[s] = None
    /\ memory' = [memory EXCEPT ![s] = Loaded(disk)]
    /\ UNCHANGED <<now, kind, m9, manifest, disk, pending>>

\* The end of a session, between any two of its writes.
Stop(s) ==
    /\ memory[s] # None
    /\ memory' = [memory EXCEPT ![s] = None]
    /\ pending' = [pending EXCEPT ![s] = None]
    /\ UNCHANGED <<now, kind, m9, manifest, disk>>

Tick ==
    /\ now < MaxTime
    /\ now' = now + 1
    /\ UNCHANGED <<kind, m9, manifest, disk, memory, pending>>

\* A material dependency changes, or an acceptance is renewed.
ChangeManifest(g) ==
    /\ manifest # g
    /\ manifest' = g
    /\ UNCHANGED <<now, kind, m9, disk, memory, pending>>

\* M9 ends a claim that was being processed when the evidence was collected.
Settle(k, claim) ==
    /\ m9[k].claim = "PROCESSING"
    /\ m9' = [m9 EXCEPT ![k].claim = claim]
    /\ UNCHANGED <<now, kind, manifest, disk, memory, pending>>

SessionStep(s) ==
    \/ Start(s) \/ Stop(s) \/ Open(s)
    \/ /\ memory[s] # None
       /\ \/ AppendStatus(s)
          \/ \E r \in Seen(s) :
                \/ \E O \in SUBSET Key, I \in SUBSET Incident :
                      Collect(s, r, O, I) \/ Supplement(s, r, O, I)
                \/ Seal(s, r) \/ CreateRun(s, r)
                \/ \E commits \in BOOLEAN : Evaluate(s, r, commits)
                \/ \E e \in memory[s].evaluations, flag \in {None, "INVALIDATED", "CONTAMINATED"} :
                      Reassess(s, r, e, flag)

Next ==
    \/ Tick
    \/ \E g \in Generation : ChangeManifest(g)
    \/ \E k \in Key, claim \in {"COMPLETED", "FAILED", "ABANDONED"} : Settle(k, claim)
    \/ \E s \in Session : SessionStep(s)

Spec == Init /\ [][Next]_vars

-----------------------------------------------------------------------------
(* Properties *)

Lifecycle == {"OPEN", "SEALED", "EVALUATED"}
Validity == {"VALID", "EXPIRED", "INVALIDATED", "CONTAMINATED"}

KeepsAll(old, new) ==
    /\ \A k \in DOMAIN old.claims : k \in DOMAIN new.claims /\ new.claims[k] = old.claims[k]
    /\ \A k \in DOMAIN old.decisions : k \in DOMAIN new.decisions /\ new.decisions[k] = old.decisions[k]
    /\ old.outcomes \subseteq new.outcomes /\ old.incidents \subseteq new.incidents

\* The revisions in m10_evidence are one chain, however many sessions with old
\* memories write to it: each follows the one before, none takes evidence away,
\* and what is sealed is evaluated as it was sealed.  A session remembers a
\* beginning of it: a write that failed has been taken back.
EvidenceChain ==
    /\ \A i \in DOMAIN disk.evidence :
        LET r == disk.evidence[i]
            before == disk.evidence[i - 1]
        IN  /\ r.revision = i
            /\ i = 1 => r.lifecycle = "OPEN" /\ r.previous = None
            /\ i > 1 =>
                  /\ r.previous = Digest(before)
                  /\ <<before.lifecycle, r.lifecycle>> \in
                        {<<"OPEN", "OPEN">>, <<"OPEN", "SEALED">>, <<"SEALED", "EVALUATED">>}
                  /\ KeepsAll(before.content, r.content)
                  /\ r.lifecycle # "OPEN" => r.content = before.content
    /\ \A s \in Session : memory[s] # None => IsPrefix(memory[s].evidence, disk.evidence)

\* A run is evaluated once, and with its evaluation the evidence that it was
\* bound to has become EVALUATED: finalize_evaluation stores both or neither,
\* in the tables and in every session, also after it took back a call.
OneVerdict ==
    LET judged(t) ==
            LET done == {i \in DOMAIN t.evidence : t.evidence[i].lifecycle = "EVALUATED"}
            IN  IF t.evaluations = {} THEN done = {}
                ELSE \E e \in t.evaluations, i \in done :
                        /\ t.evaluations = {e} /\ done = {i}
                        /\ t.evidence[i].evaluation = e.id /\ t.evidence[i].content = e.content
                        /\ t.run # None /\ t.run.content = e.content
    IN  /\ judged(disk)
        /\ \A s \in Session : memory[s] # None =>
              judged(memory[s]) /\ memory[s].evaluations \subseteq disk.evaluations

\* A status that says eligible was earned: the evidence was sealed, out of
\* sample, with the samples that the policy asks for and nothing against
\* safety, its dependencies were those of the run and had not expired.
EligibleIsEarned ==
    \A i \in DOMAIN disk.statuses : disk.statuses[i].eligible =>
        LET st == disk.statuses[i]
            c == disk.run.content
        IN  /\ kind = "OUT_OF_SAMPLE"
            /\ \E j \in DOMAIN disk.evidence :
                  disk.evidence[j].lifecycle = "SEALED" /\ disk.evidence[j].content = c
            /\ \A x \in c.incidents : x.category \notin SafetyCategory
            /\ Cardinality({k \in Key : k \in DOMAIN c.claims /\ c.claims[k] = "COMPLETED"})
                  >= Policy.minCompleted
            /\ st.validity \in Range(disk.validity)
            /\ st.validity.manifest = disk.run.manifest /\ st.at < ExpiryOf[disk.run.manifest]
            /\ st.validity.flag = None /\ DOMAIN c.decisions \subseteq Compatible

\* The gates fail safe.  What is not known fails: without a dispatched request,
\* a resolved outcome or a price for every request no evidence is eligible,
\* because _passes refuses a measurement that is UNAVAILABLE.  And no incident
\* is lost in the sums: with enough incidents of any category but
\* RUNTIME_FAILURE, which no gate counts, no evidence stays eligible.
GatesFailSafe ==
    \A i \in DOMAIN disk.evidence : disk.evidence[i].lifecycle = "SEALED" =>
        LET c == disk.evidence[i].content
            enough == Policy.maxUnexplained + Dispatched(c) + 1
            with(category) ==
                [c EXCEPT !.incidents =
                    @ \cup {[id |-> -n, category |-> category] : n \in 1..enough}]
        IN  Eligible(c, kind) =>
                /\ \E k \in Cycles(c) : Profile[k].dispatched > 0
                /\ \E o \in c.outcomes : o.realized # None
                /\ \A k \in Cycles(c) : Profile[k].dispatched > 0 => Profile[k].priced
                /\ \A category \in IncidentCategory \ {"RUNTIME_FAILURE"} :
                      ~Eligible(with(category), kind)
=============================================================================
