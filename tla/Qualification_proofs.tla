------------------------- MODULE Qualification_proofs -------------------------
(***************************************************************************)
(* What holds of Qualification for any number of sessions, revisions and   *)
(* reassessments, for any evidence of M9 and any policy.                    *)
(*                                                                         *)
(* The sessions write to one database from memories that may be old.  The  *)
(* argument is that a session whose revision the database takes remembers  *)
(* all of the chain, and that what a call takes back when it fails can     *)
(* not be the evaluation of an earlier one, because the assessment of      *)
(* validity that goes with it would come twice.                            *)
(***************************************************************************)
EXTENDS Qualification, FiniteSetTheorems, WellFoundedInduction, TLAPS

-----------------------------------------------------------------------------
(* Lists.                                                                  *)

IsList(s) == \E S : s \in Seq(S)

\* s is a beginning of t.
Begins(s, t) == Len(s) <= Len(t) /\ \A i \in 1..Len(s) : s[i] = t[i]

LEMMA ListShape ==
  ASSUME NEW s, IsList(s)
  PROVE  Len(s) \in Nat /\ DOMAIN s = 1..Len(s) /\ Range(s) = {s[i] : i \in 1..Len(s)}
<1>1. PICK S : s \in Seq(S)
  BY DEF IsList
<1>2. Len(s) \in Nat /\ DOMAIN s = 1..Len(s)
  BY <1>1
<1>3. QED
  BY <1>2 DEF Range

LEMMA EmptyList == IsList(<<>>) /\ Len(<<>>) = 0 /\ Range(<<>>) = {}
<1>1. <<>> \in Seq({})
  OBVIOUS
<1>2. QED
  BY <1>1 DEF IsList, Range

\* What appending does to a list.
LEMMA AppendList ==
  ASSUME NEW s, IsList(s), NEW e
  PROVE  /\ IsList(Append(s, e)) /\ Len(Append(s, e)) = Len(s) + 1
         /\ \A i \in 1..Len(s) : Append(s, e)[i] = s[i]
         /\ Append(s, e)[Len(s) + 1] = e
         /\ Range(Append(s, e)) = Range(s) \cup {e}
<1>1. PICK S : s \in Seq(S)
  BY DEF IsList
<1>2. s \in Seq(S \cup {e}) /\ e \in S \cup {e}
  BY <1>1
<1>3. Append(s, e) \in Seq(S \cup {e})
  BY <1>2
<1>4. /\ Len(s) \in Nat /\ Len(Append(s, e)) = Len(s) + 1
      /\ \A i \in 1..Len(s) : Append(s, e)[i] = s[i]
      /\ Append(s, e)[Len(s) + 1] = e
  BY <1>2
<1>5. IsList(Append(s, e))
  BY <1>3 DEF IsList
<1>6. Range(Append(s, e)) = {Append(s, e)[i] : i \in 1..(Len(s) + 1)}
  BY <1>4, <1>5, ListShape
<1>7. Range(s) = {s[i] : i \in 1..Len(s)}
  BY ListShape
<1>8. 1..(Len(s) + 1) = 1..Len(s) \cup {Len(s) + 1}
  BY <1>4
<1>9. QED
  BY <1>4, <1>5, <1>6, <1>7, <1>8

\* Lists of one length and the same elements are one list.
LEMMA SameList ==
  ASSUME NEW s, NEW t, IsList(s), IsList(t), Len(s) = Len(t), Begins(s, t)
  PROVE  s = t
<1>1. PICK S : s \in Seq(S)
  BY DEF IsList
<1>2. PICK T : t \in Seq(T)
  BY DEF IsList
<1>3. s \in Seq(S \cup T) /\ t \in Seq(S \cup T)
  BY <1>1, <1>2
<1>4. QED
  BY <1>3 DEF Begins

LEMMA BeginsIsPrefix ==
  ASSUME NEW s, NEW t, IsList(s), IsList(t), Begins(s, t)
  PROVE  IsPrefix(s, t)
<1>1. Len(s) \in Nat /\ Len(t) \in Nat
  BY ListShape
<1>2. SubSeq(s, 1, Len(s)) = SubSeq(t, 1, Len(s))
  BY <1>1 DEF Begins
<1>3. QED
  BY <1>2 DEF Begins, IsPrefix

-----------------------------------------------------------------------------
(* The invariant.                                                          *)

IsContent(c) ==
    \E a, b, o, i :
        /\ c = [claims |-> a, decisions |-> b, outcomes |-> o, incidents |-> i]
        /\ DOMAIN a \subseteq Key /\ DOMAIN b \subseteq DOMAIN a /\ IsFiniteSet(i)
        /\ \A x \in o : x.status \in Resolved => x.realized # None

IsRevision(r) ==
    \E n, l, c, g, e, d :
        /\ r = [revision |-> n, lifecycle |-> l, content |-> c, generation |-> g,
                evaluation |-> e, previous |-> d]
        /\ IsContent(c)

\* What a database and a memory have in common.
IsStore(t) ==
    /\ IsList(t.evidence) /\ IsList(t.validity) /\ IsList(t.statuses)
    /\ \A i \in DOMAIN t.evidence : IsRevision(t.evidence[i])

IsTables(t) ==
    \E e, r, v, x, u :
        t = [evidence |-> e, run |-> r, validity |-> v, evaluations |-> x, statuses |-> u]

IsMemory(t) ==
    \E e, r, v, x, u, b :
        t = [evidence |-> e, run |-> r, validity |-> v, evaluations |-> x, statuses |-> u,
             indexed |-> b]

OverSessions(f) == \E S : f \in [Session -> S]

Shapes ==
    /\ now \in Nat /\ manifest \in Generation
    /\ OverSessions(memory) /\ OverSessions(pending)
    /\ IsTables(disk) /\ IsStore(disk)
    /\ \A s \in Session : memory[s] # None => IsMemory(memory[s]) /\ IsStore(memory[s])

\* A revision and the one before it.
Follow(before, r) ==
    /\ r.previous = Digest(before)
    /\ <<before.lifecycle, r.lifecycle>> \in
          {<<"OPEN", "OPEN">>, <<"OPEN", "SEALED">>, <<"SEALED", "EVALUATED">>}
    /\ KeepsAll(before.content, r.content)
    /\ r.lifecycle # "OPEN" => r.content = before.content

Chain ==
    \A i \in DOMAIN disk.evidence :
        /\ disk.evidence[i].revision = i
        /\ i = 1 => disk.evidence[i].lifecycle = "OPEN" /\ disk.evidence[i].previous = None
        /\ i > 1 => Follow(disk.evidence[i - 1], disk.evidence[i])

\* A session remembers a beginning of the chain, and of the run what the
\* database says.
Remembers ==
    \A s \in Session : memory[s] # None =>
        /\ Begins(memory[s].evidence, disk.evidence)
        /\ memory[s].run # None => memory[s].run = disk.run
        /\ memory[s].evaluations \subseteq disk.evaluations
        /\ Range(memory[s].validity) \subseteq Range(disk.validity)

\* What the run is bound to has been sealed.
RunIsSealed ==
    disk.run # None =>
        \E j \in DOMAIN disk.evidence : /\ disk.evidence[j].lifecycle = "SEALED"
                                        /\ disk.evidence[j].content = disk.run.content

Done(t) == {i \in DOMAIN t.evidence : t.evidence[i].lifecycle = "EVALUATED"}

\* The assessment that evaluation e of the run was made under.
Assessed(run, e) == [state |-> "VALID", manifest |-> run.manifest, at |-> e.id, flag |-> None]

\* A store has an evaluation if and only if its evidence is evaluated, and with
\* it the assessment it was made under.
Judged(t) ==
    /\ t.evaluations = {} => Done(t) = {}
    /\ t.evaluations # {} =>
          \E e \in t.evaluations, i \in Done(t) :
             /\ t.evaluations = {e} /\ Done(t) = {i}
             /\ t.evidence[i].evaluation = e.id /\ t.evidence[i].content = e.content
             /\ t.run # None /\ t.run.content = e.content
             /\ Assessed(t.run, e) \in Range(t.validity)

Verdicts ==
    /\ Judged(disk)
    /\ \A s \in Session : memory[s] # None => Judged(memory[s])
    /\ \A e \in disk.evaluations : e.eligible => Eligible(e.content, kind)

\* What an eligible status rests on.
Earned(db, st) ==
    st.eligible =>
        /\ db.run # None
        /\ Eligible(db.run.content, kind)
        /\ st.validity \in Range(db.validity)
        /\ st.validity.manifest = db.run.manifest
        /\ st.at < ExpiryOf[db.run.manifest]
        /\ st.validity.flag = None
        /\ DOMAIN db.run.content.decisions \subseteq Compatible

Statuses ==
    /\ \A i \in DOMAIN disk.statuses : Earned(disk, disk.statuses[i])
    /\ \A s \in Session : pending[s] # None => Earned(disk, pending[s])

QInv == Shapes /\ Chain /\ Remembers /\ RunIsSealed /\ Verdicts /\ Statuses

-----------------------------------------------------------------------------
(* Records.                                                                *)

\* The revisions that follow r.
LEMMA SealIs ==
  ASSUME NEW r, IsRevision(r),
         NEW n, n = Follows(r, [r EXCEPT !.lifecycle = "SEALED"])
  PROVE  /\ IsRevision(n) /\ n.revision = r.revision + 1 /\ n.previous = Digest(r)
         /\ n.lifecycle = "SEALED" /\ n.content = r.content
<1>1. PICK k, m, o, g, f, d :
        /\ r = [revision |-> k, lifecycle |-> m, content |-> o, generation |-> g,
                evaluation |-> f, previous |-> d]
        /\ IsContent(o)
  BY DEF IsRevision
<1>2. n = [revision |-> r.revision + 1, lifecycle |-> "SEALED", content |-> r.content, generation |-> g,
           evaluation |-> f, previous |-> Digest(r)]
  BY <1>1 DEF Follows
<1>3. IsContent(r.content)
  BY <1>1
<1>4. IsRevision(n)
  BY <1>2, <1>3, Zenon DEF IsRevision
<1>5. QED
  BY <1>2, <1>4

LEMMA EvaluatedIs ==
  ASSUME NEW r, IsRevision(r), NEW e, NEW n, n = Evaluated(r, e)
  PROVE  /\ IsRevision(n) /\ n.revision = r.revision + 1 /\ n.previous = Digest(r)
         /\ n.lifecycle = "EVALUATED" /\ n.content = r.content /\ n.evaluation = e.id
<1>1. PICK k, m, o, g, f, d :
        /\ r = [revision |-> k, lifecycle |-> m, content |-> o, generation |-> g,
                evaluation |-> f, previous |-> d]
        /\ IsContent(o)
  BY DEF IsRevision
<1>2. n = [revision |-> r.revision + 1, lifecycle |-> "EVALUATED", content |-> r.content, generation |-> g,
           evaluation |-> e.id, previous |-> Digest(r)]
  BY <1>1 DEF Follows, Evaluated
<1>3. IsContent(r.content)
  BY <1>1
<1>4. IsRevision(n)
  BY <1>2, <1>3, Zenon DEF IsRevision
<1>5. QED
  BY <1>2, <1>4

LEMMA ContentIs ==
  ASSUME NEW r, IsRevision(r), r.lifecycle = "OPEN", NEW c, IsContent(c),
         NEW n, n = Follows(r, [r EXCEPT !.content = c])
  PROVE  /\ IsRevision(n) /\ n.revision = r.revision + 1 /\ n.previous = Digest(r)
         /\ n.lifecycle = "OPEN" /\ n.content = c
<1>1. PICK k, m, o, g, f, d :
        /\ r = [revision |-> k, lifecycle |-> m, content |-> o, generation |-> g,
                evaluation |-> f, previous |-> d]
        /\ IsContent(o)
  BY DEF IsRevision
<1>2. n = [revision |-> r.revision + 1, lifecycle |-> "OPEN", content |-> c, generation |-> g,
           evaluation |-> f, previous |-> Digest(r)]
  BY <1>1 DEF Follows
<1>3. IsContent(c)
  BY <1>1
<1>4. IsRevision(n)
  BY <1>2, <1>3, Zenon DEF IsRevision
<1>5. QED
  BY <1>2, <1>4

\* What is added to evidence leaves all of it.
LEMMA AddedKeeps ==
  ASSUME NEW c, IsContent(c), NEW O \in SUBSET Key, NEW I, IsFiniteSet(I)
  PROVE  IsContent(Added(c, O, I)) /\ KeepsAll(c, Added(c, O, I))
<1>1. PICK a, b, o, i :
        /\ c = [claims |-> a, decisions |-> b, outcomes |-> o, incidents |-> i]
        /\ DOMAIN a \subseteq Key /\ DOMAIN b \subseteq DOMAIN a /\ IsFiniteSet(i)
        /\ \A x \in o : x.status \in Resolved => x.realized # None
  BY DEF IsContent
<1> DEFINE new == {[key |-> k, status |-> StatusOf[k], realized |-> RealizedOf[k]] : k \in O}
<1>2. Added(c, O, I) = [claims |-> a, decisions |-> b, outcomes |-> o \cup new, incidents |-> i \cup I]
  <2>1. Added(c, O, I) = [c EXCEPT !.outcomes = c.outcomes \cup new, !.incidents = c.incidents \cup I]
    BY Zenon DEF Added
  <2> HIDE DEF new
  <2>2. QED
    BY <1>1, <2>1
<1>7. \A x \in o \cup new : x.status \in Resolved => x.realized # None
  BY <1>1, QualificationAssumption
<1> HIDE DEF new
<1>3. IsFiniteSet(i \cup I)
  BY <1>1, FS_Union
<1>4. IsContent(Added(c, O, I))
  BY <1>1, <1>2, <1>3, <1>7, Zenon DEF IsContent
<1>5. KeepsAll(c, Added(c, O, I))
  BY <1>1, <1>2 DEF KeepsAll
<1>6. QED
  BY <1>4, <1>5

\* Claims are collected once, into evidence that has none.
LEMMA CollectedKeeps ==
  ASSUME NEW c, IsContent(c), DOMAIN c.claims = {}
  PROVE  IsContent(Collected(c)) /\ KeepsAll(c, Collected(c))
<1>1. PICK a, b, o, i :
        /\ c = [claims |-> a, decisions |-> b, outcomes |-> o, incidents |-> i]
        /\ DOMAIN a \subseteq Key /\ DOMAIN b \subseteq DOMAIN a /\ IsFiniteSet(i)
        /\ \A x \in o : x.status \in Resolved => x.realized # None
  BY DEF IsContent
<1> DEFINE claimed == {k \in Key : m9[k].claim # None}
           decided == {k \in claimed : m9[k].decision # None}
           x == [k \in claimed |-> m9[k].claim]
           y == [k \in decided |-> m9[k].decision]
<1>2. Collected(c) = [c EXCEPT !.claims = x, !.decisions = y]
  BY Zenon DEF Collected
<1>3. DOMAIN x \subseteq Key /\ DOMAIN y \subseteq DOMAIN x
  OBVIOUS
<1> HIDE DEF x, y
<1>4. Collected(c) = [claims |-> x, decisions |-> y, outcomes |-> o, incidents |-> i]
  BY <1>1, <1>2
<1>5. IsContent(Collected(c))
  BY <1>1, <1>3, <1>4, Zenon DEF IsContent
<1>6. KeepsAll(c, Collected(c))
  BY <1>1, <1>4 DEF KeepsAll
<1>7. QED
  BY <1>5, <1>6

LEMMA KeepsAllTrans ==
  ASSUME NEW a, NEW b, NEW c, KeepsAll(a, b), KeepsAll(b, c)
  PROVE  KeepsAll(a, c)
  BY DEF KeepsAll

\* The cycles and the claims of evidence are some of the keys.
LEMMA CyclesAre ==
  ASSUME NEW c, IsContent(c)
  PROVE  /\ Cycles(c) \in SUBSET Key /\ IsFiniteSet(Cycles(c))
         /\ \A state : ClaimsIn(c, state) \in SUBSET Key /\ IsFiniteSet(ClaimsIn(c, state))
<1>1. PICK a, b, o, i :
        /\ c = [claims |-> a, decisions |-> b, outcomes |-> o, incidents |-> i]
        /\ DOMAIN a \subseteq Key /\ DOMAIN b \subseteq DOMAIN a
  BY DEF IsContent
<1>2. Cycles(c) \subseteq Key /\ \A state : ClaimsIn(c, state) \subseteq Key
  BY <1>1 DEF Cycles, DecidedAs, ClaimsIn
<1>3. IsFiniteSet(Key)
  BY PolicyAssumption
<1>4. QED
  BY <1>2, <1>3, FS_Subset

\* Evidence that nothing was recorded in.
LEMMA NoEvidenceIs == IsContent(NoEvidence)
<1>1. DOMAIN <<>> = {}
  OBVIOUS
<1>2. IsFiniteSet({})
  BY FS_EmptySet
<1>3. QED
  BY <1>1, <1>2, Zenon DEF IsContent, NoEvidence

\* A database or a memory with one field replaced.
WithEvidence(t, x) == [t EXCEPT !.evidence = x]
WithRun(t, x) == [t EXCEPT !.run = x]
WithValidity(t, x) == [t EXCEPT !.validity = x]
WithStatuses(t, x) == [t EXCEPT !.statuses = x]
WithEvaluations(t, x) == [t EXCEPT !.evaluations = x]
Reindexed(t, n) == n = [t EXCEPT !.indexed = TRUE] \/ n = [t EXCEPT !.indexed = FALSE]

LEMMA EvidenceOf ==
  ASSUME NEW t, NEW x, NEW n, n = WithEvidence(t, x), IsTables(t) \/ IsMemory(t)
  PROVE  /\ IsTables(t) => IsTables(n)
         /\ IsMemory(t) => IsMemory(n)
         /\ n.evidence = x /\ n.run = t.run /\ n.validity = t.validity
         /\ n.evaluations = t.evaluations /\ n.statuses = t.statuses
<1>1. CASE IsTables(t)
  <2>1. PICK e, r, v, w, u :
          t = [evidence |-> e, run |-> r, validity |-> v, evaluations |-> w, statuses |-> u]
    BY <1>1 DEF IsTables
  <2>2. n = [evidence |-> x, run |-> r, validity |-> v, evaluations |-> w, statuses |-> u]
    BY <2>1 DEF WithEvidence
  <2>3. IsTables(n)
    BY <2>2, Zenon DEF IsTables
  <2>4. ~IsMemory(t)
    BY <2>1 DEF IsMemory
  <2>5. QED
    BY <2>1, <2>2, <2>3, <2>4
<1>2. CASE IsMemory(t)
  <2>1. PICK e, r, v, w, u, b :
          t = [evidence |-> e, run |-> r, validity |-> v, evaluations |-> w, statuses |-> u,
               indexed |-> b]
    BY <1>2 DEF IsMemory
  <2>2. n = [evidence |-> x, run |-> r, validity |-> v, evaluations |-> w, statuses |-> u,
             indexed |-> b]
    BY <2>1 DEF WithEvidence
  <2>3. IsMemory(n)
    BY <2>2, Zenon DEF IsMemory
  <2>4. ~IsTables(t)
    BY <2>1 DEF IsTables
  <2>5. QED
    BY <2>1, <2>2, <2>3, <2>4
<1>3. QED
  BY <1>1, <1>2

LEMMA RunOf ==
  ASSUME NEW t, NEW x, NEW n, n = WithRun(t, x), IsTables(t) \/ IsMemory(t)
  PROVE  /\ IsTables(t) => IsTables(n)
         /\ IsMemory(t) => IsMemory(n)
         /\ n.evidence = t.evidence /\ n.run = x /\ n.validity = t.validity
         /\ n.evaluations = t.evaluations /\ n.statuses = t.statuses
<1>1. CASE IsTables(t)
  <2>1. PICK e, r, v, w, u :
          t = [evidence |-> e, run |-> r, validity |-> v, evaluations |-> w, statuses |-> u]
    BY <1>1 DEF IsTables
  <2>2. n = [evidence |-> e, run |-> x, validity |-> v, evaluations |-> w, statuses |-> u]
    BY <2>1 DEF WithRun
  <2>3. IsTables(n)
    BY <2>2, Zenon DEF IsTables
  <2>4. ~IsMemory(t)
    BY <2>1 DEF IsMemory
  <2>5. QED
    BY <2>1, <2>2, <2>3, <2>4
<1>2. CASE IsMemory(t)
  <2>1. PICK e, r, v, w, u, b :
          t = [evidence |-> e, run |-> r, validity |-> v, evaluations |-> w, statuses |-> u,
               indexed |-> b]
    BY <1>2 DEF IsMemory
  <2>2. n = [evidence |-> e, run |-> x, validity |-> v, evaluations |-> w, statuses |-> u,
             indexed |-> b]
    BY <2>1 DEF WithRun
  <2>3. IsMemory(n)
    BY <2>2, Zenon DEF IsMemory
  <2>4. ~IsTables(t)
    BY <2>1 DEF IsTables
  <2>5. QED
    BY <2>1, <2>2, <2>3, <2>4
<1>3. QED
  BY <1>1, <1>2

LEMMA ValidityOf ==
  ASSUME NEW t, NEW x, NEW n, n = WithValidity(t, x), IsTables(t) \/ IsMemory(t)
  PROVE  /\ IsTables(t) => IsTables(n)
         /\ IsMemory(t) => IsMemory(n)
         /\ n.evidence = t.evidence /\ n.run = t.run /\ n.validity = x
         /\ n.evaluations = t.evaluations /\ n.statuses = t.statuses
<1>1. CASE IsTables(t)
  <2>1. PICK e, r, v, w, u :
          t = [evidence |-> e, run |-> r, validity |-> v, evaluations |-> w, statuses |-> u]
    BY <1>1 DEF IsTables
  <2>2. n = [evidence |-> e, run |-> r, validity |-> x, evaluations |-> w, statuses |-> u]
    BY <2>1 DEF WithValidity
  <2>3. IsTables(n)
    BY <2>2, Zenon DEF IsTables
  <2>4. ~IsMemory(t)
    BY <2>1 DEF IsMemory
  <2>5. QED
    BY <2>1, <2>2, <2>3, <2>4
<1>2. CASE IsMemory(t)
  <2>1. PICK e, r, v, w, u, b :
          t = [evidence |-> e, run |-> r, validity |-> v, evaluations |-> w, statuses |-> u,
               indexed |-> b]
    BY <1>2 DEF IsMemory
  <2>2. n = [evidence |-> e, run |-> r, validity |-> x, evaluations |-> w, statuses |-> u,
             indexed |-> b]
    BY <2>1 DEF WithValidity
  <2>3. IsMemory(n)
    BY <2>2, Zenon DEF IsMemory
  <2>4. ~IsTables(t)
    BY <2>1 DEF IsTables
  <2>5. QED
    BY <2>1, <2>2, <2>3, <2>4
<1>3. QED
  BY <1>1, <1>2

LEMMA StatusesOf ==
  ASSUME NEW t, NEW x, NEW n, n = WithStatuses(t, x), IsTables(t) \/ IsMemory(t)
  PROVE  /\ IsTables(t) => IsTables(n)
         /\ IsMemory(t) => IsMemory(n)
         /\ n.evidence = t.evidence /\ n.run = t.run /\ n.validity = t.validity
         /\ n.evaluations = t.evaluations /\ n.statuses = x
<1>1. CASE IsTables(t)
  <2>1. PICK e, r, v, w, u :
          t = [evidence |-> e, run |-> r, validity |-> v, evaluations |-> w, statuses |-> u]
    BY <1>1 DEF IsTables
  <2>2. n = [evidence |-> e, run |-> r, validity |-> v, evaluations |-> w, statuses |-> x]
    BY <2>1 DEF WithStatuses
  <2>3. IsTables(n)
    BY <2>2, Zenon DEF IsTables
  <2>4. ~IsMemory(t)
    BY <2>1 DEF IsMemory
  <2>5. QED
    BY <2>1, <2>2, <2>3, <2>4
<1>2. CASE IsMemory(t)
  <2>1. PICK e, r, v, w, u, b :
          t = [evidence |-> e, run |-> r, validity |-> v, evaluations |-> w, statuses |-> u,
               indexed |-> b]
    BY <1>2 DEF IsMemory
  <2>2. n = [evidence |-> e, run |-> r, validity |-> v, evaluations |-> w, statuses |-> x,
             indexed |-> b]
    BY <2>1 DEF WithStatuses
  <2>3. IsMemory(n)
    BY <2>2, Zenon DEF IsMemory
  <2>4. ~IsTables(t)
    BY <2>1 DEF IsTables
  <2>5. QED
    BY <2>1, <2>2, <2>3, <2>4
<1>3. QED
  BY <1>1, <1>2

LEMMA EvaluationsOf ==
  ASSUME NEW t, NEW x, NEW n, n = WithEvaluations(t, x), IsTables(t) \/ IsMemory(t)
  PROVE  /\ IsTables(t) => IsTables(n)
         /\ IsMemory(t) => IsMemory(n)
         /\ n.evidence = t.evidence /\ n.run = t.run /\ n.validity = t.validity
         /\ n.evaluations = x /\ n.statuses = t.statuses
<1>1. CASE IsTables(t)
  <2>1. PICK e, r, v, w, u :
          t = [evidence |-> e, run |-> r, validity |-> v, evaluations |-> w, statuses |-> u]
    BY <1>1 DEF IsTables
  <2>2. n = [evidence |-> e, run |-> r, validity |-> v, evaluations |-> x, statuses |-> u]
    BY <2>1 DEF WithEvaluations
  <2>3. IsTables(n)
    BY <2>2, Zenon DEF IsTables
  <2>4. ~IsMemory(t)
    BY <2>1 DEF IsMemory
  <2>5. QED
    BY <2>1, <2>2, <2>3, <2>4
<1>2. CASE IsMemory(t)
  <2>1. PICK e, r, v, w, u, b :
          t = [evidence |-> e, run |-> r, validity |-> v, evaluations |-> w, statuses |-> u,
               indexed |-> b]
    BY <1>2 DEF IsMemory
  <2>2. n = [evidence |-> e, run |-> r, validity |-> v, evaluations |-> x, statuses |-> u,
             indexed |-> b]
    BY <2>1 DEF WithEvaluations
  <2>3. IsMemory(n)
    BY <2>2, Zenon DEF IsMemory
  <2>4. ~IsTables(t)
    BY <2>1 DEF IsTables
  <2>5. QED
    BY <2>1, <2>2, <2>3, <2>4
<1>3. QED
  BY <1>1, <1>2

LEMMA IndexedOf ==
  ASSUME NEW t, NEW n, Reindexed(t, n), IsMemory(t)
  PROVE  /\ IsMemory(n)
         /\ n.evidence = t.evidence /\ n.run = t.run /\ n.validity = t.validity
         /\ n.evaluations = t.evaluations /\ n.statuses = t.statuses
<1>1. PICK e, r, v, w, u, b :
        t = [evidence |-> e, run |-> r, validity |-> v, evaluations |-> w, statuses |-> u,
             indexed |-> b]
  BY DEF IsMemory
<1>2. ASSUME NEW x, n = [evidence |-> e, run |-> r, validity |-> v, evaluations |-> w,
                         statuses |-> u, indexed |-> x]
      PROVE  IsMemory(n)
  BY <1>2, Zenon DEF IsMemory
<1>3. CASE n = [t EXCEPT !.indexed = TRUE]
  <2>1. n = [evidence |-> e, run |-> r, validity |-> v, evaluations |-> w, statuses |-> u,
             indexed |-> TRUE]
    BY <1>1, <1>3
  <2>2. IsMemory(n)
    BY <1>2, <2>1
  <2>3. QED
    BY <1>1, <2>1, <2>2
<1>4. CASE n = [t EXCEPT !.indexed = FALSE]
  <2>1. n = [evidence |-> e, run |-> r, validity |-> v, evaluations |-> w, statuses |-> u,
             indexed |-> FALSE]
    BY <1>1, <1>4
  <2>2. IsMemory(n)
    BY <1>2, <2>1
  <2>3. QED
    BY <1>1, <2>1, <2>2
<1>5. QED
  BY <1>3, <1>4, Zenon DEF Reindexed

-----------------------------------------------------------------------------
(* A write of one session.                                                 *)

LEMMA SessionExcept ==
  ASSUME NEW f, OverSessions(f), NEW s \in Session, NEW x, NEW g, g = [f EXCEPT ![s] = x]
  PROVE  g[s] = x /\ (\A q \in Session : q # s => g[q] = f[q]) /\ OverSessions(g)
<1>1. PICK S : f \in [Session -> S]
  BY DEF OverSessions
<1>2. g \in [Session -> S \cup {x}]
  BY <1>1
<1>3. QED
  BY <1>1, <1>2 DEF OverSessions

\* A store whose evidence has one more revision.
LEMMA StoreAppended ==
  ASSUME NEW t, IsStore(t), NEW r, IsRevision(r),
         NEW u, u.evidence = Append(t.evidence, r), IsList(u.validity), IsList(u.statuses)
  PROVE  IsStore(u)
<1>1. IsList(t.evidence)
  BY DEF IsStore
<1>2. IsList(u.evidence) /\ Len(u.evidence) = Len(t.evidence) + 1
  BY <1>1, AppendList
<1>3. DOMAIN u.evidence = 1..(Len(t.evidence) + 1) /\ DOMAIN t.evidence = 1..Len(t.evidence)
      /\ Len(t.evidence) \in Nat
  BY <1>1, <1>2, ListShape
<1>4. ASSUME NEW i \in DOMAIN u.evidence PROVE IsRevision(u.evidence[i])
  <2>1. CASE i \in 1..Len(t.evidence)
    BY <1>1, <1>3, <2>1, AppendList DEF IsStore
  <2>2. CASE i = Len(t.evidence) + 1
    BY <1>1, <2>2, AppendList
  <2>3. QED
    BY <1>3, <2>1, <2>2
<1>5. QED
  BY <1>2, <1>4 DEF IsStore

\* A list and its first elements.
LEMMA BeginsAppend ==
  ASSUME NEW s, NEW t, IsList(s), IsList(t), Begins(s, t), NEW e
  PROVE  Begins(s, Append(t, e))
<1>1. Len(s) \in Nat /\ Len(t) \in Nat
  BY ListShape
<1>2. Len(Append(t, e)) = Len(t) + 1 /\ \A i \in 1..Len(t) : Append(t, e)[i] = t[i]
  BY AppendList
<1>3. QED
  BY <1>1, <1>2 DEF Begins

LEMMA BeginsSelf ==
  ASSUME NEW s, IsList(s)
  PROVE  Begins(s, s)
<1>1. Len(s) \in Nat
  BY ListShape
<1>2. QED
  BY <1>1 DEF Begins

\* The chain with one more revision that follows its last.
LEMMA ChainAppended ==
  ASSUME Chain, IsList(disk.evidence), NEW r, disk'.evidence = Append(disk.evidence, r),
         r.revision = Len(disk.evidence) + 1,
         Len(disk.evidence) = 0 => r.lifecycle = "OPEN" /\ r.previous = None,
         Len(disk.evidence) > 0 => Follow(Last(disk.evidence), r)
  PROVE  Chain'
<1> DEFINE n == Len(disk.evidence)
<1>1. n \in Nat /\ DOMAIN disk.evidence = 1..n
  BY ListShape
<1>2. IsList(disk'.evidence) /\ Len(disk'.evidence) = n + 1 /\ disk'.evidence[n + 1] = r
      /\ \A i \in 1..n : disk'.evidence[i] = disk.evidence[i]
  BY AppendList
<1>3. DOMAIN disk'.evidence = 1..(n + 1)
  BY <1>2, ListShape
<1>4. ASSUME NEW i \in DOMAIN disk'.evidence
      PROVE  /\ disk'.evidence[i].revision = i
             /\ i = 1 => disk'.evidence[i].lifecycle = "OPEN" /\ disk'.evidence[i].previous = None
             /\ i > 1 => Follow(disk'.evidence[i - 1], disk'.evidence[i])
  <2>1. CASE i \in 1..n
    <3>1. i > 1 => i - 1 \in 1..n
      BY <1>1, <2>1
    <3>2. QED
      BY <1>1, <1>2, <2>1, <3>1 DEF Chain
  <2>2. CASE i = n + 1
    <3>1. i > 1 => n > 0 /\ i - 1 = n /\ disk'.evidence[n] = Last(disk.evidence)
      BY <1>1, <1>2, <2>2 DEF Last
    <3>2. i = 1 => n = 0
      BY <1>1, <2>2
    <3>3. disk'.evidence[i] = r
      BY <1>2, <2>2
    <3>4. QED
      BY <2>2, <3>1, <3>2, <3>3
  <2>3. QED
    BY <1>1, <1>3, <2>1, <2>2
<1>5. QED
  BY <1>4 DEF Chain

\* The verdict of a store that has grown by a revision that is not evaluated,
\* or by assessments.
LEMMA JudgedStays ==
  ASSUME NEW t, NEW u, Judged(t), IsList(t.evidence),
         \/ u.evidence = t.evidence
         \/ \E r : u.evidence = Append(t.evidence, r) /\ r.lifecycle # "EVALUATED",
         u.evaluations = t.evaluations, t.run # None => u.run = t.run,
         Range(t.validity) \subseteq Range(u.validity)
  PROVE  Judged(u)
<1>1. DOMAIN t.evidence = 1..Len(t.evidence) /\ Len(t.evidence) \in Nat
  BY ListShape
<1>2. Done(u) = Done(t) /\ \A i \in Done(t) : u.evidence[i] = t.evidence[i]
  <2>1. CASE u.evidence = t.evidence
    BY <2>1 DEF Done
  <2>2. ASSUME NEW r, u.evidence = Append(t.evidence, r), r.lifecycle # "EVALUATED"
        PROVE  Done(u) = Done(t) /\ \A i \in Done(t) : u.evidence[i] = t.evidence[i]
    <3>1. IsList(u.evidence) /\ Len(u.evidence) = Len(t.evidence) + 1
          /\ u.evidence[Len(t.evidence) + 1] = r
          /\ \A i \in 1..Len(t.evidence) : u.evidence[i] = t.evidence[i]
      BY <2>2, AppendList
    <3>2. DOMAIN u.evidence = 1..(Len(t.evidence) + 1)
      BY <3>1, ListShape
    <3>3. QED
      BY <1>1, <2>2, <3>1, <3>2 DEF Done
  <2>3. QED
    BY <2>1, <2>2
<1>3. CASE t.evaluations = {}
  BY <1>2, <1>3 DEF Judged
<1>4. CASE t.evaluations # {}
  <2>1. PICK e \in t.evaluations, i \in Done(t) :
           /\ t.evaluations = {e} /\ Done(t) = {i}
           /\ t.evidence[i].evaluation = e.id /\ t.evidence[i].content = e.content
           /\ t.run # None /\ t.run.content = e.content
           /\ Assessed(t.run, e) \in Range(t.validity)
    BY <1>4 DEF Judged
  <2>2. /\ e \in u.evaluations /\ i \in Done(u) /\ u.evaluations = {e} /\ Done(u) = {i}
        /\ u.evidence[i].evaluation = e.id /\ u.evidence[i].content = e.content
        /\ u.run # None /\ u.run.content = e.content
        /\ Assessed(u.run, e) \in Range(u.validity)
    BY <1>2, <2>1
  <2>3. QED
    BY <2>2, Zenon DEF Judged
<1>5. QED
  BY <1>3, <1>4

\* A step in which session s writes, the others stay as they are and the
\* database only grows.
LEMMA SessionWrites ==
  ASSUME QInv, NEW s \in Session, Shapes', kind' = kind,
         \A q \in Session : q # s => memory'[q] = memory[q] /\ pending'[q] = pending[q],
         Begins(disk.evidence, disk'.evidence),
         disk.run # None => disk'.run = disk.run,
         disk.evaluations \subseteq disk'.evaluations,
         Range(disk.validity) \subseteq Range(disk'.validity),
         memory'[s] # None =>
            /\ Begins(memory'[s].evidence, disk'.evidence)
            /\ memory'[s].run # None => memory'[s].run = disk'.run
            /\ memory'[s].evaluations \subseteq disk'.evaluations
            /\ Range(memory'[s].validity) \subseteq Range(disk'.validity)
            /\ Judged(memory'[s]),
         Chain', RunIsSealed', Judged(disk'),
         \A e \in disk'.evaluations : e.eligible => Eligible(e.content, kind),
         \A i \in DOMAIN disk'.statuses :
            Earned(disk', disk'.statuses[i]) \/ \E j \in DOMAIN disk.statuses :
                                             disk'.statuses[i] = disk.statuses[j],
         pending'[s] # None => Earned(disk', pending'[s]) \/ pending'[s] = pending[s]
  PROVE  QInv'
<1>1. ASSUME NEW q \in Session, q # s, memory'[q] # None
      PROVE  /\ Begins(memory'[q].evidence, disk'.evidence)
             /\ memory'[q].run # None => memory'[q].run = disk'.run
             /\ memory'[q].evaluations \subseteq disk'.evaluations
             /\ Range(memory'[q].validity) \subseteq Range(disk'.validity)
             /\ Judged(memory'[q])
  <2>1. /\ memory'[q] = memory[q] /\ memory[q] # None
        /\ IsList(memory[q].evidence) /\ IsList(disk.evidence) /\ IsList(disk'.evidence)
    BY <1>1 DEF QInv, Shapes, IsStore
  <2>2. Begins(memory[q].evidence, disk'.evidence)
    <3>1. Len(memory[q].evidence) \in Nat /\ Len(disk.evidence) \in Nat /\ Len(disk'.evidence) \in Nat
      BY <2>1, ListShape
    <3>2. Begins(memory[q].evidence, disk.evidence)
      BY <2>1 DEF QInv, Remembers
    <3>3. QED
      BY <3>1, <3>2 DEF Begins
  <2>3. memory[q].run # None => memory[q].run = disk'.run
    BY <2>1 DEF QInv, Remembers
  <2>4. /\ memory[q].evaluations \subseteq disk'.evaluations
        /\ Range(memory[q].validity) \subseteq Range(disk'.validity)
    BY <2>1 DEF QInv, Remembers
  <2>5. QED
    BY <2>1, <2>2, <2>3, <2>4 DEF QInv, Verdicts
<1>2. Remembers'
  BY <1>1 DEF Remembers
<1>3. Verdicts'
  BY <1>1 DEF Verdicts
<1>4. \A st : Earned(disk, st) => Earned(disk', st)
  BY DEF Earned
<1>5. Statuses'
  <2>1. \A i \in DOMAIN disk'.statuses : Earned(disk', disk'.statuses[i])
    BY <1>4 DEF QInv, Statuses
  <2>2. \A q \in Session : pending'[q] # None => Earned(disk', pending'[q])
    BY <1>4 DEF QInv, Statuses
  <2>3. QED
    BY <2>1, <2>2 DEF Statuses, Earned
<1>6. QED
  BY <1>2, <1>3, <1>5 DEF QInv

-----------------------------------------------------------------------------
(* Evidence.                                                               *)

\* A revision that both the memory and the database take is the next one of
\* all, and the session remembers all that is before it.
LEMMA RemembersAll ==
  ASSUME QInv, NEW s \in Session, memory[s] # None, NEW r,
         RevisionAccepted(memory[s].evidence, r), NewRevision(r)
  PROVE  /\ memory[s].evidence = disk.evidence
         /\ r.revision = Len(disk.evidence) + 1
         /\ Len(disk.evidence) = 0 => r.lifecycle = "OPEN" /\ r.previous = None
         /\ Len(disk.evidence) > 0 =>
               /\ r.previous = Digest(Last(disk.evidence))
               /\ \/ Last(disk.evidence).lifecycle = "OPEN" /\ r.lifecycle \in {"OPEN", "SEALED"}
                  \/ /\ Last(disk.evidence).lifecycle = "SEALED"
                     /\ r.lifecycle = "EVALUATED" /\ r.content = Last(disk.evidence).content
<1> DEFINE m == Len(memory[s].evidence)
           n == Len(disk.evidence)
<1>1. /\ IsList(memory[s].evidence) /\ IsList(disk.evidence)
      /\ Begins(memory[s].evidence, disk.evidence) /\ Chain
  BY DEF QInv, Shapes, IsStore, Remembers
<1>2. /\ m \in Nat /\ n \in Nat /\ m <= n /\ DOMAIN disk.evidence = 1..n
      /\ DOMAIN memory[s].evidence = 1..m
  BY <1>1, ListShape DEF Begins
<1>3. memory[s].evidence = <<>> <=> m = 0
  BY <1>1, <1>2, EmptyList, SameList DEF Begins
<1>4. m > 0 => Last(memory[s].evidence) = disk.evidence[m] /\ disk.evidence[m].revision = m
  BY <1>1, <1>2 DEF Begins, Last, Chain
<1>5. r.revision = m + 1
  BY <1>2, <1>3, <1>4 DEF RevisionAccepted
<1>6. m = n
  <2>1. \A i \in 1..n : i # m + 1
    BY <1>1, <1>2, <1>5 DEF NewRevision, Chain
  <2>2. QED
    BY <1>2, <2>1
<1>7. memory[s].evidence = disk.evidence
  BY <1>1, <1>6, SameList
<1>8. CASE n = 0
  <2>1. r.lifecycle = "OPEN" /\ r.previous = None
    BY <1>3, <1>6, <1>8 DEF RevisionAccepted
  <2>2. QED
    BY <1>2, <1>5, <1>6, <1>7, <1>8, <2>1
<1>9. CASE n > 0
  <2> DEFINE last == Last(disk.evidence)
  <2>1. /\ r.previous = Digest(last)
        /\ CASE last.lifecycle = "OPEN" -> r.lifecycle \in {"OPEN", "SEALED"}
             [] last.lifecycle = "SEALED" -> r.lifecycle = "EVALUATED" /\ r.content = last.content
             [] OTHER -> FALSE
    <3>1. disk.evidence # <<>>
      BY <1>2, <1>3, <1>6, <1>7, <1>9
    <3>2. QED
      BY <1>7, <3>1, Zenon DEF RevisionAccepted
  <2> HIDE DEF last
  <2>2. \/ last.lifecycle = "OPEN" /\ r.lifecycle \in {"OPEN", "SEALED"}
        \/ last.lifecycle = "SEALED" /\ r.lifecycle = "EVALUATED" /\ r.content = last.content
    BY <2>1
  <2>3. QED
    BY <1>2, <1>5, <1>6, <1>7, <1>9, <2>1, <2>2 DEF last
<1>10. QED
  BY <1>2, <1>8, <1>9

\* The revision that it was made from is the last one.
LEMMA MadeFromLast ==
  ASSUME QInv, NEW s \in Session, memory[s] # None, memory[s].evidence = disk.evidence,
         NEW o \in Seen(s), NEW r, r.revision = o.revision + 1,
         r.revision = Len(disk.evidence) + 1
  PROVE  Len(disk.evidence) > 0 /\ o = Last(disk.evidence)
<1>1. IsList(disk.evidence)
  BY DEF QInv, Shapes, IsStore
<1>2. /\ Len(disk.evidence) \in Nat /\ DOMAIN disk.evidence = 1..Len(disk.evidence)
      /\ Range(disk.evidence) = {disk.evidence[i] : i \in 1..Len(disk.evidence)}
  BY <1>1, ListShape
<1>3. PICK i \in 1..Len(disk.evidence) : o = disk.evidence[i]
  BY <1>2 DEF Seen
<1>4. o.revision = i
  BY <1>2, <1>3 DEF QInv, Chain
<1>5. i = Len(disk.evidence)
  BY <1>2, <1>4
<1>6. QED
  BY <1>2, <1>3, <1>5 DEF Last

\* What a session has seen is a revision of the chain.
LEMMA SeenIs ==
  ASSUME QInv, NEW s \in Session, memory[s] # None, NEW o \in Seen(s)
  PROVE  IsRevision(o) /\ \E i \in DOMAIN disk.evidence : disk.evidence[i] = o
<1>1. /\ IsStore(memory[s]) /\ IsList(memory[s].evidence) /\ IsList(disk.evidence)
      /\ Begins(memory[s].evidence, disk.evidence)
  BY DEF QInv, Shapes, IsStore, Remembers
<1>2. /\ Len(memory[s].evidence) \in Nat /\ DOMAIN memory[s].evidence = 1..Len(memory[s].evidence)
      /\ Len(disk.evidence) \in Nat /\ DOMAIN disk.evidence = 1..Len(disk.evidence)
      /\ Range(memory[s].evidence) = {memory[s].evidence[i] : i \in 1..Len(memory[s].evidence)}
  BY <1>1, ListShape
<1>3. PICK i \in 1..Len(memory[s].evidence) : o = memory[s].evidence[i]
  BY <1>2 DEF Seen
<1>4. i \in DOMAIN disk.evidence /\ disk.evidence[i] = o
  BY <1>1, <1>2, <1>3 DEF Begins
<1>5. QED
  BY <1>1, <1>2, <1>3, <1>4 DEF IsStore

\* A revision is appended that is not the evaluated one.
LEMMA AppendStep ==
  ASSUME QInv, NEW s \in Session, memory[s] # None, NEW r, IsRevision(r),
         AppendRevision(s, r), r.lifecycle # "EVALUATED",
         Len(disk.evidence) > 0 /\ memory[s].evidence = disk.evidence
            /\ r.revision = Len(disk.evidence) + 1 =>
               /\ KeepsAll(Last(disk.evidence).content, r.content)
               /\ r.lifecycle # "OPEN" => r.content = Last(disk.evidence).content
  PROVE  QInv'
<1>1. /\ RevisionAccepted(memory[s].evidence, r) /\ NewRevision(r)
      /\ memory' = [memory EXCEPT ![s].evidence = Append(@, r)]
      /\ disk' = [disk EXCEPT !.evidence = Append(@, r)]
      /\ UNCHANGED <<now, kind, m9, manifest, pending>>
  BY DEF AppendRevision
<1>2. /\ memory[s].evidence = disk.evidence /\ r.revision = Len(disk.evidence) + 1
      /\ Len(disk.evidence) = 0 => r.lifecycle = "OPEN" /\ r.previous = None
      /\ Len(disk.evidence) > 0 => Follow(Last(disk.evidence), r)
  BY <1>1, RemembersAll, Zenon DEF Follow
<1>3. /\ IsTables(disk) /\ IsStore(disk) /\ IsMemory(memory[s]) /\ IsStore(memory[s])
      /\ OverSessions(memory) /\ OverSessions(pending)
      /\ IsList(disk.evidence)
  BY DEF QInv, Shapes, IsStore
<1>4. PICK a : a = Append(disk.evidence, r)
  OBVIOUS
<1>5. PICK d, t : d = WithEvidence(disk, a) /\ t = WithEvidence(memory[s], a)
  OBVIOUS
<1>6. /\ IsTables(d) /\ d.evidence = a /\ d.run = disk.run
      /\ d.validity = disk.validity /\ d.evaluations = disk.evaluations
      /\ d.statuses = disk.statuses
  <2>1. IsTables(disk)
    BY <1>3
  <2>2. QED
    BY <1>5, <2>1, EvidenceOf
<1>7. /\ IsMemory(t) /\ t.evidence = a /\ t.run = memory[s].run
      /\ t.validity = memory[s].validity /\ t.evaluations = memory[s].evaluations
      /\ t.statuses = memory[s].statuses
  <2>1. IsMemory(memory[s])
    BY <1>3
  <2>2. QED
    BY <1>5, <2>1, EvidenceOf
<1>8. disk' = d /\ memory' = [memory EXCEPT ![s] = t]
  BY <1>1, <1>2, <1>4, <1>5 DEF WithEvidence
<1>9. /\ memory'[s] = t /\ \A q \in Session : q # s => memory'[q] = memory[q]
      /\ OverSessions(memory')
  <2>1. OverSessions(memory) /\ memory' = [memory EXCEPT ![s] = t]
    BY <1>3, <1>8
  <2>2. PICK S : memory \in [Session -> S]
    BY <2>1 DEF OverSessions
  <2>3. memory' \in [Session -> S \cup {t}]
    BY <2>1, <2>2
  <2>4. QED
    BY <2>1, <2>2, <2>3 DEF OverSessions
<1>10. IsStore(d) /\ IsStore(t)
  BY <1>2, <1>3, <1>4, <1>6, <1>7, StoreAppended DEF IsStore
<1>11. Shapes'
  <2>1. \A q \in Session : memory'[q] # None => IsMemory(memory'[q]) /\ IsStore(memory'[q])
    BY <1>7, <1>9, <1>10 DEF QInv, Shapes
  <2>2. now' \in Nat /\ manifest' \in Generation /\ OverSessions(pending')
    BY <1>1, <1>3 DEF QInv, Shapes
  <2>3. IsTables(disk') /\ IsStore(disk')
    BY <1>6, <1>8, <1>10
  <2>4. QED
    BY <1>9, <2>1, <2>2, <2>3 DEF Shapes
<1>12. Chain'
  BY <1>2, <1>3, <1>4, <1>6, <1>8, ChainAppended DEF QInv
<1>13. Begins(disk.evidence, d.evidence) /\ Begins(t.evidence, d.evidence)
  <2>1. Begins(disk.evidence, disk.evidence)
    BY <1>3, BeginsSelf
  <2>2. t.evidence = d.evidence /\ IsList(t.evidence)
    BY <1>2, <1>6, <1>7, <1>10 DEF IsStore
  <2>3. QED
    BY <1>3, <1>4, <1>6, <2>1, <2>2, BeginsAppend, BeginsSelf
<1>14. RunIsSealed'
  <2>1. /\ DOMAIN disk.evidence = 1..Len(disk.evidence) /\ Len(disk.evidence) \in Nat
        /\ DOMAIN d.evidence = 1..(Len(disk.evidence) + 1)
        /\ \A i \in 1..Len(disk.evidence) : d.evidence[i] = disk.evidence[i]
    <3>1. IsList(d.evidence) /\ Len(d.evidence) = Len(disk.evidence) + 1
          /\ \A i \in 1..Len(disk.evidence) : d.evidence[i] = disk.evidence[i]
      BY <1>3, <1>4, <1>6, AppendList
    <3>2. QED
      BY <1>3, <3>1, ListShape
  <2>2. \A i \in DOMAIN disk.evidence : i \in DOMAIN d.evidence /\ d.evidence[i] = disk.evidence[i]
    BY <2>1
  <2>3. QED
    BY <1>6, <1>8, <2>2 DEF QInv, RunIsSealed
<1>15. Judged(d) /\ Judged(t)
  <2>1. Judged(disk) /\ Judged(memory[s])
    BY DEF QInv, Verdicts
  <2>2. Judged(d)
    BY <1>3, <1>4, <1>6, <2>1, JudgedStays
  <2>3. Judged(t)
    BY <1>2, <1>3, <1>4, <1>7, <2>1, JudgedStays DEF IsStore
  <2>4. QED
    BY <2>2, <2>3
<1>16. /\ t.run # None => t.run = d.run
       /\ t.evaluations \subseteq d.evaluations /\ Range(t.validity) \subseteq Range(d.validity)
  BY <1>6, <1>7 DEF QInv, Remembers
<1>17. /\ \A e \in d.evaluations : e.eligible => Eligible(e.content, kind)
       /\ \A i \in DOMAIN d.statuses : \E j \in DOMAIN disk.statuses : d.statuses[i] = disk.statuses[j]
  BY <1>6 DEF QInv, Verdicts
<1>18. kind' = kind /\ pending' = pending
  BY <1>1
<1>19. QED
  BY <1>6, <1>8, <1>9, <1>11, <1>12, <1>13, <1>14, <1>15, <1>16, <1>17, <1>18, SessionWrites

\* It was made from a revision that the session has seen.
LEMMA AppendNext ==
  ASSUME QInv, NEW s \in Session, memory[s] # None, NEW o \in Seen(s),
         NEW r, IsRevision(r), AppendRevision(s, r),
         r.lifecycle \in {"OPEN", "SEALED"}, r.revision = o.revision + 1,
         KeepsAll(o.content, r.content), r.lifecycle # "OPEN" => r.content = o.content
  PROVE  QInv'
<1>1. ASSUME Len(disk.evidence) > 0, memory[s].evidence = disk.evidence,
             r.revision = Len(disk.evidence) + 1
      PROVE  /\ KeepsAll(Last(disk.evidence).content, r.content)
             /\ r.lifecycle # "OPEN" => r.content = Last(disk.evidence).content
  <2>1. o = Last(disk.evidence)
    BY <1>1, MadeFromLast
  <2>2. QED
    BY <2>1
<1>2. r.lifecycle # "EVALUATED"
  OBVIOUS
<1>3. QED
  BY <1>1, <1>2, AppendStep

LEMMA OpenStep ==
  ASSUME QInv, NEW s \in Session, Open(s)
  PROVE  QInv'
<1>1. PICK r : r = [revision |-> 1, lifecycle |-> "OPEN", content |-> NoEvidence,
                    generation |-> manifest, evaluation |-> None, previous |-> None]
  OBVIOUS
<1>2. memory[s] # None /\ AppendRevision(s, r)
  BY <1>1 DEF Open, Idle
<1>3. IsRevision(r)
  BY <1>1, NoEvidenceIs, Zenon DEF IsRevision
<1>4. r.revision = 1 /\ r.lifecycle = "OPEN"
  BY <1>1
<1>5. IsList(disk.evidence)
  BY DEF QInv, Shapes, IsStore
<1>6. Len(disk.evidence) \in Nat
  BY <1>5, ListShape
<1>7. ~(Len(disk.evidence) > 0 /\ r.revision = Len(disk.evidence) + 1)
  BY <1>4, <1>6
<1>8. r.lifecycle # "EVALUATED"
  BY <1>4
<1>9. QED
  BY <1>2, <1>3, <1>7, <1>8, AppendStep

LEMMA AppendEvidenceStep ==
  ASSUME QInv, NEW s \in Session, NEW o, memory[s] # None => o \in Seen(s),
         NEW c, IsContent(o.content) => IsContent(c) /\ KeepsAll(o.content, c),
         NEW O, NEW I, AppendEvidence(s, o, c, O, I)
  PROVE  QInv'
<1>1. /\ memory[s] # None /\ o.lifecycle = "OPEN" /\ IsFiniteSet(I)
      /\ \A k \in O : k \in Cycles(c)
  BY DEF AppendEvidence, Idle
<1>2. o \in Seen(s)
  BY <1>1
<1>3. IsRevision(o)
  BY <1>1, <1>2, SeenIs
<1>4. IsContent(o.content)
  <2>1. PICK n, l, x, g, e, d :
          /\ o = [revision |-> n, lifecycle |-> l, content |-> x, generation |-> g,
                  evaluation |-> e, previous |-> d]
          /\ IsContent(x)
    BY <1>3 DEF IsRevision
  <2>2. QED
    BY <2>1
<1>5. IsContent(c) /\ KeepsAll(o.content, c)
  BY <1>4
<1>6. PICK a : a = Added(c, O, I)
  OBVIOUS
<1>7. IsContent(a) /\ KeepsAll(c, a)
  <2>1. O \in SUBSET Key
    BY <1>1, <1>5, CyclesAre
  <2>2. QED
    BY <1>1, <1>5, <1>6, <2>1, AddedKeeps
<1>8. KeepsAll(o.content, a)
  BY <1>5, <1>7, KeepsAllTrans
<1>9. PICK r : r = Follows(o, [o EXCEPT !.content = a])
  OBVIOUS
<1>10. /\ IsRevision(r) /\ r.revision = o.revision + 1
       /\ r.lifecycle = "OPEN" /\ r.content = a
  BY <1>1, <1>3, <1>7, <1>9, ContentIs
<1>11. AppendRevision(s, r)
  BY <1>6, <1>9 DEF AppendEvidence
<1>12. QED
  BY <1>1, <1>2, <1>8, <1>10, <1>11, AppendNext

LEMMA CollectStep ==
  ASSUME QInv, NEW s \in Session, memory[s] # None, NEW o \in Seen(s), NEW O, NEW I,
         Collect(s, o, O, I)
  PROVE  QInv'
<1>1. DOMAIN o.content.claims = {} /\ AppendEvidence(s, o, Collected(o.content), O, I)
  BY DEF Collect
<1>2. IsContent(o.content) =>
         IsContent(Collected(o.content)) /\ KeepsAll(o.content, Collected(o.content))
  BY <1>1, CollectedKeeps
<1>3. QED
  BY <1>1, <1>2, AppendEvidenceStep

LEMMA SupplementStep ==
  ASSUME QInv, NEW s \in Session, memory[s] # None, NEW o \in Seen(s), NEW O, NEW I,
         Supplement(s, o, O, I)
  PROVE  QInv'
<1>1. AppendEvidence(s, o, o.content, O, I)
  BY DEF Supplement
<1>2. KeepsAll(o.content, o.content)
  BY DEF KeepsAll
<1>3. QED
  BY <1>1, <1>2, AppendEvidenceStep

LEMMA SealStep ==
  ASSUME QInv, NEW s \in Session, memory[s] # None, NEW o \in Seen(s), Seal(s, o)
  PROVE  QInv'
<1>1. PICK r : r = Follows(o, [o EXCEPT !.lifecycle = "SEALED"])
  OBVIOUS
<1>2. AppendRevision(s, r)
  BY <1>1 DEF Seal
<1>3. IsRevision(o)
  BY SeenIs
<1>4. /\ IsRevision(r) /\ r.revision = o.revision + 1
      /\ r.lifecycle = "SEALED" /\ r.content = o.content
  BY <1>1, <1>3, SealIs
<1>5. KeepsAll(o.content, r.content)
  BY <1>4 DEF KeepsAll
<1>6. r.lifecycle \in {"OPEN", "SEALED"} /\ (r.lifecycle # "OPEN" => r.content = o.content)
  BY <1>4
<1>7. QED
  BY <1>2, <1>4, <1>5, <1>6, AppendNext

\* A run is bound to sealed evidence.
LEMMA CreateRunStep ==
  ASSUME QInv, NEW s \in Session, memory[s] # None, NEW o \in Seen(s), CreateRun(s, o)
  PROVE  QInv'
<1>1. PICK run : run = [manifest |-> manifest, content |-> o.content]
  OBVIOUS
<1>2. /\ o.lifecycle = "SEALED" /\ memory[s].run = None /\ disk.run = None
      /\ memory' = [memory EXCEPT ![s].run = run]
      /\ disk' = [disk EXCEPT !.run = run]
      /\ UNCHANGED <<now, kind, m9, manifest, pending>>
  BY <1>1 DEF CreateRun
<1>3. /\ IsTables(disk) /\ IsStore(disk) /\ IsMemory(memory[s]) /\ IsStore(memory[s])
      /\ OverSessions(memory) /\ OverSessions(pending)
  BY DEF QInv, Shapes
<1>4. PICK d, t : d = WithRun(disk, run) /\ t = WithRun(memory[s], run)
  OBVIOUS
<1>5. /\ IsTables(d) /\ d.evidence = disk.evidence /\ d.run = run
      /\ d.validity = disk.validity /\ d.evaluations = disk.evaluations
      /\ d.statuses = disk.statuses
  <2>1. IsTables(disk)
    BY <1>3
  <2>2. QED
    BY <1>4, <2>1, RunOf
<1>6. /\ IsMemory(t) /\ t.evidence = memory[s].evidence /\ t.run = run
      /\ t.validity = memory[s].validity /\ t.evaluations = memory[s].evaluations
      /\ t.statuses = memory[s].statuses
  <2>1. IsMemory(memory[s])
    BY <1>3
  <2>2. QED
    BY <1>4, <2>1, RunOf
<1>7. disk' = d /\ memory' = [memory EXCEPT ![s] = t]
  BY <1>2, <1>4 DEF WithRun
<1>8. /\ memory'[s] = t /\ \A q \in Session : q # s => memory'[q] = memory[q]
      /\ OverSessions(memory')
  <2>1. OverSessions(memory) /\ memory' = [memory EXCEPT ![s] = t]
    BY <1>3, <1>7
  <2>2. PICK S : memory \in [Session -> S]
    BY <2>1 DEF OverSessions
  <2>3. memory' \in [Session -> S \cup {t}]
    BY <2>1, <2>2
  <2>4. QED
    BY <2>1, <2>2, <2>3 DEF OverSessions
<1>9. Shapes'
  <2>1. \A q \in Session : memory'[q] # None => IsMemory(memory'[q]) /\ IsStore(memory'[q])
    BY <1>3, <1>6, <1>8 DEF QInv, Shapes, IsStore
  <2>2. now' \in Nat /\ manifest' \in Generation /\ OverSessions(pending')
    BY <1>2, <1>3 DEF QInv, Shapes
  <2>3. IsTables(disk') /\ IsStore(disk')
    BY <1>3, <1>5, <1>7 DEF IsStore
  <2>4. QED
    BY <1>8, <2>1, <2>2, <2>3 DEF Shapes
<1>10. Chain' /\ Begins(disk.evidence, disk'.evidence)
  BY <1>3, <1>5, <1>7, BeginsSelf DEF QInv, Chain, IsStore
<1>11. RunIsSealed'
  <2>1. PICK i \in DOMAIN disk.evidence : disk.evidence[i] = o
    BY SeenIs
  <2>2. run.content = o.content
    BY <1>1
  <2>3. QED
    BY <1>2, <1>5, <1>7, <2>1, <2>2 DEF RunIsSealed
<1>12. Judged(d) /\ Judged(t)
  <2>1. Judged(disk) /\ Judged(memory[s])
    BY DEF QInv, Verdicts
  <2>2. Judged(d)
    BY <1>2, <1>3, <1>5, <2>1, JudgedStays DEF IsStore
  <2>3. Judged(t)
    BY <1>2, <1>3, <1>6, <2>1, JudgedStays DEF IsStore
  <2>4. QED
    BY <2>2, <2>3
<1>13. /\ Begins(t.evidence, d.evidence) /\ t.run = d.run
       /\ t.evaluations \subseteq d.evaluations /\ Range(t.validity) \subseteq Range(d.validity)
  BY <1>5, <1>6 DEF QInv, Remembers
<1>14. /\ \A e \in d.evaluations : e.eligible => Eligible(e.content, kind)
       /\ \A i \in DOMAIN d.statuses : \E j \in DOMAIN disk.statuses : d.statuses[i] = disk.statuses[j]
  BY <1>5 DEF QInv, Verdicts
<1>15. kind' = kind /\ pending' = pending
  BY <1>2
<1>16. disk.evaluations \subseteq d.evaluations /\ Range(disk.validity) \subseteq Range(d.validity)
  BY <1>5
<1>17. QED
  BY <1>2, <1>5, <1>7, <1>8, <1>9, <1>10, <1>11, <1>12, <1>13, <1>14, <1>15, <1>16, SessionWrites

-----------------------------------------------------------------------------
(* The evaluation.                                                         *)

FinalizedIn(t, a, v, x, u) ==
    [t EXCEPT !.evidence = a, !.validity = v, !.evaluations = x, !.statuses = u]

\* What a store holds after an evaluation.
LEMMA FinalizedIs ==
  ASSUME NEW t, IsTables(t) \/ IsMemory(t), NEW a, NEW v, NEW x, NEW u,
         NEW n, n = FinalizedIn(t, a, v, x, u)
  PROVE  /\ IsTables(t) => IsTables(n)
         /\ IsMemory(t) => IsMemory(n)
         /\ n.evidence = a /\ n.run = t.run /\ n.validity = v
         /\ n.evaluations = x /\ n.statuses = u
<1>1. PICK f : f = WithEvidence(t, a)
  OBVIOUS
<1>2. PICK g : g = WithValidity(f, v)
  OBVIOUS
<1>3. PICK h : h = WithEvaluations(g, x)
  OBVIOUS
<1>4. n = WithStatuses(h, u)
  <2>1. n = [[[[t EXCEPT !.evidence = a] EXCEPT !.validity = v] EXCEPT !.evaluations = x]
               EXCEPT !.statuses = u]
    BY Zenon DEF FinalizedIn
  <2>2. QED
    BY <1>1, <1>2, <1>3, <2>1, Zenon
       DEF WithEvidence, WithValidity, WithEvaluations, WithStatuses
<1>5. /\ IsTables(t) => IsTables(f)
      /\ IsMemory(t) => IsMemory(f)
      /\ f.evidence = a /\ f.run = t.run
  BY <1>1, EvidenceOf
<1>6. /\ IsTables(f) => IsTables(g)
      /\ IsMemory(f) => IsMemory(g)
      /\ g.evidence = f.evidence /\ g.run = f.run /\ g.validity = v
  BY <1>2, <1>5, ValidityOf
<1>7. /\ IsTables(g) => IsTables(h)
      /\ IsMemory(g) => IsMemory(h)
      /\ h.evidence = g.evidence /\ h.run = g.run /\ h.validity = g.validity /\ h.evaluations = x
  BY <1>3, <1>5, <1>6, EvaluationsOf
<1>8. /\ IsTables(h) => IsTables(n)
      /\ IsMemory(h) => IsMemory(n)
      /\ n.evidence = h.evidence /\ n.run = h.run /\ n.validity = h.validity
      /\ n.evaluations = h.evaluations /\ n.statuses = u
  BY <1>4, <1>5, <1>6, <1>7, StatusesOf
<1>9. QED
  BY <1>5, <1>6, <1>7, <1>8

\* A call that fails takes nothing back but its own.
LEMMA RestoredIs ==
  ASSUME NEW s \in Session, IsMemory(memory[s]), NEW r, NEW e,
         \A x \in memory[s].evaluations : x.id # e.id,
         NEW n, n = Restored(s, r, e)
  PROVE  /\ IsMemory(n) /\ n.evidence = memory[s].evidence /\ n.run = memory[s].run
         /\ n.validity = memory[s].validity
         /\ n.evaluations = memory[s].evaluations /\ n.statuses = memory[s].statuses
<1>1. PICK i : i = [memory[s] EXCEPT !.indexed = FALSE]
  OBVIOUS
<1>2. PICK k : k = {x \in memory[s].evaluations : x.id # e.id}
  OBVIOUS
<1>3. k = memory[s].evaluations
  BY <1>2
<1>4. n = WithEvaluations(i, k)
  <2>1. n = [memory[s] EXCEPT !.indexed = FALSE, !.evaluations = k]
    <3>1. n = [memory[s] EXCEPT !.indexed = FALSE,
                                !.evaluations = {x \in memory[s].evaluations : x.id # e.id}]
      BY Zenon DEF Restored
    <3>2. QED
      BY <1>2, <3>1, Zenon
  <2>2. QED
    BY <1>1, <2>1, Zenon DEF WithEvaluations
<1>5. /\ IsMemory(i) /\ i.evidence = memory[s].evidence /\ i.run = memory[s].run
      /\ i.validity = memory[s].validity /\ i.statuses = memory[s].statuses
  <2>1. Reindexed(memory[s], i)
    BY <1>1, Zenon DEF Reindexed
  <2>2. QED
    BY <2>1, IndexedOf
<1>6. /\ IsMemory(n) /\ n.evidence = i.evidence /\ n.run = i.run /\ n.validity = i.validity
      /\ n.evaluations = k /\ n.statuses = i.statuses
  BY <1>4, <1>5, EvaluationsOf
<1>7. QED
  BY <1>3, <1>5, <1>6

\* The record of an assessment that says VALID.
LEMMA ValidIs ==
  ASSUME QInv, NEW run, NEW r, NEW flag \in {None, "INVALIDATED", "CONTAMINATED"},
         NEW v, v = Assessment(run, r, flag)
  PROVE  /\ v.manifest = manifest /\ v.at = now /\ v.flag = flag
         /\ v.state = "VALID" =>
               /\ flag = None /\ DependenciesAgree(r) /\ manifest = run.manifest
               /\ now < ExpiryOf[manifest]
               /\ v = [state |-> "VALID", manifest |-> run.manifest, at |-> now, flag |-> None]
<1>1. now \in Nat /\ ExpiryOf[manifest] \in Nat
  BY QualificationAssumption DEF QInv, Shapes
<1>2. PICK state : state = ValidityState(run, r, flag)
  OBVIOUS
<1>3. v = [state |-> state, manifest |-> manifest, at |-> now, flag |-> flag]
  BY <1>2, Zenon DEF Assessment
<1>4. flag # None => state = flag
  BY <1>2 DEF ValidityState
<1>5. flag = None /\ ~(DependenciesAgree(r) /\ manifest = run.manifest) => state = "INVALIDATED"
  BY <1>2 DEF ValidityState
<1>6. flag = None /\ DependenciesAgree(r) /\ manifest = run.manifest /\ now >= ExpiryOf[manifest]
         => state = "EXPIRED"
  BY <1>2 DEF ValidityState
<1>7. state = "VALID" =>
         flag = None /\ DependenciesAgree(r) /\ manifest = run.manifest /\ ~(now >= ExpiryOf[manifest])
  BY <1>4, <1>5, <1>6
<1>8. ~(now >= ExpiryOf[manifest]) => now < ExpiryOf[manifest]
  BY <1>1
<1>9. QED
  BY <1>3, <1>7, <1>8

\* The record of an evaluation.
LEMMA EvaluationIs ==
  ASSUME NEW r, NEW e, e = Evaluation(r)
  PROVE  /\ e.id = now /\ e.content = r.content
         /\ e.eligible => Eligible(r.content, kind)
<1>1. PICK x : x = Eligible(r.content, kind)
  OBVIOUS
<1>2. e = [id |-> now, eligible |-> x, content |-> r.content]
  BY <1>1, Zenon DEF Evaluation
<1>3. e.id = now /\ e.content = r.content /\ e.eligible = x
  BY <1>2
<1>4. QED
  BY <1>1, <1>3, Zenon

\* A current status says eligible of an evaluation that is, under an assessment
\* that says VALID.
LEMMA StatusIs ==
  ASSUME NEW e, NEW v, NEW st, st = CurrentStatus(e, v)
  PROVE  /\ st.validity = v /\ st.at = now
         /\ st.eligible => e.eligible /\ v.state = "VALID"
<1>1. PICK x : x = (e.eligible /\ v.state = "VALID")
  OBVIOUS
<1>2. st = [eligible |-> x, validity |-> v, evaluation |-> e.id, at |-> now]
  BY <1>1, Zenon DEF CurrentStatus
<1>3. st.eligible = x /\ st.validity = v /\ st.at = now
  BY <1>2
<1>4. QED
  BY <1>1, <1>3, Zenon

\* Such a status was earned.
LEMMA StatusEarned ==
  ASSUME QInv, NEW run, NEW r, NEW flag \in {None, "INVALIDATED", "CONTAMINATED"},
         NEW v, v = Assessment(run, r, flag), Bound(run, r),
         NEW e, e.eligible => Eligible(e.content, kind), e.content = run.content,
         NEW st, st = CurrentStatus(e, v),
         NEW db, db.run = run, v \in Range(db.validity)
  PROVE  Earned(db, st)
<1>1. /\ st.validity = v /\ st.at = now
      /\ st.eligible => e.eligible /\ v.state = "VALID"
  BY StatusIs
<1>2. /\ v.manifest = manifest /\ v.at = now /\ v.flag = flag
      /\ v.state = "VALID" =>
            /\ flag = None /\ DependenciesAgree(r) /\ manifest = run.manifest
            /\ now < ExpiryOf[manifest]
  BY ValidIs
<1>3. run # None /\ run.content = r.content
  BY DEF Bound
<1>4. QED
  BY <1>1, <1>2, <1>3 DEF Earned, DependenciesAgree

\* A store that had no evaluation, with one and the revision that names it.
GainsVerdict(t, u, n, e) ==
    /\ IsList(t.evidence) /\ IsList(t.validity) /\ Done(t) = {}
    /\ n.lifecycle = "EVALUATED" /\ n.evaluation = e.id /\ n.content = e.content
    /\ u.evidence = Append(t.evidence, n) /\ u.evaluations = {e}
    /\ u.run # None /\ u.run.content = e.content
    /\ u.validity = Append(t.validity, Assessed(u.run, e))

LEMMA JudgedNew ==
  ASSUME NEW t, NEW u, NEW n, NEW e, GainsVerdict(t, u, n, e)
  PROVE  Judged(u)
<1>0. /\ IsList(t.evidence) /\ IsList(t.validity) /\ Done(t) = {}
      /\ n.lifecycle = "EVALUATED" /\ n.evaluation = e.id /\ n.content = e.content
      /\ u.evidence = Append(t.evidence, n) /\ u.evaluations = {e}
      /\ u.run # None /\ u.run.content = e.content
      /\ u.validity = Append(t.validity, Assessed(u.run, e))
  BY DEF GainsVerdict
<1> DEFINE k == Len(t.evidence)
<1>1. k \in Nat /\ DOMAIN t.evidence = 1..k
  BY <1>0, ListShape
<1>2. IsList(u.evidence) /\ Len(u.evidence) = k + 1 /\ u.evidence[k + 1] = n
      /\ \A i \in 1..k : u.evidence[i] = t.evidence[i]
  BY <1>0, AppendList
<1>3. DOMAIN u.evidence = 1..(k + 1)
  BY <1>2, ListShape
<1>4. Done(u) = {k + 1}
  <2>1. \A i \in 1..k : u.evidence[i].lifecycle # "EVALUATED"
    BY <1>0, <1>1, <1>2 DEF Done
  <2>2. QED
    BY <1>0, <1>1, <1>2, <1>3, <2>1 DEF Done
<1>5. Assessed(u.run, e) \in Range(u.validity)
  BY <1>0, AppendList
<1>6. /\ e \in u.evaluations /\ k + 1 \in Done(u) /\ u.evaluations = {e} /\ Done(u) = {k + 1}
      /\ u.evidence[k + 1].evaluation = e.id /\ u.evidence[k + 1].content = e.content
      /\ u.run # None /\ u.run.content = e.content
      /\ Assessed(u.run, e) \in Range(u.validity)
  BY <1>0, <1>2, <1>4, <1>5
<1>7. u.evaluations # {}
  BY <1>0
<1>8. QED
  BY <1>6, <1>7, Zenon DEF Judged

\* The transaction of finalize_evaluation.
LEMMA EvaluateCommits ==
  ASSUME QInv, NEW s \in Session, memory[s] # None, NEW o \in Seen(s),
         NEW v, v = Assessment(memory[s].run, o, None), NEW e, e = Evaluation(o),
         NEW n, IsRevision(n), n.revision = o.revision + 1, n.previous = Digest(o),
         n.lifecycle = "EVALUATED", n.content = o.content, n.evaluation = e.id, NEW st, st = CurrentStatus(e, v),
         Bound(memory[s].run, o), v.state = "VALID", Finalizable(s, n, e, v, st),
         NEW d, d = Finalized(disk, n, v, e, st), disk' = d,
         NEW f, f = Finalized(memory[s], n, v, e, st),
         NEW t, Reindexed(f, t), memory'[s] = t,
         \A q \in Session : q # s => memory'[q] = memory[q], OverSessions(memory'),
         now' = now, kind' = kind, manifest' = manifest, pending' = pending
  PROVE  QInv'
<1>1. /\ IsTables(disk) /\ IsStore(disk) /\ IsMemory(memory[s]) /\ IsStore(memory[s])
      /\ OverSessions(memory) /\ OverSessions(pending)
      /\ IsList(disk.evidence) /\ IsList(disk.validity) /\ IsList(disk.statuses)
      /\ IsList(memory[s].evidence) /\ IsList(memory[s].validity) /\ IsList(memory[s].statuses)
  BY DEF QInv, Shapes, IsStore
<1>2. /\ RevisionAccepted(memory[s].evidence, n) /\ NewRevision(n) /\ disk.evaluations = {}
  BY DEF Finalizable
<1>5. /\ memory[s].evidence = disk.evidence /\ n.revision = Len(disk.evidence) + 1
      /\ Len(disk.evidence) = 0 => n.lifecycle = "OPEN" /\ n.previous = None
      /\ Len(disk.evidence) > 0 => Follow(Last(disk.evidence), n)
  <2>1. /\ memory[s].evidence = disk.evidence /\ n.revision = Len(disk.evidence) + 1
        /\ Len(disk.evidence) = 0 => n.lifecycle = "OPEN" /\ n.previous = None
        /\ Len(disk.evidence) > 0 =>
              /\ n.previous = Digest(Last(disk.evidence))
              /\ \/ Last(disk.evidence).lifecycle = "OPEN" /\ n.lifecycle \in {"OPEN", "SEALED"}
                 \/ /\ Last(disk.evidence).lifecycle = "SEALED"
                    /\ n.lifecycle = "EVALUATED" /\ n.content = Last(disk.evidence).content
    BY <1>2, RemembersAll
  <2>2. o = Last(disk.evidence)
    BY <2>1, MadeFromLast
  <2>3. KeepsAll(o.content, n.content)
    BY DEF KeepsAll
  <2>4. QED
    BY <2>1, <2>2, <2>3 DEF Follow
<1>6. /\ e.id = now /\ e.content = o.content
      /\ e.eligible => Eligible(o.content, kind)
  BY EvaluationIs
<1>7. v = Assessed(memory[s].run, e)
  <2>1. v = [state |-> "VALID", manifest |-> memory[s].run.manifest, at |-> now, flag |-> None]
    BY ValidIs
  <2>2. QED
    BY <1>6, <2>1 DEF Assessed
<1>8. memory[s].run # None /\ memory[s].run = disk.run /\ memory[s].run.content = o.content
  BY DEF Bound, QInv, Remembers
<1>9. memory[s].evaluations = {} /\ Done(disk) = {} /\ Done(memory[s]) = {}
  BY <1>2 DEF QInv, Remembers, Verdicts, Judged
<1>10. PICK a, v1, v2, u1, u2 :
         /\ a = Append(disk.evidence, n)
         /\ v1 = Append(disk.validity, v) /\ v2 = Append(memory[s].validity, v)
         /\ u1 = Append(disk.statuses, st) /\ u2 = Append(memory[s].statuses, st)
  OBVIOUS
<1>11. /\ IsList(a) /\ Len(a) = Len(disk.evidence) + 1
       /\ \A i \in 1..Len(disk.evidence) : a[i] = disk.evidence[i]
  BY <1>1, <1>10, AppendList
<1>12. /\ IsList(v1) /\ Range(v1) = Range(disk.validity) \cup {v}
       /\ IsList(v2) /\ Range(v2) = Range(memory[s].validity) \cup {v}
  BY <1>1, <1>10, AppendList
<1>13. /\ IsList(u1) /\ IsList(u2) /\ Range(u1) = Range(disk.statuses) \cup {st}
  BY <1>1, <1>10, AppendList
<1>14. /\ IsTables(d) /\ d.evidence = a /\ d.run = disk.run /\ d.validity = v1
       /\ d.evaluations = {e} /\ d.statuses = u1
  <2>1. d = FinalizedIn(disk, a, v1, {e}, u1)
    <3>1. d = FinalizedIn(disk, Append(disk.evidence, n), Append(disk.validity, v),
                          disk.evaluations \cup {e}, Append(disk.statuses, st))
      BY Zenon DEF Finalized, FinalizedIn
    <3>2. disk.evaluations \cup {e} = {e}
      BY <1>2
    <3>3. QED
      BY <1>10, <3>1, <3>2, Zenon
  <2>2. IsTables(disk)
    BY <1>1
  <2>3. QED
    BY <2>1, <2>2, FinalizedIs
<1>15. /\ IsMemory(f) /\ f.evidence = a /\ f.run = memory[s].run /\ f.validity = v2
       /\ f.evaluations = {e} /\ f.statuses = u2
  <2>1. f = FinalizedIn(memory[s], a, v2, {e}, u2)
    <3>1. f = FinalizedIn(memory[s], Append(memory[s].evidence, n), Append(memory[s].validity, v),
                          memory[s].evaluations \cup {e}, Append(memory[s].statuses, st))
      BY Zenon DEF Finalized, FinalizedIn
    <3>2. memory[s].evaluations \cup {e} = {e}
      BY <1>9
    <3>3. Append(memory[s].evidence, n) = a
      BY <1>5, <1>10
    <3>4. QED
      BY <1>10, <3>1, <3>2, <3>3, Zenon
  <2>2. IsMemory(memory[s])
    BY <1>1
  <2>3. QED
    BY <2>1, <2>2, FinalizedIs
<1>16. /\ IsMemory(t) /\ t.evidence = a /\ t.run = memory[s].run /\ t.validity = v2
       /\ t.evaluations = {e} /\ t.statuses = u2
  <2>1. IsMemory(f)
    BY <1>15
  <2>2. /\ IsMemory(t) /\ t.evidence = f.evidence /\ t.run = f.run /\ t.validity = f.validity
        /\ t.evaluations = f.evaluations /\ t.statuses = f.statuses
    BY <2>1, IndexedOf
  <2>3. QED
    BY <1>15, <2>2
<1>17. IsStore(d)
  <2>1. d.evidence = Append(disk.evidence, n) /\ IsList(d.validity) /\ IsList(d.statuses)
    BY <1>10, <1>12, <1>13, <1>14
  <2>2. QED
    BY <1>1, <2>1, StoreAppended
<1>18. IsStore(t)
  <2>1. t.evidence = Append(memory[s].evidence, n) /\ IsList(t.validity) /\ IsList(t.statuses)
    BY <1>5, <1>10, <1>12, <1>13, <1>16
  <2>2. QED
    BY <1>1, <2>1, StoreAppended
<1>19. Shapes'
  <2>1. \A q \in Session : memory'[q] # None => IsMemory(memory'[q]) /\ IsStore(memory'[q])
    BY <1>16, <1>18 DEF QInv, Shapes
  <2>2. now' \in Nat /\ manifest' \in Generation /\ OverSessions(pending')
    BY <1>1 DEF QInv, Shapes
  <2>3. IsTables(disk') /\ IsStore(disk')
    BY <1>14, <1>17
  <2>4. QED
    BY <2>1, <2>2, <2>3 DEF Shapes
<1>20. Chain'
  BY <1>1, <1>5, <1>10, <1>14, ChainAppended DEF QInv
<1>21. Begins(disk.evidence, d.evidence) /\ Begins(t.evidence, d.evidence)
  <2>1. Begins(disk.evidence, disk.evidence) /\ Begins(a, a)
    BY <1>1, <1>11, BeginsSelf
  <2>2. Begins(disk.evidence, Append(disk.evidence, n))
    BY <1>1, <2>1, BeginsAppend
  <2>3. QED
    BY <1>10, <1>14, <1>16, <2>1, <2>2
<1>22. RunIsSealed'
  <2>1. /\ DOMAIN disk.evidence = 1..Len(disk.evidence) /\ Len(disk.evidence) \in Nat
        /\ DOMAIN a = 1..(Len(disk.evidence) + 1)
    BY <1>1, <1>11, ListShape
  <2>2. \A i \in DOMAIN disk.evidence : i \in DOMAIN a /\ a[i] = disk.evidence[i]
    BY <1>11, <2>1
  <2>3. QED
    BY <1>14, <2>2 DEF QInv, RunIsSealed
<1>23. Judged(d)
  <2>1. /\ d.evidence = Append(disk.evidence, n) /\ d.evaluations = {e}
        /\ d.run # None /\ d.run.content = e.content
        /\ d.validity = Append(disk.validity, Assessed(d.run, e))
    BY <1>6, <1>7, <1>8, <1>10, <1>14
  <2>2. /\ IsList(disk.evidence) /\ IsList(disk.validity) /\ Done(disk) = {}
        /\ n.lifecycle = "EVALUATED" /\ n.evaluation = e.id /\ n.content = e.content
    BY <1>1, <1>6, <1>9
  <2>3. GainsVerdict(disk, d, n, e)
    BY <2>1, <2>2, Zenon DEF GainsVerdict
  <2>4. QED
    BY <2>3, JudgedNew
<1>24. Judged(t)
  <2>1. /\ t.evidence = Append(memory[s].evidence, n) /\ t.evaluations = {e}
        /\ t.run # None /\ t.run.content = e.content
        /\ t.validity = Append(memory[s].validity, Assessed(t.run, e))
    BY <1>5, <1>6, <1>7, <1>8, <1>10, <1>16
  <2>2. /\ IsList(memory[s].evidence) /\ IsList(memory[s].validity) /\ Done(memory[s]) = {}
        /\ n.lifecycle = "EVALUATED" /\ n.evaluation = e.id /\ n.content = e.content
    BY <1>1, <1>6, <1>9
  <2>3. GainsVerdict(memory[s], t, n, e)
    BY <2>1, <2>2, Zenon DEF GainsVerdict
  <2>4. QED
    BY <2>3, JudgedNew
<1>25. /\ t.run # None => t.run = d.run
       /\ t.evaluations \subseteq d.evaluations /\ Range(t.validity) \subseteq Range(d.validity)
  BY <1>8, <1>12, <1>14, <1>16 DEF QInv, Remembers
<1>26. \A x \in d.evaluations : x.eligible => Eligible(x.content, kind)
  BY <1>6, <1>14
<1>27. Earned(d, st)
  <2>1. e.eligible => Eligible(e.content, kind)
    BY <1>6
  <2>2. e.content = memory[s].run.content /\ d.run = memory[s].run /\ v \in Range(d.validity)
    BY <1>6, <1>8, <1>12, <1>14
  <2>3. QED
    BY <2>1, <2>2, StatusEarned
<1>28. \A i \in DOMAIN d.statuses : Earned(d, d.statuses[i])
                                      \/ \E j \in DOMAIN disk.statuses : d.statuses[i] = disk.statuses[j]
  <2>1. \A i \in DOMAIN d.statuses : d.statuses[i] \in Range(disk.statuses) \cup {st}
    BY <1>13, <1>14 DEF Range
  <2>2. \A x \in Range(disk.statuses) : \E j \in DOMAIN disk.statuses : x = disk.statuses[j]
    BY DEF Range
  <2>3. QED
    BY <1>27, <2>1, <2>2
<1>29. /\ disk.run # None => d.run = disk.run
       /\ disk.evaluations \subseteq d.evaluations /\ Range(disk.validity) \subseteq Range(d.validity)
  BY <1>2, <1>12, <1>14
<1>30. QED
  BY <1>19, <1>20, <1>21, <1>22, <1>23, <1>24, <1>25, <1>26, <1>28, <1>29, SessionWrites

\* A step in which only the memory of a session and what it has pending change.
LEMMA MemoryWrites ==
  ASSUME QInv, NEW s \in Session, now' = now, kind' = kind, manifest' = manifest, disk' = disk,
         \A q \in Session : q # s => memory'[q] = memory[q] /\ pending'[q] = pending[q],
         OverSessions(memory'), OverSessions(pending'),
         memory'[s] # None =>
            /\ IsMemory(memory'[s]) /\ IsStore(memory'[s])
            /\ Begins(memory'[s].evidence, disk.evidence)
            /\ memory'[s].run # None => memory'[s].run = disk.run
            /\ memory'[s].evaluations \subseteq disk.evaluations
            /\ Range(memory'[s].validity) \subseteq Range(disk.validity)
            /\ Judged(memory'[s]),
         pending'[s] # None => pending'[s] = pending[s]
  PROVE  QInv'
<1>1. Shapes'
  BY DEF QInv, Shapes
<1>2. Chain' /\ RunIsSealed' /\ Judged(disk')
  BY DEF QInv, Chain, RunIsSealed, Verdicts
<1>3. Begins(disk.evidence, disk'.evidence)
  BY BeginsSelf DEF QInv, Shapes, IsStore
<1>4. \A e \in disk'.evaluations : e.eligible => Eligible(e.content, kind)
  BY DEF QInv, Verdicts
<1>5. QED
  BY <1>1, <1>2, <1>3, <1>4, SessionWrites

\* finalize_evaluation failed.  No evaluation was made at this time: the
\* assessment that it was made under would be the one that append_validity has
\* just found to be new.
LEMMA EvaluateAborts ==
  ASSUME QInv, NEW s \in Session, memory[s] # None, NEW o \in Seen(s),
         NEW v, v = Assessment(memory[s].run, o, None), NEW e, e = Evaluation(o), NEW n,
         v.state = "VALID", ValidityAccepted(memory[s].validity, v),
         NEW t, t = Restored(s, n, e), memory'[s] = t,
         \A q \in Session : q # s => memory'[q] = memory[q], OverSessions(memory'),
         now' = now, kind' = kind, manifest' = manifest, pending' = pending, disk' = disk
  PROVE  QInv'
<1>1. IsMemory(memory[s]) /\ IsStore(memory[s]) /\ OverSessions(pending)
  BY DEF QInv, Shapes
<1>2. e.id = now
  BY EvaluationIs
<1>3. v = [state |-> "VALID", manifest |-> memory[s].run.manifest, at |-> now, flag |-> None]
  BY ValidIs
<1>4. \A x \in memory[s].evaluations : x.id # e.id
  <2>1. SUFFICES ASSUME NEW x \in memory[s].evaluations, x.id = now
                 PROVE  FALSE
    BY <1>2
  <2>2. Judged(memory[s]) /\ memory[s].evaluations # {}
    BY <2>1 DEF QInv, Verdicts
  <2>3. Assessed(memory[s].run, x) \in Range(memory[s].validity)
    BY <2>1, <2>2 DEF Judged
  <2>4. Assessed(memory[s].run, x) = v
    BY <1>3, <2>1 DEF Assessed
  <2>5. QED
    BY <2>3, <2>4 DEF ValidityAccepted
<1>5. /\ IsMemory(t) /\ t.evidence = memory[s].evidence /\ t.run = memory[s].run
      /\ t.validity = memory[s].validity
      /\ t.evaluations = memory[s].evaluations /\ t.statuses = memory[s].statuses
  BY <1>1, <1>4, RestoredIs
<1>6. IsStore(t)
  BY <1>1, <1>5 DEF IsStore
<1>7. Judged(t)
  <2>1. Judged(memory[s])
    BY DEF QInv, Verdicts
  <2>2. QED
    BY <1>1, <1>5, <2>1, JudgedStays DEF IsStore
<1>8. /\ Begins(t.evidence, disk.evidence)
      /\ t.run # None => t.run = disk.run
      /\ t.evaluations \subseteq disk.evaluations
      /\ Range(t.validity) \subseteq Range(disk.validity)
  BY <1>5 DEF QInv, Remembers
<1>9. QED
  BY <1>1, <1>5, <1>6, <1>7, <1>8, MemoryWrites

LEMMA EvaluateStep ==
  ASSUME QInv, NEW s \in Session, memory[s] # None, NEW o \in Seen(s), NEW commits,
         Evaluate(s, o, commits)
  PROVE  QInv'
<1>1. PICK v : v = Assessment(memory[s].run, o, None)
  OBVIOUS
<1>2. PICK e : e = Evaluation(o)
  OBVIOUS
<1>3. PICK n : n = Evaluated(o, e)
  OBVIOUS
<1>4. PICK st : st = CurrentStatus(e, v)
  OBVIOUS
<1>5. PICK d, f : d = Finalized(disk, n, v, e, st) /\ f = Finalized(memory[s], n, v, e, st)
  OBVIOUS
<1>6. PICK t, k : t = [f EXCEPT !.indexed = TRUE] /\ k = Restored(s, n, e)
  OBVIOUS
<1>7. /\ Bound(memory[s].run, o) /\ v.state = "VALID" /\ ValidityAccepted(memory[s].validity, v)
      /\ \/ /\ Finalizable(s, n, e, v, st)
            /\ memory' = [memory EXCEPT ![s] = t] /\ disk' = d
         \/ memory' = [memory EXCEPT ![s] = k] /\ disk' = disk
      /\ now' = now /\ kind' = kind /\ manifest' = manifest /\ pending' = pending
  BY <1>1, <1>2, <1>3, <1>4, <1>5, <1>6, Zenon DEF Evaluate
<1>8. ASSUME NEW x, memory' = [memory EXCEPT ![s] = x]
      PROVE  /\ memory'[s] = x /\ \A q \in Session : q # s => memory'[q] = memory[q]
             /\ OverSessions(memory')
  <2>1. PICK S : memory \in [Session -> S]
    BY DEF QInv, Shapes, OverSessions
  <2>2. memory' \in [Session -> S \cup {x}]
    BY <1>8, <2>1
  <2>3. QED
    BY <1>8, <2>1, <2>2 DEF OverSessions
<1>9. /\ IsRevision(n) /\ n.revision = o.revision + 1 /\ n.previous = Digest(o)
      /\ n.lifecycle = "EVALUATED" /\ n.content = o.content /\ n.evaluation = e.id
  <2>1. IsRevision(o)
    BY SeenIs
  <2>2. QED
    BY <1>3, <2>1, EvaluatedIs
<1>10. CASE Finalizable(s, n, e, v, st) /\ memory' = [memory EXCEPT ![s] = t] /\ disk' = d
  <2>1. /\ memory'[s] = t /\ \A q \in Session : q # s => memory'[q] = memory[q]
        /\ OverSessions(memory')
    BY <1>8, <1>10
  <2>2. Reindexed(f, t)
    BY <1>6, Zenon DEF Reindexed
  <2>3. Finalizable(s, n, e, v, st) /\ disk' = d
    BY <1>10
  <2>4. QED
    BY <1>1, <1>2, <1>4, <1>5, <1>7, <1>9, <2>1, <2>2, <2>3, EvaluateCommits
<1>11. CASE memory' = [memory EXCEPT ![s] = k] /\ disk' = disk
  <2>1. /\ memory'[s] = k /\ \A q \in Session : q # s => memory'[q] = memory[q]
        /\ OverSessions(memory')
    BY <1>8, <1>11
  <2>2. disk' = disk /\ k = Restored(s, n, e)
    BY <1>6, <1>11
  <2>3. QED
    BY <1>1, <1>2, <1>7, <2>1, <2>2, EvaluateAborts
<1>12. QED
  BY <1>7, <1>10, <1>11

-----------------------------------------------------------------------------
(* The current validity and status.                                        *)

\* reassess_current: the status that will be appended is earned if it says
\* eligible.
LEMMA ReassessStep ==
  ASSUME QInv, NEW s \in Session, memory[s] # None, NEW o \in Seen(s),
         NEW e \in memory[s].evaluations, NEW flag \in {None, "INVALIDATED", "CONTAMINATED"},
         Reassess(s, o, e, flag)
  PROVE  QInv'
<1>1. PICK v : v = Assessment(memory[s].run, o, flag)
  OBVIOUS
<1>2. PICK st : st = CurrentStatus(e, v)
  OBVIOUS
<1>3. /\ Bound(memory[s].run, o)
      /\ memory' = [memory EXCEPT ![s].validity = Append(@, v)]
      /\ disk' = [disk EXCEPT !.validity = Append(@, v)]
      /\ pending' = [pending EXCEPT ![s] = st]
      /\ now' = now /\ kind' = kind /\ manifest' = manifest
  BY <1>1, <1>2, Zenon DEF Reassess
<1>4. /\ IsTables(disk) /\ IsStore(disk) /\ IsMemory(memory[s]) /\ IsStore(memory[s])
      /\ IsList(disk.evidence) /\ IsList(disk.validity)
      /\ IsList(memory[s].evidence) /\ IsList(memory[s].validity)
  BY DEF QInv, Shapes, IsStore
<1>5. PICK v1, v2 : v1 = Append(disk.validity, v) /\ v2 = Append(memory[s].validity, v)
  OBVIOUS
<1>6. /\ IsList(v1) /\ Range(v1) = Range(disk.validity) \cup {v}
      /\ IsList(v2) /\ Range(v2) = Range(memory[s].validity) \cup {v}
  BY <1>4, <1>5, AppendList
<1>7. PICK d : d = WithValidity(disk, v1)
  OBVIOUS
<1>8. PICK t : t = WithValidity(memory[s], v2)
  OBVIOUS
<1>9. /\ IsTables(d) /\ d.evidence = disk.evidence /\ d.run = disk.run /\ d.validity = v1
      /\ d.evaluations = disk.evaluations /\ d.statuses = disk.statuses
  <2>1. IsTables(disk)
    BY <1>4
  <2>2. QED
    BY <1>7, <2>1, ValidityOf
<1>10. /\ IsMemory(t) /\ t.evidence = memory[s].evidence /\ t.run = memory[s].run
       /\ t.validity = v2
       /\ t.evaluations = memory[s].evaluations /\ t.statuses = memory[s].statuses
  <2>1. IsMemory(memory[s])
    BY <1>4
  <2>2. QED
    BY <1>8, <2>1, ValidityOf
<1>11. disk' = d /\ memory' = [memory EXCEPT ![s] = t]
  BY <1>3, <1>5, <1>7, <1>8 DEF WithValidity
<1>12. /\ memory'[s] = t /\ \A q \in Session : q # s => memory'[q] = memory[q]
       /\ OverSessions(memory')
  <2>1. memory' = [memory EXCEPT ![s] = t]
    BY <1>11
  <2>2. PICK S : memory \in [Session -> S]
    BY DEF QInv, Shapes, OverSessions
  <2>3. memory' \in [Session -> S \cup {t}]
    BY <2>1, <2>2
  <2>4. QED
    BY <2>1, <2>2, <2>3 DEF OverSessions
<1>13. /\ pending'[s] = st /\ \A q \in Session : q # s => pending'[q] = pending[q]
       /\ OverSessions(pending')
  <2>1. pending' = [pending EXCEPT ![s] = st]
    BY <1>3
  <2>2. PICK S : pending \in [Session -> S]
    BY DEF QInv, Shapes, OverSessions
  <2>3. pending' \in [Session -> S \cup {st}]
    BY <2>1, <2>2
  <2>4. QED
    BY <2>1, <2>2, <2>3 DEF OverSessions
<1>14. IsStore(d) /\ IsStore(t)
  BY <1>4, <1>6, <1>9, <1>10 DEF IsStore
<1>15. Shapes'
  <2>1. \A q \in Session : memory'[q] # None => IsMemory(memory'[q]) /\ IsStore(memory'[q])
    BY <1>10, <1>12, <1>14 DEF QInv, Shapes
  <2>2. now' \in Nat /\ manifest' \in Generation
    BY <1>3 DEF QInv, Shapes
  <2>3. IsTables(disk') /\ IsStore(disk')
    BY <1>9, <1>11, <1>14
  <2>4. QED
    BY <1>12, <1>13, <2>1, <2>2, <2>3 DEF Shapes
<1>16. Chain' /\ RunIsSealed'
  BY <1>9, <1>11 DEF QInv, Chain, RunIsSealed
<1>17. Begins(disk.evidence, d.evidence)
  BY <1>4, <1>9, BeginsSelf
<1>18. Judged(d) /\ Judged(t)
  <2>1. Judged(disk) /\ Judged(memory[s])
    BY DEF QInv, Verdicts
  <2>2. Judged(d)
    BY <1>4, <1>6, <1>9, <2>1, JudgedStays
  <2>3. Judged(t)
    BY <1>4, <1>6, <1>10, <2>1, JudgedStays
  <2>4. QED
    BY <2>2, <2>3
<1>19. /\ Begins(t.evidence, d.evidence)
       /\ t.run # None => t.run = d.run
       /\ t.evaluations \subseteq d.evaluations /\ Range(t.validity) \subseteq Range(d.validity)
  BY <1>6, <1>9, <1>10 DEF QInv, Remembers
<1>20. Earned(d, st)
  <2>1. memory[s].run # None /\ memory[s].run = disk.run /\ e \in disk.evaluations
    BY <1>3 DEF Bound, QInv, Remembers
  <2>2. e.eligible => Eligible(e.content, kind)
    BY <2>1 DEF QInv, Verdicts
  <2>3. e.content = disk.run.content
    BY <2>1 DEF QInv, Verdicts, Judged
  <2>4. e.content = memory[s].run.content /\ d.run = memory[s].run /\ v \in Range(d.validity)
    BY <1>6, <1>9, <2>1, <2>3
  <2>5. Bound(memory[s].run, o)
    BY <1>3
  <2>6. QED
    BY <1>1, <1>2, <2>2, <2>4, <2>5, StatusEarned
<1>21. /\ \A x \in d.evaluations : x.eligible => Eligible(x.content, kind)
       /\ \A i \in DOMAIN d.statuses : \E j \in DOMAIN disk.statuses : d.statuses[i] = disk.statuses[j]
       /\ disk.evaluations \subseteq d.evaluations /\ Range(disk.validity) \subseteq Range(d.validity)
  BY <1>6, <1>9 DEF QInv, Verdicts
<1>22. kind' = kind /\ d.run = disk.run
  BY <1>3, <1>9
<1>23. QED
  BY <1>11, <1>12, <1>13, <1>15, <1>16, <1>17, <1>18, <1>19, <1>20, <1>21, <1>22, SessionWrites

LEMMA AppendStatusStep ==
  ASSUME QInv, NEW s \in Session, memory[s] # None, AppendStatus(s)
  PROVE  QInv'
<1>1. PICK st : st = pending[s]
  OBVIOUS
<1>2. /\ st # None /\ pending' = [pending EXCEPT ![s] = None]
      /\ \/ /\ memory' = [memory EXCEPT ![s].statuses = Append(@, st)]
            /\ disk' = [disk EXCEPT !.statuses = Append(@, st)]
         \/ memory' = memory /\ disk' = disk
      /\ now' = now /\ kind' = kind /\ manifest' = manifest
  BY <1>1, Zenon DEF AppendStatus
<1>3. /\ IsTables(disk) /\ IsStore(disk) /\ IsMemory(memory[s]) /\ IsStore(memory[s])
      /\ IsList(disk.evidence) /\ IsList(disk.statuses)
      /\ IsList(memory[s].evidence) /\ IsList(memory[s].statuses)
      /\ OverSessions(memory)
  BY DEF QInv, Shapes, IsStore
<1>4. /\ pending'[s] = None /\ \A q \in Session : q # s => pending'[q] = pending[q]
      /\ OverSessions(pending')
  <2>1. pending' = [pending EXCEPT ![s] = None]
    BY <1>2
  <2>2. PICK S : pending \in [Session -> S]
    BY DEF QInv, Shapes, OverSessions
  <2>3. pending' \in [Session -> S \cup {None}]
    BY <2>1, <2>2
  <2>4. QED
    BY <2>1, <2>2, <2>3 DEF OverSessions
<1>5. CASE memory' = memory /\ disk' = disk
  <2>1. /\ IsMemory(memory[s]) /\ IsStore(memory[s])
        /\ Begins(memory[s].evidence, disk.evidence)
        /\ memory[s].run # None => memory[s].run = disk.run
        /\ memory[s].evaluations \subseteq disk.evaluations
        /\ Range(memory[s].validity) \subseteq Range(disk.validity)
        /\ Judged(memory[s])
    BY <1>3 DEF QInv, Remembers, Verdicts
  <2>2. now' = now /\ kind' = kind /\ manifest' = manifest
    BY <1>2
  <2>3. memory' = memory /\ disk' = disk /\ OverSessions(memory')
    BY <1>3, <1>5
  <2>4. QED
    BY <1>4, <2>1, <2>2, <2>3, MemoryWrites
<1>6. CASE /\ memory' = [memory EXCEPT ![s].statuses = Append(@, st)]
           /\ disk' = [disk EXCEPT !.statuses = Append(@, st)]
  <2>1. PICK u1, u2 : u1 = Append(disk.statuses, st) /\ u2 = Append(memory[s].statuses, st)
    OBVIOUS
  <2>2. /\ IsList(u1) /\ Range(u1) = Range(disk.statuses) \cup {st}
        /\ IsList(u2)
    BY <1>3, <2>1, AppendList
  <2>3. PICK d : d = WithStatuses(disk, u1)
    OBVIOUS
  <2>4. PICK t : t = WithStatuses(memory[s], u2)
    OBVIOUS
  <2>5. /\ IsTables(d) /\ d.evidence = disk.evidence /\ d.run = disk.run
        /\ d.validity = disk.validity /\ d.evaluations = disk.evaluations /\ d.statuses = u1
    <3>1. IsTables(disk)
      BY <1>3
    <3>2. QED
      BY <2>3, <3>1, StatusesOf
  <2>6. /\ IsMemory(t) /\ t.evidence = memory[s].evidence /\ t.run = memory[s].run
        /\ t.validity = memory[s].validity
        /\ t.evaluations = memory[s].evaluations /\ t.statuses = u2
    <3>1. IsMemory(memory[s])
      BY <1>3
    <3>2. QED
      BY <2>4, <3>1, StatusesOf
  <2>7. disk' = d /\ memory' = [memory EXCEPT ![s] = t]
    BY <1>6, <2>1, <2>3, <2>4 DEF WithStatuses
  <2>8. /\ memory'[s] = t /\ \A q \in Session : q # s => memory'[q] = memory[q]
        /\ OverSessions(memory')
    <3>1. memory' = [memory EXCEPT ![s] = t]
      BY <2>7
    <3>2. PICK S : memory \in [Session -> S]
      BY DEF QInv, Shapes, OverSessions
    <3>3. memory' \in [Session -> S \cup {t}]
      BY <3>1, <3>2
    <3>4. QED
      BY <3>1, <3>2, <3>3 DEF OverSessions
  <2>9. IsStore(d) /\ IsStore(t)
    BY <1>3, <2>2, <2>5, <2>6 DEF IsStore
  <2>10. Shapes'
    <3>1. \A q \in Session : memory'[q] # None => IsMemory(memory'[q]) /\ IsStore(memory'[q])
      BY <2>6, <2>8, <2>9 DEF QInv, Shapes
    <3>2. now' \in Nat /\ manifest' \in Generation
      BY <1>2 DEF QInv, Shapes
    <3>3. IsTables(disk') /\ IsStore(disk')
      BY <2>5, <2>7, <2>9
    <3>4. QED
      BY <1>4, <2>8, <3>1, <3>2, <3>3 DEF Shapes
  <2>11. Chain' /\ RunIsSealed'
    BY <2>5, <2>7 DEF QInv, Chain, RunIsSealed
  <2>12. Begins(disk.evidence, d.evidence)
    BY <1>3, <2>5, BeginsSelf
  <2>13. Judged(d) /\ Judged(t)
    BY <2>5, <2>6 DEF QInv, Verdicts, Judged, Done
  <2>14. /\ Begins(t.evidence, d.evidence)
         /\ t.run # None => t.run = d.run
         /\ t.evaluations \subseteq d.evaluations /\ Range(t.validity) \subseteq Range(d.validity)
    BY <2>5, <2>6 DEF QInv, Remembers
  <2>15. Earned(d, st)
    BY <1>1, <1>2, <2>5 DEF QInv, Statuses, Earned
  <2>16. \A i \in DOMAIN d.statuses : Earned(d, d.statuses[i])
                                        \/ \E j \in DOMAIN disk.statuses : d.statuses[i] = disk.statuses[j]
    <3>1. \A i \in DOMAIN d.statuses : d.statuses[i] \in Range(disk.statuses) \cup {st}
      BY <2>2, <2>5 DEF Range
    <3>2. \A x \in Range(disk.statuses) : \E j \in DOMAIN disk.statuses : x = disk.statuses[j]
      BY DEF Range
    <3>3. QED
      BY <2>15, <3>1, <3>2
  <2>17. /\ \A x \in d.evaluations : x.eligible => Eligible(x.content, kind)
         /\ disk.evaluations \subseteq d.evaluations /\ Range(disk.validity) \subseteq Range(d.validity)
         /\ d.run = disk.run
    BY <2>5 DEF QInv, Verdicts
  <2>18. kind' = kind
    BY <1>2
  <2>19. QED
    BY <1>4, <2>7, <2>8, <2>10, <2>11, <2>12, <2>13, <2>14, <2>16, <2>17, <2>18, SessionWrites
<1>7. QED
  BY <1>2, <1>5, <1>6

-----------------------------------------------------------------------------
(* The world, and the whole of the system.                                 *)

\* A new session remembers all that the tables say.
LEMMA StartStep ==
  ASSUME QInv, NEW s \in Session, Start(s)
  PROVE  QInv'
<1>1. PICK t : t = Loaded(disk)
  OBVIOUS
<1>2. /\ memory' = [memory EXCEPT ![s] = t]
      /\ now' = now /\ kind' = kind /\ manifest' = manifest /\ disk' = disk /\ pending' = pending
  BY <1>1 DEF Start
<1>3. /\ memory'[s] = t /\ \A q \in Session : q # s => memory'[q] = memory[q]
      /\ OverSessions(memory')
  <2>1. PICK S : memory \in [Session -> S]
    BY DEF QInv, Shapes, OverSessions
  <2>2. memory' = [memory EXCEPT ![s] = t]
    BY <1>2
  <2>3. memory' \in [Session -> S \cup {t}]
    BY <2>1, <2>2
  <2>4. QED
    BY <2>1, <2>2, <2>3 DEF OverSessions
<1>4. /\ IsMemory(t) /\ t.evidence = disk.evidence /\ t.run = disk.run
      /\ t.validity = disk.validity
      /\ t.evaluations = disk.evaluations /\ t.statuses = disk.statuses
  <2>1. PICK b : b = (disk.evaluations # {})
    OBVIOUS
  <2>2. t = [evidence |-> disk.evidence, run |-> disk.run, validity |-> disk.validity,
             evaluations |-> disk.evaluations, statuses |-> disk.statuses, indexed |-> b]
    BY <1>1, <2>1, Zenon DEF Loaded
  <2>3. IsMemory(t)
    BY <2>2, Zenon DEF IsMemory
  <2>4. QED
    BY <2>2, <2>3
<1>5. IsStore(disk) /\ IsList(disk.evidence) /\ OverSessions(pending)
  BY DEF QInv, Shapes, IsStore
<1>6. IsStore(t)
  BY <1>4, <1>5 DEF IsStore
<1>7. Judged(t)
  BY <1>4 DEF QInv, Verdicts, Judged, Done
<1>8. Begins(t.evidence, disk.evidence)
  BY <1>4, <1>5, BeginsSelf
<1>9. now' = now /\ kind' = kind /\ manifest' = manifest /\ disk' = disk /\ pending' = pending
  BY <1>2
<1>10. QED
  BY <1>3, <1>4, <1>5, <1>6, <1>7, <1>8, <1>9, MemoryWrites

LEMMA StopStep ==
  ASSUME QInv, NEW s \in Session, Stop(s)
  PROVE  QInv'
<1>1. /\ memory' = [memory EXCEPT ![s] = None] /\ pending' = [pending EXCEPT ![s] = None]
      /\ now' = now /\ kind' = kind /\ manifest' = manifest /\ disk' = disk
  BY DEF Stop
<1>2. /\ memory'[s] = None /\ \A q \in Session : q # s => memory'[q] = memory[q]
      /\ OverSessions(memory')
  <2>1. PICK S : memory \in [Session -> S]
    BY DEF QInv, Shapes, OverSessions
  <2>2. memory' = [memory EXCEPT ![s] = None]
    BY <1>1
  <2>3. memory' \in [Session -> S \cup {None}]
    BY <2>1, <2>2
  <2>4. QED
    BY <2>1, <2>2, <2>3 DEF OverSessions
<1>3. /\ pending'[s] = None /\ \A q \in Session : q # s => pending'[q] = pending[q]
      /\ OverSessions(pending')
  <2>1. PICK S : pending \in [Session -> S]
    BY DEF QInv, Shapes, OverSessions
  <2>2. pending' = [pending EXCEPT ![s] = None]
    BY <1>1
  <2>3. pending' \in [Session -> S \cup {None}]
    BY <2>1, <2>2
  <2>4. QED
    BY <2>1, <2>2, <2>3 DEF OverSessions
<1>4. now' = now /\ kind' = kind /\ manifest' = manifest /\ disk' = disk
  BY <1>1
<1>5. QED
  BY <1>2, <1>3, <1>4, MemoryWrites

LEMMA WorldStep ==
  ASSUME QInv, now' \in Nat, manifest' \in Generation,
         kind' = kind, disk' = disk, memory' = memory, pending' = pending
  PROVE  QInv'
<1>1. Shapes'
  BY DEF QInv, Shapes
<1>2. Chain' /\ Remembers' /\ RunIsSealed'
  BY DEF QInv, Chain, Remembers, RunIsSealed
<1>3. Verdicts' /\ Statuses'
  BY DEF QInv, Verdicts, Statuses, Earned
<1>4. QED
  BY <1>1, <1>2, <1>3 DEF QInv

LEMMA QInit == Init => QInv
<1> SUFFICES ASSUME Init PROVE QInv
  OBVIOUS
<1>1. /\ now = 0 /\ manifest \in Generation
      /\ memory = [s \in Session |-> None] /\ pending = [s \in Session |-> None]
  BY DEF Init
<1>2. IsTables(disk)
  BY Zenon DEF Init, Empty, IsTables
<1>3. /\ disk.evidence = <<>> /\ disk.run = None /\ disk.validity = <<>>
      /\ disk.evaluations = {} /\ disk.statuses = <<>>
  BY DEF Init, Empty
<1>4. IsList(<<>>) /\ DOMAIN <<>> = {}
  BY EmptyList
<1>5. memory \in [Session -> {None}] /\ pending \in [Session -> {None}]
  BY <1>1
<1>6. Shapes
  BY <1>1, <1>2, <1>3, <1>4, <1>5 DEF Shapes, IsStore, OverSessions
<1>7. Chain /\ RunIsSealed /\ Remembers
  BY <1>1, <1>3, <1>4 DEF Chain, RunIsSealed, Remembers
<1>8. Verdicts /\ Statuses
  BY <1>1, <1>3, <1>4 DEF Verdicts, Judged, Done, Statuses
<1>9. QED
  BY <1>6, <1>7, <1>8 DEF QInv

LEMMA QStep == QInv /\ [Next]_vars => QInv'
<1> SUFFICES ASSUME QInv, [Next]_vars PROVE QInv'
  OBVIOUS
<1>1. now \in Nat /\ manifest \in Generation
  BY DEF QInv, Shapes
<1>2. CASE Tick
  BY <1>1, <1>2, WorldStep DEF Tick
<1>3. ASSUME NEW g \in Generation, ChangeManifest(g) PROVE QInv'
  BY <1>1, <1>3, WorldStep DEF ChangeManifest
<1>4. ASSUME NEW k, NEW claim, Settle(k, claim) PROVE QInv'
  BY <1>1, <1>4, WorldStep DEF Settle
<1>5. ASSUME NEW s \in Session, SessionStep(s) PROVE QInv'
  <2>1. CASE Start(s)
    BY <2>1, StartStep
  <2>2. CASE Stop(s)
    BY <2>2, StopStep
  <2>3. CASE Open(s)
    BY <2>3, OpenStep
  <2>4. CASE memory[s] # None /\ AppendStatus(s)
    BY <2>4, AppendStatusStep
  <2>5. ASSUME memory[s] # None, NEW r \in Seen(s), NEW O, NEW I,
               Collect(s, r, O, I) \/ Supplement(s, r, O, I)
        PROVE  QInv'
    BY <2>5, CollectStep, SupplementStep
  <2>6. ASSUME memory[s] # None, NEW r \in Seen(s), Seal(s, r)
        PROVE  QInv'
    BY <2>6, SealStep
  <2>7. ASSUME memory[s] # None, NEW r \in Seen(s), CreateRun(s, r)
        PROVE  QInv'
    BY <2>7, CreateRunStep
  <2>8. ASSUME memory[s] # None, NEW r \in Seen(s), NEW commits, Evaluate(s, r, commits)
        PROVE  QInv'
    BY <2>8, EvaluateStep
  <2>9. ASSUME memory[s] # None, NEW r \in Seen(s), NEW e \in memory[s].evaluations,
               NEW flag \in {None, "INVALIDATED", "CONTAMINATED"}, Reassess(s, r, e, flag)
        PROVE  QInv'
    BY <2>9, ReassessStep
  <2>10. QED
    BY <1>5, <2>1, <2>2, <2>3, <2>4, <2>5, <2>6, <2>7, <2>8, <2>9 DEF SessionStep
<1>6. CASE UNCHANGED vars
  BY <1>1, <1>6, WorldStep DEF vars
<1>7. QED
  BY <1>2, <1>3, <1>4, <1>5, <1>6 DEF Next

\* The invariant of all sessions and the database.
THEOREM QualificationInvariant == Spec => []QInv
<1>1. Init => QInv
  BY QInit
<1>2. QInv /\ [Next]_vars => QInv'
  BY QStep
<1>3. QED
  BY <1>1, <1>2, PTL DEF Spec

-----------------------------------------------------------------------------
(* What the invariant says to a reader of the code.                        *)

\* append_evidence_revision and the primary key of m10_evidence: the stored
\* revisions are one chain that takes nothing away, and each session remembers
\* a beginning of it.
THEOREM EvidenceIsAChain == Spec => []EvidenceChain
<1>1. QInv => EvidenceChain
  <2> SUFFICES ASSUME QInv PROVE EvidenceChain
    OBVIOUS
  <2>1. ASSUME NEW s \in Session, memory[s] # None
        PROVE  IsPrefix(memory[s].evidence, disk.evidence)
    <3>1. IsList(memory[s].evidence) /\ IsList(disk.evidence)
      BY <2>1 DEF QInv, Shapes, IsStore
    <3>2. Begins(memory[s].evidence, disk.evidence)
      BY <2>1 DEF QInv, Remembers
    <3>3. QED
      BY <3>1, <3>2, BeginsIsPrefix
  <2>2. Chain
    BY DEF QInv
  <2>3. QED
    BY <2>1, <2>2 DEF EvidenceChain, Chain, Follow
<1>2. QED
  BY <1>1, QualificationInvariant, PTL

\* finalize_evaluation stores the evaluation of a run with the evidence that it
\* marks EVALUATED or neither, in the tables and in every session.
THEOREM RunsAreJudgedOnce == Spec => []OneVerdict
<1>1. QInv => OneVerdict
  <2> SUFFICES ASSUME QInv PROVE OneVerdict
    OBVIOUS
  <2>1. ASSUME NEW t, Judged(t)
        PROVE  IF t.evaluations = {} THEN Done(t) = {}
               ELSE \E e \in t.evaluations, i \in Done(t) :
                       /\ t.evaluations = {e} /\ Done(t) = {i}
                       /\ t.evidence[i].evaluation = e.id /\ t.evidence[i].content = e.content
                       /\ t.run # None /\ t.run.content = e.content
    <3>1. CASE t.evaluations = {}
      BY <2>1, <3>1 DEF Judged
    <3>2. CASE t.evaluations # {}
      <4>1. \E e \in t.evaluations, i \in Done(t) :
               /\ t.evaluations = {e} /\ Done(t) = {i}
               /\ t.evidence[i].evaluation = e.id /\ t.evidence[i].content = e.content
               /\ t.run # None /\ t.run.content = e.content
        BY <2>1, <3>2, Zenon DEF Judged
      <4>2. QED
        BY <3>2, <4>1, Zenon
    <3>3. QED
      BY <3>1, <3>2
  <2>2. Judged(disk) /\ \A s \in Session : memory[s] # None =>
           Judged(memory[s]) /\ memory[s].evaluations \subseteq disk.evaluations
    BY DEF QInv, Verdicts, Remembers
  <2>3. QED
    BY <2>1, <2>2, Zenon DEF OneVerdict, Done
<1>2. QED
  BY <1>1, QualificationInvariant, PTL

\* What the gates ask of evidence, besides its sums.
LEMMA EligibleMeans ==
  ASSUME NEW c, IsContent(c), NEW k, Eligible(c, k)
  PROVE  /\ k = "OUT_OF_SAMPLE"
         /\ \A x \in c.incidents : x.category \notin SafetyCategory
         /\ Cardinality({j \in Key : j \in DOMAIN c.claims /\ c.claims[j] = "COMPLETED"})
               >= Policy.minCompleted
<1>1. PICK g : g = Gates(c, k)
  OBVIOUS
<1>2. \A x \in DOMAIN g : g[x]
  BY <1>1, Zenon DEF Eligible
<1>3. /\ "partition" \in DOMAIN g /\ "safety" \in DOMAIN g /\ "completed" \in DOMAIN g
      /\ g.partition = (k = "OUT_OF_SAMPLE")
      /\ g.safety = (\A category \in SafetyCategory : IncidentCount(c, category) = 0)
      /\ g.completed = (Cardinality(ClaimsIn(c, "COMPLETED")) >= Policy.minCompleted)
  BY <1>1 DEF Gates, GatesFor
<1>4. /\ k = "OUT_OF_SAMPLE"
      /\ \A category \in SafetyCategory : IncidentCount(c, category) = 0
      /\ Cardinality(ClaimsIn(c, "COMPLETED")) >= Policy.minCompleted
  BY <1>2, <1>3, Zenon
<1>5. PICK a, b, o, i :
        /\ c = [claims |-> a, decisions |-> b, outcomes |-> o, incidents |-> i]
        /\ DOMAIN a \subseteq Key /\ DOMAIN b \subseteq DOMAIN a /\ IsFiniteSet(i)
  BY DEF IsContent
<1>6. ASSUME NEW x \in c.incidents, x.category \in SafetyCategory PROVE FALSE
  <2> DEFINE those == {y \in c.incidents : y.category = x.category}
  <2>1. IsFiniteSet(those)
    <3>1. IsFiniteSet(c.incidents) /\ those \subseteq c.incidents
      BY <1>5
    <3>2. QED
      BY <3>1, FS_Subset
  <2>2. Cardinality(those) = 0
    BY <1>4, <1>6 DEF IncidentCount
  <2>3. those = {}
    BY <2>1, <2>2, FS_EmptySet
  <2>4. QED
    BY <2>3
<1>7. ClaimsIn(c, "COMPLETED") = {j \in Key : j \in DOMAIN c.claims /\ c.claims[j] = "COMPLETED"}
  BY <1>5 DEF ClaimsIn
<1>8. QED
  BY <1>4, <1>6, <1>7

\* assess_validity, finalize_evaluation and reassess_current: a status says
\* eligible only of evidence that was sealed, out of sample, sufficient and
\* without a safety incident, under the dependencies of the run and before
\* they expired.
THEOREM EligibilityIsEarned == Spec => []EligibleIsEarned
<1>1. QInv => EligibleIsEarned
  <2> SUFFICES ASSUME QInv, NEW i \in DOMAIN disk.statuses, disk.statuses[i].eligible
               PROVE  LET st == disk.statuses[i]
                          c == disk.run.content
                      IN  /\ kind = "OUT_OF_SAMPLE"
                          /\ \E j \in DOMAIN disk.evidence :
                                disk.evidence[j].lifecycle = "SEALED" /\ disk.evidence[j].content = c
                          /\ \A x \in c.incidents : x.category \notin SafetyCategory
                          /\ Cardinality({k \in Key : k \in DOMAIN c.claims
                                                        /\ c.claims[k] = "COMPLETED"})
                                >= Policy.minCompleted
                          /\ st.validity \in Range(disk.validity)
                          /\ st.validity.manifest = disk.run.manifest
                          /\ st.at < ExpiryOf[disk.run.manifest]
                          /\ st.validity.flag = None /\ DOMAIN c.decisions \subseteq Compatible
    BY Zenon DEF EligibleIsEarned
  <2> DEFINE c == disk.run.content
             st == disk.statuses[i]
  <2>1. /\ disk.run # None /\ Eligible(c, kind)
        /\ st.validity \in Range(disk.validity)
        /\ st.validity.manifest = disk.run.manifest
        /\ st.at < ExpiryOf[disk.run.manifest]
        /\ st.validity.flag = None
        /\ DOMAIN c.decisions \subseteq Compatible
    <3>1. Earned(disk, disk.statuses[i])
      BY DEF QInv, Statuses
    <3>2. QED
      BY <3>1, Zenon DEF Earned
  <2>2. PICK j \in DOMAIN disk.evidence :
           disk.evidence[j].lifecycle = "SEALED" /\ disk.evidence[j].content = c
    BY <2>1 DEF QInv, RunIsSealed
  <2>3. IsContent(c)
    <3>1. IsRevision(disk.evidence[j])
      BY DEF QInv, Shapes, IsStore
    <3>2. PICK n, l, x, g, e, d :
            /\ disk.evidence[j] = [revision |-> n, lifecycle |-> l, content |-> x,
                                   generation |-> g, evaluation |-> e, previous |-> d]
            /\ IsContent(x)
      BY <3>1 DEF IsRevision
    <3>3. QED
      BY <2>2, <3>2
  <2> HIDE DEF c
  <2>4. /\ kind = "OUT_OF_SAMPLE"
        /\ \A x \in c.incidents : x.category \notin SafetyCategory
        /\ Cardinality({k \in Key : k \in DOMAIN c.claims /\ c.claims[k] = "COMPLETED"})
              >= Policy.minCompleted
    BY <2>1, <2>3, EligibleMeans
  <2>5. QED
    BY <2>1, <2>2, <2>4, Zenon DEF c
<1>2. QED
  BY <1>1, QualificationInvariant, PTL
-----------------------------------------------------------------------------
(* Sums over finite sets.                                                  *)

\* The element that is added first.
First(s) == CHOOSE x \in s : TRUE

\* What the recursive function under a sum satisfies, for the sets of at most
\* n elements and for all.
SummingUpTo(f, S, n, g) ==
    \A s \in SUBSET S : Cardinality(s) <= n =>
        g[s] = IF s = {} THEN 0 ELSE f[First(s)] + g[s \ {First(s)}]
Summing(f, S, g) ==
    g = [s \in SUBSET S |-> IF s = {} THEN 0 ELSE f[First(s)] + g[s \ {First(s)}]]

\* A non-empty set of finite sets has one with the fewest elements.
LEMMA Fewest ==
  ASSUME NEW B, B # {}, \A S \in B : IsFiniteSet(S)
  PROVE  \E S \in B : \A T \in B : Cardinality(S) <= Cardinality(T)
<1> DEFINE N == {Cardinality(S) : S \in B}
<1>1. N \subseteq Nat /\ N # {}
  BY FS_CardinalityType
<1>2. PICK n \in N : \A m \in N : ~ (<<m, n>> \in OpToRel(<, Nat))
  <2> HIDE DEF N
  <2>1. QED
    BY <1>1, NatLessThanWellFounded, WFMin, Zenon
<1>3. \A m \in N : ~ (m < n)
  <2> HIDE DEF N
  <2>1. QED
    BY <1>1, <1>2 DEF OpToRel
<1>4. \A m \in N : n <= m
  <2> HIDE DEF N
  <2>1. QED
    BY <1>1, <1>3
<1>5. QED
  BY <1>4

\* The subsets of a finite set, by their number of elements.
LEMMA Sizes ==
  ASSUME NEW S, IsFiniteSet(S)
  PROVE  /\ \A s \in SUBSET S : Cardinality(s) \in Nat /\ (Cardinality(s) = 0 <=> s = {})
         /\ \A s \in SUBSET S : s # {} =>
               First(s) \in s /\ Cardinality(s \ {First(s)}) = Cardinality(s) - 1
<1>1. \A s \in SUBSET S : IsFiniteSet(s) /\ Cardinality(s) \in Nat
  BY FS_Subset, FS_CardinalityType
<1>2. Cardinality({}) = 0
  BY FS_EmptySet
<1>3. ASSUME NEW s \in SUBSET S, s # {}
      PROVE  First(s) \in s /\ Cardinality(s \ {First(s)}) = Cardinality(s) - 1
  <2>1. First(s) \in s
    BY <1>3 DEF First
  <2>2. QED
    BY <1>1, <2>1, FS_RemoveElement
<1>4. ASSUME NEW s \in SUBSET S, s # {} PROVE Cardinality(s) # 0
  <2>1. s \ {First(s)} \in SUBSET S
    OBVIOUS
  <2>2. Cardinality(s \ {First(s)}) \in Nat
    BY <1>1, <2>1
  <2>3. Cardinality(s \ {First(s)}) = Cardinality(s) - 1
    BY <1>3, <1>4
  <2>4. QED
    BY <1>1, <2>2, <2>3
<1>5. QED
  BY <1>1, <1>2, <1>3, <1>4

\* The function of the sets of one more element.
LEMMA SumOneMore ==
  ASSUME NEW S, IsFiniteSet(S), NEW f, \A x \in S : f[x] \in Nat,
         NEW n \in Nat, n # 0, NEW g \in [SUBSET S -> Nat], SummingUpTo(f, S, n - 1, g)
  PROVE  \E h \in [SUBSET S -> Nat] : SummingUpTo(f, S, n, h)
<1> DEFINE h == [s \in SUBSET S |->
                    IF Cardinality(s) <= n - 1 THEN g[s] ELSE f[First(s)] + g[s \ {First(s)}]]
<1>1. \A s \in SUBSET S : g[s] \in Nat /\ s \ {First(s)} \in SUBSET S
  OBVIOUS
<1>2. ASSUME NEW s \in SUBSET S, ~ (Cardinality(s) <= n - 1) PROVE s # {}
  BY <1>2, Sizes
<1>3. h \in [SUBSET S -> Nat]
  <2> SUFFICES ASSUME NEW s \in SUBSET S, ~ (Cardinality(s) <= n - 1)
               PROVE  f[First(s)] + g[s \ {First(s)}] \in Nat
    BY <1>1
  <2>1. f[First(s)] \in Nat
    BY <1>2, Sizes
  <2>2. QED
    BY <1>1, <2>1
<1>4. ASSUME NEW s \in SUBSET S, Cardinality(s) <= n
      PROVE  h[s] = IF s = {} THEN 0 ELSE f[First(s)] + h[s \ {First(s)}]
  <2>1. CASE s = {}
    <3>1. Cardinality(s) = 0 /\ 0 <= n - 1
      BY <2>1, Sizes
    <3>2. QED
      BY <2>1, <3>1 DEF SummingUpTo
  <2>2. CASE s # {}
    <3>1. /\ s \ {First(s)} \in SUBSET S
          /\ Cardinality(s \ {First(s)}) <= n - 1
      BY <1>4, <2>2, Sizes
    <3>2. h[s \ {First(s)}] = g[s \ {First(s)}]
      BY <3>1
    <3>3. h[s] = f[First(s)] + g[s \ {First(s)}]
      BY <2>2 DEF SummingUpTo
    <3>4. QED
      BY <2>2, <3>2, <3>3
  <2>3. QED
    BY <2>1, <2>2
<1>5. SummingUpTo(f, S, n, h)
  BY <1>4 DEF SummingUpTo
<1>6. QED
  BY <1>3, <1>5

\* The function exists, up to any number of elements and for all of them.
LEMMA SumExists ==
  ASSUME NEW S, IsFiniteSet(S), NEW f, \A x \in S : f[x] \in Nat
  PROVE  \E g \in [SUBSET S -> Nat] : Summing(f, S, g)
<1> DEFINE B == {n \in Nat : ~ \E g \in [SUBSET S -> Nat] : SummingUpTo(f, S, n, g)}
<1>1. B \subseteq Nat
  OBVIOUS
<1>2. ASSUME B # {} PROVE FALSE
  <2>1. PICK n \in B : \A m \in B : ~ (<<m, n>> \in OpToRel(<, Nat))
    <3> HIDE DEF B
    <3>1. QED
      BY <1>1, <1>2, NatLessThanWellFounded, WFMin, Zenon
  <2>2. \A m \in Nat : m < n => m \notin B
    <3> HIDE DEF B
    <3>1. QED
      BY <1>1, <2>1 DEF OpToRel
  <2>3. CASE n = 0
    <3> DEFINE z == [s \in SUBSET S |-> 0]
    <3>1. \A s \in SUBSET S : Cardinality(s) <= n => s = {}
      BY <2>3, Sizes
    <3>2. SummingUpTo(f, S, n, z) /\ z \in [SUBSET S -> Nat]
      BY <3>1 DEF SummingUpTo
    <3>3. QED
      BY <3>2
  <2>4. CASE n # 0
    <3>1. n \in Nat /\ n - 1 \in Nat /\ n - 1 < n
      BY <2>4
    <3>2. PICK g \in [SUBSET S -> Nat] : SummingUpTo(f, S, n - 1, g)
      BY <2>2, <3>1
    <3>3. \E h \in [SUBSET S -> Nat] : SummingUpTo(f, S, n, h)
      BY <2>4, <3>1, <3>2, SumOneMore
    <3>4. QED
      BY <2>1, <3>3
  <2>5. QED
    BY <2>3, <2>4
<1>3. PICK n \in Nat : n = Cardinality(S)
  BY FS_CardinalityType
<1>4. PICK g \in [SUBSET S -> Nat] : SummingUpTo(f, S, n, g)
  BY <1>2
<1>5. \A s \in SUBSET S : Cardinality(s) <= n
  BY <1>3, FS_Subset
<1>6. Summing(f, S, g)
  BY <1>4, <1>5 DEF SummingUpTo, Summing
<1>7. QED
  BY <1>6

\* The functions under the sums of a set and of a subset agree.
LEMMA SumAgree ==
  ASSUME NEW S, IsFiniteSet(S), NEW U \in SUBSET S, NEW f, NEW g, NEW h,
         Summing(f, S, g), Summing(f, U, h)
  PROVE  \A u \in SUBSET U : g[u] = h[u]
<1> DEFINE B == {u \in SUBSET U : g[u] # h[u]}
<1> SUFFICES ASSUME B # {} PROVE FALSE
  OBVIOUS
<1>1. \A u \in B : IsFiniteSet(u)
  BY FS_Subset
<1>2. PICK u \in B : \A v \in B : Cardinality(u) <= Cardinality(v)
  <2> HIDE DEF B
  <2>1. QED
    BY <1>1, Fewest
<1>3. u \in SUBSET S /\ u \in SUBSET U /\ g[u] # h[u]
  OBVIOUS
<1>4. /\ g[u] = IF u = {} THEN 0 ELSE f[First(u)] + g[u \ {First(u)}]
      /\ h[u] = IF u = {} THEN 0 ELSE f[First(u)] + h[u \ {First(u)}]
  BY <1>3 DEF Summing
<1>5. u # {} /\ g[u \ {First(u)}] # h[u \ {First(u)}]
  BY <1>3, <1>4
<1>6. u \ {First(u)} \in B
  BY <1>3, <1>5
<1>7. Cardinality(u \ {First(u)}) = Cardinality(u) - 1 /\ Cardinality(u) \in Nat
  BY <1>3, <1>5, Sizes
<1>8. Cardinality(u) <= Cardinality(u \ {First(u)})
  BY <1>2, <1>6
<1>9. QED
  BY <1>7, <1>8

\* What a sum is: nothing for no element, else one element and the rest.
LEMMA SumUnfolds ==
  ASSUME NEW S, IsFiniteSet(S), NEW f, \A x \in S : f[x] \in Nat
  PROVE  /\ SumFunctionOnSet(f, S) \in Nat
         /\ S = {} => SumFunctionOnSet(f, S) = 0
         /\ S # {} => SumFunctionOnSet(f, S) =
                         f[First(S)] + SumFunctionOnSet(f, S \ {First(S)})
<1> DEFINE Under(U) == CHOOSE g : Summing(f, U, g)
<1>1. ASSUME NEW U \in SUBSET S PROVE Summing(f, U, Under(U))
  <2>1. IsFiniteSet(U) /\ \A x \in U : f[x] \in Nat
    BY FS_Subset
  <2>2. \E g : Summing(f, U, g)
    BY <2>1, SumExists
  <2>3. QED
    BY <2>2
<1>2. ASSUME NEW U \in SUBSET S PROVE SumFunctionOnSet(f, U) = Under(U)[U]
  BY DEF SumFunctionOnSet, FoldFunctionOnSet, MapThenFoldSet, Summing, First
<1> HIDE DEF Under
<1>3. PICK g \in [SUBSET S -> Nat] : Summing(f, S, g)
  BY SumExists
<1>4. \A U \in SUBSET S : SumFunctionOnSet(f, U) = g[U]
  <2> SUFFICES ASSUME NEW U \in SUBSET S PROVE SumFunctionOnSet(f, U) = g[U]
    OBVIOUS
  <2>1. Summing(f, U, Under(U)) /\ SumFunctionOnSet(f, U) = Under(U)[U]
    BY <1>1, <1>2
  <2>2. \A u \in SUBSET U : g[u] = Under(U)[u]
    BY <1>3, <2>1, SumAgree
  <2>3. QED
    BY <2>1, <2>2
<1>5. g[S] = IF S = {} THEN 0 ELSE f[First(S)] + g[S \ {First(S)}]
  BY <1>3 DEF Summing
<1>6. S \in SUBSET S /\ S \ {First(S)} \in SUBSET S
  OBVIOUS
<1>7. QED
  BY <1>3, <1>4, <1>5, <1>6

\* A sum of amounts of the keys is a natural number, and of nothing but zeros
\* it is zero.
LEMMA SumOfKeys ==
  ASSUME NEW f, \A k \in Key : f[k] \in Nat, NEW S \in SUBSET Key
  PROVE  /\ SumFunctionOnSet(f, S) \in Nat
         /\ SumFunctionOnSet(f, S) > 0 => \E k \in S : f[k] > 0
<1> DEFINE Sum(U) == SumFunctionOnSet(f, U)
           B == {U \in SUBSET S : Sum(U) > 0 /\ \A k \in U : ~ (f[k] > 0)}
<1>1. \A U \in SUBSET S : IsFiniteSet(U) /\ \A k \in U : f[k] \in Nat
  BY PolicyAssumption, FS_Subset
<1>2. \A U \in SUBSET S : /\ Sum(U) \in Nat
                          /\ U = {} => Sum(U) = 0
                          /\ U # {} => /\ First(U) \in U
                                       /\ Sum(U) = f[First(U)] + Sum(U \ {First(U)})
  <2> SUFFICES ASSUME NEW U \in SUBSET S
               PROVE  /\ Sum(U) \in Nat
                      /\ U = {} => Sum(U) = 0
                      /\ U # {} => /\ First(U) \in U
                                   /\ Sum(U) = f[First(U)] + Sum(U \ {First(U)})
    OBVIOUS
  <2>1. IsFiniteSet(U) /\ \A k \in U : f[k] \in Nat
    BY <1>1
  <2>2. U # {} => First(U) \in U
    BY DEF First
  <2>3. QED
    BY <2>1, <2>2, SumUnfolds
<1> HIDE DEF Sum
<1>3. ASSUME B # {} PROVE FALSE
  <2>1. PICK U \in B : \A V \in B : Cardinality(U) <= Cardinality(V)
    <3>1. \A V \in B : IsFiniteSet(V)
      BY <1>1
    <3> HIDE DEF B
    <3>2. QED
      BY <1>3, <3>1, Fewest
  <2>2. U \in SUBSET S /\ Sum(U) > 0 /\ \A k \in U : ~ (f[k] > 0)
    OBVIOUS
  <2>3. U # {}
    BY <1>2, <2>2
  <2>4. PICK x \in U : Sum(U) = f[x] + Sum(U \ {x})
    BY <1>2, <2>2, <2>3
  <2>5. f[x] = 0 /\ Sum(U) \in Nat /\ Sum(U \ {x}) \in Nat
    <3>1. f[x] \in Nat /\ ~ (f[x] > 0)
      BY <1>1, <2>2
    <3>2. f[x] = 0
      BY <3>1
    <3>3. U \in SUBSET S /\ U \ {x} \in SUBSET S
      BY <2>2
    <3>4. Sum(U) \in Nat /\ Sum(U \ {x}) \in Nat
      BY <1>2, <3>3
    <3>5. QED
      BY <3>2, <3>4
  <2>6. U \ {x} \in B
    BY <2>2, <2>4, <2>5
  <2>7. Cardinality(U) <= Cardinality(U \ {x})
    BY <2>1, <2>6
  <2>8. Cardinality(U \ {x}) = Cardinality(U) - 1 /\ Cardinality(U) \in Nat
    BY <1>1, <2>2, FS_RemoveElement, FS_CardinalityType
  <2>9. QED
    BY <2>7, <2>8
<1>4. QED
  BY <1>2, <1>3 DEF Sum

\* What the gates ask of the sums.
LEMMA GatesAsk ==
  ASSUME NEW c, NEW k, Eligible(c, k)
  PROVE  /\ Cardinality(OutcomesIn(c, Resolved)) >= Policy.minResolved
         /\ RateAtMost(ProviderFailures(c), Dispatched(c), Policy.maxProviderRate)
         /\ IncidentCount(c, "UNEXPLAINED_ABANDONED_CYCLE") <= Policy.maxUnexplained
         /\ IncidentCount(c, "TRACE_MISMATCH") = 0
         /\ SchemaFailures(c) = 0
         /\ SourceRevisions(c) = 0
         /\ \A category \in SafetyCategory : IncidentCount(c, category) = 0
         /\ ~ CostUnavailable(c)
<1>1. PICK g : g = Gates(c, k)
  OBVIOUS
<1>2. \A x \in DOMAIN g : g[x]
  BY <1>1, Zenon DEF Eligible
<1>3. /\ {"resolved", "providerRate", "unexplained", "trace", "schema", "revisions", "safety",
          "observedCost"} \subseteq DOMAIN g
      /\ g.resolved = (Cardinality(OutcomesIn(c, Resolved)) >= Policy.minResolved)
      /\ g.providerRate = RateAtMost(ProviderFailures(c), Dispatched(c), Policy.maxProviderRate)
      /\ g.unexplained = (IncidentCount(c, "UNEXPLAINED_ABANDONED_CYCLE")
                             <= Policy.maxUnexplained)
      /\ g.trace = (IncidentCount(c, "TRACE_MISMATCH") = 0)
      /\ g.schema = (SchemaFailures(c) = 0)
      /\ g.revisions = (SourceRevisions(c) = 0)
      /\ g.safety = (\A category \in SafetyCategory : IncidentCount(c, category) = 0)
      /\ g.observedCost = (~ CostUnavailable(c) /\ AssessedCost(c) <= Policy.maxCost)
  BY <1>1 DEF Gates, GatesFor
<1>4. /\ g.resolved /\ g.providerRate /\ g.unexplained /\ g.trace /\ g.schema /\ g.revisions
      /\ g.safety /\ g.observedCost
  <2>1. \A x \in {"resolved", "providerRate", "unexplained", "trace", "schema", "revisions",
                  "safety", "observedCost"} : x \in DOMAIN g
    BY <1>3
  <2>2. QED
    BY <1>2, <2>1
<1>5. QED
  BY <1>3, <1>4, Zenon

\* The sums of evidence.
LEMMA SumsOfContent ==
  ASSUME NEW c, IsContent(c)
  PROVE  /\ Dispatched(c) \in Nat
         /\ Dispatched(c) > 0 => \E k \in Cycles(c) : Profile[k].dispatched > 0
         /\ SumOver(c, LAMBDA p : p.providerFailures) \in Nat
         /\ SumOver(c, LAMBDA p : p.schemaFailures) \in Nat
         /\ Cardinality({k \in ClaimsIn(c, "FAILED") : Profile[k].revised}) \in Nat
<1>1. Cycles(c) \in SUBSET Key
  BY CyclesAre
<1>2. \A k \in Key : /\ Profile[k].dispatched \in Nat /\ Profile[k].providerFailures \in Nat
                     /\ Profile[k].schemaFailures \in Nat
  BY PolicyAssumption
<1>3. PICK d, p, s : /\ d = [k \in Key |-> Profile[k].dispatched]
                     /\ p = [k \in Key |-> Profile[k].providerFailures]
                     /\ s = [k \in Key |-> Profile[k].schemaFailures]
  OBVIOUS
<1>4. \A k \in Key : d[k] \in Nat /\ p[k] \in Nat /\ s[k] \in Nat
  BY <1>2, <1>3
<1>5. /\ SumFunctionOnSet(d, Cycles(c)) \in Nat
      /\ SumFunctionOnSet(d, Cycles(c)) > 0 => \E k \in Cycles(c) : d[k] > 0
      /\ SumFunctionOnSet(p, Cycles(c)) \in Nat
      /\ SumFunctionOnSet(s, Cycles(c)) \in Nat
  <2>1. (\A k \in Key : d[k] \in Nat) /\ (\A k \in Key : p[k] \in Nat) /\ (\A k \in Key : s[k] \in Nat)
    BY <1>4
  <2>2. QED
    BY <1>1, <2>1, SumOfKeys
<1>6. \A k \in Cycles(c) : d[k] = Profile[k].dispatched
  BY <1>1, <1>3
<1>7. /\ Dispatched(c) = SumFunctionOnSet(d, Cycles(c))
      /\ SumOver(c, LAMBDA x : x.providerFailures) = SumFunctionOnSet(p, Cycles(c))
      /\ SumOver(c, LAMBDA x : x.schemaFailures) = SumFunctionOnSet(s, Cycles(c))
  BY <1>3 DEF Dispatched, SumOver
<1>8. Cardinality({k \in ClaimsIn(c, "FAILED") : Profile[k].revised}) \in Nat
  <2>1. IsFiniteSet(ClaimsIn(c, "FAILED"))
    BY CyclesAre
  <2>2. IsFiniteSet({k \in ClaimsIn(c, "FAILED") : Profile[k].revised})
    BY <2>1, FS_Subset
  <2>3. QED
    BY <2>2, FS_CardinalityType
<1>9. QED
  BY <1>5, <1>6, <1>7, <1>8

-----------------------------------------------------------------------------
(* Gates that fail safe.                                                   *)

\* n new incidents of a category.
NewIncidents(category, enough) == {[id |-> -n, category |-> category] : n \in 1..enough}

\* There are as many of them.
LEMMA NewIncidentsAre ==
  ASSUME NEW category, NEW enough \in Nat
  PROVE  /\ IsFiniteSet(NewIncidents(category, enough))
         /\ Cardinality(NewIncidents(category, enough)) = enough
<1> DEFINE I == NewIncidents(category, enough)
           f == [n \in 1..enough |-> [id |-> -n, category |-> category]]
<1>1. f \in Surjection(1..enough, I)
  <2>1. \A n \in 1..enough : f[n] \in I
    BY DEF NewIncidents
  <2>2. \A x \in I : \E n \in 1..enough : f[n] = x
    BY DEF NewIncidents
  <2>3. f \in [1..enough -> I]
    BY <2>1
  <2>4. QED
    BY <2>2, <2>3 DEF Surjection
<1>2. f \in Injection(1..enough, I)
  <2>1. ASSUME NEW a \in 1..enough, NEW b \in 1..enough, f[a] = f[b] PROVE a = b
    <3>1. f[a].id = -a /\ f[b].id = -b
      OBVIOUS
    <3>2. -a = -b
      BY <2>1, <3>1
    <3>3. QED
      BY <3>2
  <2>2. f \in [1..enough -> I]
    BY <1>1 DEF Surjection
  <2> HIDE DEF f, I
  <2>3. QED
    BY <2>1, <2>2 DEF Injection, IsInjective
<1>3. IsFiniteSet(1..enough) /\ Cardinality(1..enough) = enough
  <2>1. 1 \in Int /\ enough \in Int
    OBVIOUS
  <2>2. IsFiniteSet(1..enough) /\ Cardinality(1..enough) = IF 1 > enough THEN 0 ELSE enough - 1 + 1
    BY <2>1, FS_Interval
  <2>3. QED
    BY <2>2
<1>4. QED
  <2> HIDE DEF f, I
  <2>1. IsFiniteSet(I) /\ Cardinality(I) = Cardinality(1..enough)
    BY <1>1, <1>2, <1>3, FS_Surjection
  <2>2. QED
    BY <1>3, <2>1 DEF I

\* Evidence with new incidents.
With(c, category, enough) ==
    [c EXCEPT !.incidents = @ \cup NewIncidents(category, enough)]

\* A value of the form of evidence is evidence.
LEMMA ContentOf ==
  ASSUME NEW a, NEW b, NEW o, NEW i, DOMAIN a \subseteq Key, DOMAIN b \subseteq DOMAIN a,
         IsFiniteSet(i), \A x \in o : x.status \in Resolved => x.realized # None
  PROVE  IsContent([claims |-> a, decisions |-> b, outcomes |-> o, incidents |-> i])
BY Zenon DEF IsContent

\* The new incidents count, and nothing else changes.
LEMMA WithIncidents ==
  ASSUME NEW c, IsContent(c), NEW category, NEW enough \in Nat, NEW w,
         w = With(c, category, enough)
  PROVE  /\ IsContent(w)
         /\ Dispatched(w) = Dispatched(c)
         /\ IncidentCount(w, category) \in Nat /\ IncidentCount(w, category) >= enough
<1>1. PICK a, b, o, i :
        /\ c = [claims |-> a, decisions |-> b, outcomes |-> o, incidents |-> i]
        /\ DOMAIN a \subseteq Key /\ DOMAIN b \subseteq DOMAIN a /\ IsFiniteSet(i)
        /\ \A x \in o : x.status \in Resolved => x.realized # None
  BY DEF IsContent
<1>2. PICK new : new = NewIncidents(category, enough)
  OBVIOUS
<1>3. IsFiniteSet(new) /\ Cardinality(new) = enough
  BY <1>2, NewIncidentsAre
<1>4. w = [claims |-> a, decisions |-> b, outcomes |-> o, incidents |-> i \cup new]
  BY <1>1, <1>2 DEF With
<1>5. IsFiniteSet(i \cup new)
  BY <1>1, <1>3, FS_Union
<1>6. IsContent(w)
  <2>1. IsContent([claims |-> a, decisions |-> b, outcomes |-> o, incidents |-> i \cup new])
    BY <1>1, <1>5, ContentOf
  <2>2. QED
    BY <1>4, <2>1
<1>7. Cycles(w) = Cycles(c)
  BY <1>1, <1>4 DEF Cycles, DecidedAs
<1>8. Dispatched(w) = Dispatched(c)
  BY <1>7 DEF Dispatched, SumOver
<1>9. IncidentCount(w, category) \in Nat /\ IncidentCount(w, category) >= enough
  <2> DEFINE those == {x \in w.incidents : x.category = category}
  <2>1. IsFiniteSet(those)
    BY <1>4, <1>5, FS_Subset
  <2>2. new \subseteq those
    BY <1>2, <1>4 DEF NewIncidents
  <2>3. Cardinality(those) \in Nat /\ Cardinality(new) <= Cardinality(those)
    <3> HIDE DEF those
    <3>1. QED
      BY <2>1, <2>2, FS_Subset, FS_CardinalityType
  <2>4. IncidentCount(w, category) = Cardinality(those)
    BY DEF IncidentCount
  <2> HIDE DEF those
  <2>5. QED
    BY <1>3, <2>3, <2>4
<1>10. QED
  BY <1>6, <1>8, <1>9

\* The provider gate does not pass with more failures than requests.
LEMMA MoreThanAll ==
  ASSUME NEW percent \in 0..100, NEW whole \in Nat, NEW part \in Nat, part > whole
  PROVE  ~ RateAtMost(part, whole, percent)
<1>1. percent * whole <= 100 * whole
  <2>1. PICK d \in Nat : 100 = percent + d
    <3>1. 100 - percent \in Nat /\ 100 = percent + (100 - percent)
      OBVIOUS
    <3>2. QED
      BY <3>1
  <2>2. 100 * whole = percent * whole + d * whole
    BY <2>1
  <2>3. d * whole \in Nat /\ percent * whole \in Nat
    OBVIOUS
  <2>4. QED
    BY <2>2, <2>3
<1>2. part * 100 > 100 * whole
  OBVIOUS
<1>3. percent * whole \in Int
  OBVIOUS
<1>4. ~ (part * 100 <= percent * whole)
  BY <1>1, <1>2, <1>3
<1>5. QED
  BY <1>4 DEF RateAtMost

\* _passes of a measurement that is not available: without a dispatched
\* request, a resolved outcome or a price for every request a gate fails.
LEMMA UnknownFails ==
  ASSUME NEW c, IsContent(c), NEW k, Eligible(c, k)
  PROVE  /\ \E j \in Cycles(c) : Profile[j].dispatched > 0
         /\ \E o \in c.outcomes : o.realized # None
         /\ \A j \in Cycles(c) : Profile[j].dispatched > 0 => Profile[j].priced
<1>1. \E j \in Cycles(c) : Profile[j].dispatched > 0
  <2>1. Dispatched(c) > 0
    BY GatesAsk DEF RateAtMost
  <2>2. QED
    BY <2>1, SumsOfContent
<1>2. \E o \in c.outcomes : o.realized # None
  <2>1. Cardinality(OutcomesIn(c, Resolved)) >= Policy.minResolved
    BY GatesAsk
  <2>2. Policy.minResolved \in Nat \ {0}
    BY PolicyAssumption
  <2>3. OutcomesIn(c, Resolved) # {}
    <3>1. ASSUME OutcomesIn(c, Resolved) = {} PROVE FALSE
      <4>1. Cardinality(OutcomesIn(c, Resolved)) = 0
        BY <3>1, FS_EmptySet
      <4>2. QED
        BY <2>1, <2>2, <4>1
    <3>2. QED
      BY <3>1
  <2>4. PICK o \in c.outcomes : o.status \in Resolved
    BY <2>3 DEF OutcomesIn
  <2>5. o.realized # None
    BY <2>4 DEF IsContent
  <2>6. QED
    BY <2>5
<1>3. ASSUME NEW j \in Cycles(c), Profile[j].dispatched > 0, ~ Profile[j].priced PROVE FALSE
  <2> DEFINE those == {x \in Cycles(c) : (Profile[x].dispatched > 0 /\ ~ Profile[x].priced)
                                             \/ ~ Profile[x].closed}
  <2>1. ~ (Cardinality(those) > 0)
    BY GatesAsk DEF CostUnavailable, CyclesThat
  <2>2. IsFiniteSet(those)
    BY CyclesAre, FS_Subset
  <2>3. those # {}
    BY <1>3
  <2> HIDE DEF those
  <2>4. Cardinality(those) \in Nat /\ Cardinality(those) # 0
    BY <2>2, <2>3, FS_EmptySet, FS_CardinalityType
  <2>5. QED
    BY <2>1, <2>4
<1>4. QED
  BY <1>1, <1>2, <1>3

\* No incident is lost in the sums: with enough of a category a gate fails.
LEMMA IncidentsCount ==
  ASSUME NEW c, IsContent(c), NEW category \in IncidentCategory \ {"RUNTIME_FAILURE"},
         NEW enough, enough = Policy.maxUnexplained + Dispatched(c) + 1, NEW w,
         w = With(c, category, enough), NEW k
  PROVE  ~ Eligible(w, k)
<1> SUFFICES ASSUME Eligible(w, k) PROVE FALSE
  OBVIOUS
<1>1. Dispatched(c) \in Nat
  BY SumsOfContent
<1>2. Policy.maxUnexplained \in Nat /\ Policy.maxProviderRate \in 0..100
  BY PolicyAssumption
<1>3. enough \in Nat /\ enough > Policy.maxUnexplained /\ enough > Dispatched(c)
  BY <1>1, <1>2
<1>4. /\ IsContent(w) /\ Dispatched(w) = Dispatched(c)
      /\ IncidentCount(w, category) \in Nat /\ IncidentCount(w, category) >= enough
  BY <1>3, WithIncidents
<1>5. /\ SumOver(w, LAMBDA p : p.providerFailures) \in Nat
      /\ SumOver(w, LAMBDA p : p.schemaFailures) \in Nat
      /\ Cardinality({j \in ClaimsIn(w, "FAILED") : Profile[j].revised}) \in Nat
  BY <1>4, SumsOfContent
<1>6. CASE category \in SafetyCategory \cup {"TRACE_MISMATCH"}
  <2>1. IncidentCount(w, category) = 0
    BY <1>6, GatesAsk
  <2>2. QED
    BY <1>1, <1>2, <1>3, <1>4, <2>1
<1>7. CASE category = "PROVIDER_RUNTIME_FAILURE"
  <2>1. ProviderFailures(w) \in Nat /\ ProviderFailures(w) > Dispatched(w)
    BY <1>1, <1>3, <1>4, <1>5, <1>7 DEF ProviderFailures
  <2>2. RateAtMost(ProviderFailures(w), Dispatched(w), Policy.maxProviderRate)
    BY GatesAsk
  <2>3. Dispatched(w) \in Nat
    BY <1>1, <1>4
  <2>4. QED
    BY <1>2, <2>1, <2>2, <2>3, MoreThanAll
<1>8. CASE category = "UNEXPLAINED_ABANDONED_CYCLE"
  <2>1. IncidentCount(w, category) <= Policy.maxUnexplained
    BY <1>8, GatesAsk
  <2>2. QED
    BY <1>2, <1>3, <1>4, <2>1
<1>9. CASE category = "SCHEMA_VALIDATION_FAILURE"
  <2>1. SchemaFailures(w) = 0
    BY GatesAsk
  <2>2. SchemaFailures(w) > 0
    BY <1>1, <1>3, <1>4, <1>5, <1>9 DEF SchemaFailures
  <2>3. QED
    BY <2>1, <2>2
<1>10. CASE category = "SOURCE_REVISION"
  <2>1. SourceRevisions(w) = 0
    BY GatesAsk
  <2>2. SourceRevisions(w) > 0
    BY <1>1, <1>3, <1>4, <1>5, <1>10 DEF SourceRevisions
  <2>3. QED
    BY <2>1, <2>2
<1>11. QED
  BY <1>6, <1>7, <1>8, <1>9, <1>10 DEF IncidentCategory

\* _passes and the sums of qualification/metrics.py: what is not known fails
\* its gate, and enough incidents of any category that a gate counts end the
\* eligibility of any evidence.
THEOREM GatesAreSafe == Spec => []GatesFailSafe
<1>1. QInv => GatesFailSafe
  <2> SUFFICES ASSUME QInv, NEW i \in DOMAIN disk.evidence, NEW c,
                      c = disk.evidence[i].content, Eligible(c, kind)
               PROVE  /\ \E k \in Cycles(c) : Profile[k].dispatched > 0
                      /\ \E o \in c.outcomes : o.realized # None
                      /\ \A k \in Cycles(c) : Profile[k].dispatched > 0 => Profile[k].priced
                      /\ \A category \in IncidentCategory \ {"RUNTIME_FAILURE"} :
                            ~Eligible([c EXCEPT !.incidents =
                                         @ \cup {[id |-> -n, category |-> category] :
                                           n \in 1..(Policy.maxUnexplained + Dispatched(c) + 1)}],
                                      kind)
    BY Zenon DEF GatesFailSafe
  <2>1. IsContent(c)
    <3>1. IsRevision(disk.evidence[i])
      BY DEF QInv, Shapes, IsStore
    <3>2. PICK n, l, x, g, e, d :
            /\ disk.evidence[i] = [revision |-> n, lifecycle |-> l, content |-> x,
                                   generation |-> g, evaluation |-> e, previous |-> d]
            /\ IsContent(x)
      BY <3>1 DEF IsRevision
    <3>3. QED
      BY <3>2
  <2>2. /\ \E k \in Cycles(c) : Profile[k].dispatched > 0
        /\ \E o \in c.outcomes : o.realized # None
        /\ \A k \in Cycles(c) : Profile[k].dispatched > 0 => Profile[k].priced
    BY <2>1, UnknownFails
  <2>3. ASSUME NEW category \in IncidentCategory \ {"RUNTIME_FAILURE"}
        PROVE  ~Eligible([c EXCEPT !.incidents =
                            @ \cup {[id |-> -n, category |-> category] :
                              n \in 1..(Policy.maxUnexplained + Dispatched(c) + 1)}], kind)
    <3>1. PICK enough : enough = Policy.maxUnexplained + Dispatched(c) + 1
      OBVIOUS
    <3>2. PICK w : w = With(c, category, enough)
      OBVIOUS
    <3>3. ~Eligible(w, kind)
      BY <2>1, <3>1, <3>2, IncidentsCount
    <3>4. QED
      BY <3>1, <3>2, <3>3, Zenon DEF With, NewIncidents
  <2>4. QED
    BY <2>2, <2>3
<1>2. QED
  BY <1>1, QualificationInvariant, PTL
=============================================================================
