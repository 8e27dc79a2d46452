------------------------- MODULE CourseRecommendations -------------------------
(***************************************************************************)
(* The suggested courses of a role: course-generator.service.ts asks a     *)
(* model and keeps what is usable of its answer, and                       *)
(* course-recommendations.service.ts replaces the stored set of the role   *)
(* in one transaction, for one role or for all of them in turn.            *)
(***************************************************************************)
EXTENDS Integers, FiniteSets

CONSTANTS
  JobDescriptions,  \* roles with a job description
  Urls,             \* addresses of courses
  Provided,         \* those on a site of a known provider
  Replies,          \* answers of the model: sequences of raw courses
  CoursesPerRole,   \* COURSES_PER_ROLE
  Requests,         \* slots for generation requests in flight
  Overlap           \* whether two transactions of one role may overlap

VARIABLES
  courses,   \* course_recommendations: role, address, rank and the run that stored it
  run        \* the requests in flight

vars == <<courses, run>>

Raw == [url : Urls, complete : BOOLEAN, labelled : BOOLEAN]

Course == [url : Urls, rank : 0..(CoursesPerRole - 1)]

Tasks == {"none", "next", "ask", "delete", "insert"}

Idle == [task |-> "none", todo |-> {}, targets |-> {}, generated |-> {}, failed |-> {},
         role |-> {}, parsed |-> {}, deleted |-> {}]   \* role: the one in hand

Init ==
  /\ courses = {}
  /\ run = [r \in Requests |-> Idle]

Stored(jd) == {c \in courses : c.role = jd}

Role(r) == CHOOSE jd \in run[r].role : TRUE

-----------------------------------------------------------------------------
(* The generator *)

\* A title, an address, a reason and a provider, by the host or by the label.
Usable(raw) == raw.complete /\ (raw.url \in Provided \/ raw.labelled)

\* Faulty: an address that comes twice is kept twice.
ParsedWithDuplicates(reply) ==
  LET kept == {i \in DOMAIN reply : Usable(reply[i])}
      rank(i) == Cardinality({j \in kept : j < i})
  IN {[url |-> reply[i].url, rank |-> rank(i)] : i \in {k \in kept : rank(k) < CoursesPerRole}}

\* Faulty: a course keeps the rank it had among all that came.
ParsedRankedAsSent(reply) ==
  LET first(i) == \A j \in DOMAIN reply :
                    (j < i /\ Usable(reply[j])) => reply[j].url # reply[i].url
      kept == {i \in DOMAIN reply : Usable(reply[i]) /\ first(i)}
  IN {[url |-> reply[i].url, rank |-> i - 1] : i \in {k \in kept : k <= CoursesPerRole}}

\* parse: the first usable courses, an address only once, ranked as they came.
Parsed(reply) ==
  LET first(i) == \A j \in DOMAIN reply :
                    (j < i /\ Usable(reply[j])) => reply[j].url # reply[i].url
      kept == {i \in DOMAIN reply : Usable(reply[i]) /\ first(i)}
      rank(i) == Cardinality({j \in kept : j < i})
  IN {[url |-> reply[i].url, rank |-> rank(i)] : i \in {k \in kept : rank(k) < CoursesPerRole}}

-----------------------------------------------------------------------------
(* Requests *)

Start(r, targets) ==
  /\ run[r].task = "none"
  /\ run' = [run EXCEPT ![r] = [Idle EXCEPT !.task = "next", !.todo = targets,
                                            !.targets = targets]]
  /\ UNCHANGED courses

RegenerateOne(r) == \E jd \in JobDescriptions : Start(r, {jd})

RegenerateAll(r) ==
  \E onlyMissing \in BOOLEAN :
    Start(r, {jd \in JobDescriptions : onlyMissing => Stored(jd) = {}})

NextTarget(r) ==
  /\ run[r].task = "next"
  /\ \E jd \in run[r].todo :
       run' = [run EXCEPT ![r].task = "ask", ![r].role = {jd}, ![r].todo = @ \ {jd}]
  /\ UNCHANGED courses

\* Faulty: the batch goes on, and the failure is not noted.
FailedUnnoted(r) ==
  [run[r] EXCEPT !.task = "next", !.role = {}, !.parsed = {}, !.deleted = {}]

\* A failure is noted, and the batch goes on.
Failed(r) ==
  [run[r] EXCEPT !.task = "next", !.failed = @ \cup run[r].role, !.role = {},
                 !.parsed = {}, !.deleted = {}]

\* Faulty: an empty answer is stored like any other.
AnyAnswer(parsed) == TRUE

Acceptable(parsed) == parsed # {}

\* The model answers, declines, or is out of reach.
Generate(r) ==
  /\ run[r].task = "ask"
  /\ \/ run' = [run EXCEPT ![r] = Failed(r)]
     \/ \E reply \in Replies :
          run' = [run EXCEPT ![r] =
                    IF Acceptable(Parsed(reply))
                    THEN [run[r] EXCEPT !.task = "delete", !.parsed = Parsed(reply)]
                    ELSE Failed(r)]
  /\ UNCHANGED courses

InTransaction(r, jd) == run[r].task = "insert" /\ run[r].role = {jd}

\* Faulty: the set that is there stays.
NothingDeleted(jd) == {}

Deleted(jd) == Stored(jd)

\* The first statement of the transaction. It sees what is committed, and waits for
\* a transaction that is about to delete the same rows.
Delete(r) ==
  /\ run[r].task = "delete"
  /\ \A o \in Requests :
       InTransaction(o, Role(r)) => Overlap /\ run[o].deleted \cap Deleted(Role(r)) = {}
  /\ run' = [run EXCEPT ![r].task = "insert", ![r].deleted = Deleted(Role(r))]
  /\ UNCHANGED courses

Rows(r) == {[role |-> Role(r), url |-> c.url, rank |-> c.rank, by |-> run[r].parsed] :
              c \in run[r].parsed}

\* The unique index on role and address.
Conflict(r) ==
  \/ \E c, d \in Rows(r) : c # d /\ c.url = d.url
  \/ \E c \in Rows(r), d \in courses \ run[r].deleted : c.role = d.role /\ c.url = d.url

\* The insert, and the commit or the rollback.
Insert(r) ==
  /\ run[r].task = "insert"
  /\ \/ /\ ~Conflict(r)
        /\ courses' = (courses \ run[r].deleted) \cup Rows(r)
        /\ run' = [run EXCEPT ![r] = [Failed(r) EXCEPT
                     !.failed = run[r].failed, !.generated = @ \cup run[r].role]]
     \/ run' = [run EXCEPT ![r] = Failed(r)] /\ UNCHANGED courses

Done(r) ==
  /\ run[r].task = "next" /\ run[r].todo = {}
  /\ run' = [run EXCEPT ![r] = Idle]
  /\ UNCHANGED courses

Next ==
  \E r \in Requests :
    \/ RegenerateOne(r) \/ RegenerateAll(r) \/ NextTarget(r) \/ Generate(r)
    \/ Delete(r) \/ Insert(r) \/ Done(r)

Spec == Init /\ [][Next]_vars

-----------------------------------------------------------------------------
(* Properties *)

\* The stored courses and the requests in flight have their types; the roles of a
\* request are each generated, failed, under way or still to do.
TypeOK ==
  /\ \A c \in courses :
       c.role \in JobDescriptions /\ c.url \in Urls /\ c.rank \in 0..(CoursesPerRole - 1)
  /\ \A r \in Requests :
       /\ run[r].task \in Tasks /\ run[r].parsed \subseteq Course
       /\ run[r].generated \cup run[r].failed \cup run[r].todo \cup run[r].role = run[r].targets

\* A role that has suggestions keeps some, whatever becomes of later generations:
\* one that yields nothing, is refused by the database or overlaps with another.
NeverEmptied ==
  [][\A jd \in JobDescriptions : Stored(jd) # {} => Stored(jd)' # {}]_vars

\* What a role shows is one answer of the model, ranked without a gap, and not what
\* two generations left of each other, when their transactions do not overlap.
OneAnswerPerRole ==
  \A jd \in JobDescriptions :
    /\ \A c, d \in Stored(jd) : c.by = d.by
    /\ {c.rank : c \in Stored(jd)} = 0..(Cardinality(Stored(jd)) - 1)

\* A batch that is to be inserted cannot fail on the unique index for repeating itself.
BatchFitsIndex ==
  \A r \in Requests : run[r].task = "insert" => ~Conflict(r)

=============================================================================
