---------------------------- MODULE KnowledgeGraph ----------------------------
(***************************************************************************)
(* The knowledge graph (memory/kg.py, with its tools in bus/_kg.py) and     *)
(* what removes facts from it: the compaction of expired facts, the         *)
(* curation of duplicates by a plan, and that of a study (memory/           *)
(* compaction.py). Each of the three selects rows, writes them to an        *)
(* archive, and deletes them, and other writers come in between; so does     *)
(* the backfill of embeddings between its read, its request and its write.   *)
(*                                                                         *)
(* One writer holds the connection, so a transaction is a step. A fact      *)
(* stands for a triple. Confidences are in per mille. Rows that predate      *)
(* the corroborators column are left out.                                   *)
(***************************************************************************)
EXTENDS Integers, FiniteSets, FiniteSetsExt

CONSTANTS
  Triples,                \* facts
  Secret,                 \* those with a credential predicate
  StrongTopic, WeakTopic, \* the two of one learner topic
  OldDocument,             \* of a study document that was uploaded again
  Authors,                \* agents that assert
  Confidences, TopConfidence,       \* and _CORROBORATION_CAP, in per mille
  Floor,                  \* of the compaction
  CuratePlans,            \* sets of [survivor, deletes]
  MaxRows, MaxAsserts, MaxClock     \* bounds

ASSUME GraphAssumption ==
  /\ Secret \cup OldDocument \cup {StrongTopic, WeakTopic} \subseteq Triples
  /\ StrongTopic # WeakTopic
  /\ Confidences \subseteq 1..1000 /\ TopConfidence \in 1..1000
  /\ {Floor, MaxRows, MaxAsserts, MaxClock} \subseteq Nat
  /\ \A plan \in CuratePlans : \A group \in plan :
       group.survivor \in Triples /\ group.deletes \subseteq Triples

VARIABLES
  mclock,
  mrows,                  \* [id, fact, by, conf, expires, vector]
  mlast,                  \* the last id that AUTOINCREMENT gave
  mwrites,
  mjob,                   \* the compaction: its kind, its clock, and the rows it selected
  mat,                    \* idle, selected, archived
  marchive,               \* [id, fact] of the rows that were archived
  mremoved,               \* history: [id, fact, kind, live] of those a compaction deleted
  membed,                 \* [id, fact] that the backfill is embedding
  mtold                   \* history: facts that were asserted, other than by a review

graphVars == <<mclock, mrows, mlast, mwrites, mjob, mat, marchive, mremoved, membed, mtold>>

NoJob == [kind |-> "none", now |-> 0, rows |-> {}]

GraphInit ==
  /\ mclock = 1 /\ mrows = {} /\ mlast = 0 /\ mwrites = 0
  /\ mjob = NoJob /\ mat = "idle" /\ marchive = {} /\ mremoved = {}
  /\ membed = {} /\ mtold = {}

Expired(row, now) == row.expires # 0 /\ row.expires <= now
Of(facts) == {row \in mrows : row.fact \in facts}
Payload(rows) == {[id |-> row.id, fact |-> row.fact] : row \in rows}

-----------------------------------------------------------------------------
(* Confidence *)

NoOne == [a \in Authors |-> 0]
Corroborators(by) == {a \in Authors : by[a] > 0}

\* What is left of the doubt when independent confidences are combined.
Doubt(by) == FoldSet(LAMBDA a, doubt : (doubt * (1000 - by[a])) \div 1000, 1000, Corroborators(by))

Smaller(a, b) == IF b > a THEN a ELSE b
Larger(a, b) == IF a >= b THEN a ELSE b

\* _combined_confidence.
Combined(by) ==
  CASE \E a \in Authors : by[a] = 1000 -> 1000
    [] Cardinality(Corroborators(by)) = 1 -> by[CHOOSE a \in Authors : by[a] > 0]
    [] OTHER -> Smaller(TopConfidence, 1000 - Doubt(by))

-----------------------------------------------------------------------------
(* Writes *)

WriteSame == UNCHANGED <<mclock, mjob, mat, marchive, mremoved, membed>>

\* Mutant: ids are taken from the largest there is.
NewId_Reused == 1 + FoldSet(Larger, 0, {row.id : row \in mrows})

NewId == mlast + 1

\* The row of a fact, updated in place or inserted; a merge keeps the vector.
Upsert(rows, fact, by, conf, expires) ==
  \/ \E row \in Of({fact}) :
       /\ mrows' = (rows \ {row}) \cup {[id |-> row.id, fact |-> fact, by |-> by, conf |-> conf,
                                         expires |-> expires, vector |-> row.vector]}
       /\ UNCHANGED mlast
  \/ /\ Of({fact}) = {} /\ mlast < MaxRows
     /\ mrows' = rows \cup {[id |-> NewId, fact |-> fact, by |-> by, conf |-> conf,
                             expires |-> expires, vector |-> "none"]}
     /\ mlast' = NewId

\* assert_fact, of an author or of none: an author's own confidence only rises.
\* Permanent, or with a time to live; what it was before is overwritten.
AssertFact(fact) ==
  /\ mwrites < MaxAsserts /\ mwrites' = mwrites + 1
  /\ \E conf \in Confidences, expires \in {0, mclock + 1} :
       LET old == IF Of({fact}) = {} THEN [by |-> NoOne, conf |-> 0]
                                     ELSE CHOOSE row \in Of({fact}) : TRUE
       IN  \/ \E a \in Authors :
                LET by == [old.by EXCEPT ![a] = Larger(@, conf)]
                IN  Upsert(mrows, fact, by, Combined(by), expires)
           \/ Upsert(mrows, fact, old.by,
                     IF old.by = NoOne THEN Larger(old.conf, conf) ELSE Combined(old.by),
                     expires)
  /\ mtold' = mtold \cup {fact}
  /\ WriteSame

\* Mutant: the entry of the other side of the line stays.
Twins_Kept(fact) == {}

Twins(fact) == {StrongTopic, WeakTopic} \ {fact}

\* record_review: the grade decides on which side of the line the topic is now;
\* the twin is deleted, the confidence overwritten, the entry permanent.
RecordReview(a) ==
  /\ mwrites < MaxAsserts /\ mwrites' = mwrites + 1
  /\ \E fact \in {StrongTopic, WeakTopic}, mastery \in Confidences :
       Upsert(mrows \ Of(Twins(fact)), fact, [NoOne EXCEPT ![a] = mastery], mastery, 0)
  /\ UNCHANGED mtold /\ WriteSame

TimeGoesOn ==
  /\ mclock < MaxClock /\ mclock' = mclock + 1
  /\ UNCHANGED <<mrows, mlast, mwrites, mjob, mat, marchive, mremoved, membed, mtold>>

-----------------------------------------------------------------------------
(* Embeddings: read, request, write by id *)

EmbedSame == UNCHANGED <<mclock, mlast, mwrites, mjob, mat, marchive, mremoved, mtold>>

FactsNeedingEmbedding ==
  /\ membed = {}
  /\ membed' = Payload({row \in mrows : ~Expired(row, mclock) /\ row.vector = "none"})
  /\ membed' # {}
  /\ UNCHANGED mrows /\ EmbedSame

StoreEmbeddings ==
  /\ membed # {}
  /\ \/ mrows' = {IF \E e \in membed : e.id = row.id
                  THEN [row EXCEPT !.vector = (CHOOSE e \in membed : e.id = row.id).fact]
                  ELSE row : row \in mrows}
     \/ UNCHANGED mrows                          \* the embedder failed
  /\ membed' = {}
  /\ EmbedSame

-----------------------------------------------------------------------------
(* Compaction: select, archive, delete *)

CompactSame == UNCHANGED <<mclock, mlast, mwrites, membed, mtold>>

Selects(kind, rows) ==
  /\ mat = "idle" /\ rows # {}
  /\ mat' = "selected" /\ mjob' = [kind |-> kind, now |-> mclock, rows |-> Payload(rows)]
  /\ UNCHANGED <<mrows, marchive, mremoved>> /\ CompactSame

\* apply: with enough left.
SelectExpired ==
  /\ Cardinality({row \in mrows : ~Expired(row, mclock)}) >= Floor
  /\ Selects("apply", {row \in mrows : Expired(row, mclock) /\ row.fact \notin Secret})

\* Mutant: a credential that the plan names is taken along.
Deletable_Any(group) == Of(group.deletes \ {group.survivor})

Deletable(group) == Of(group.deletes \ ({group.survivor} \cup Secret))

\* curate: the groups whose survivor is there, expired or not.
SelectDuplicates ==
  \E plan \in CuratePlans :
    Selects("curate", UNION {Deletable(group) : group \in {g \in plan : Of({g.survivor}) # {}}})

\* compact_study: the facts of superseded documents.
SelectSuperseded ==
  Selects("study", {row \in Of(OldDocument) : ~Expired(row, mclock)})

\* The archive is written to a sibling and renamed, so it is there or it is not;
\* when it fails, or the daemon dies, nothing is deleted.
WriteArchive ==
  /\ mat = "selected"
  /\ \/ mat' = "archived" /\ marchive' = marchive \cup mjob.rows /\ UNCHANGED mjob
     \/ mat' = "idle" /\ mjob' = NoJob /\ UNCHANGED marchive
  /\ UNCHANGED <<mrows, mremoved>> /\ CompactSame

Chosen == {row \in mrows : \E p \in mjob.rows : p.id = row.id}

\* Mutant: the expired rows are selected again when they are deleted.
Doomed_Reselected ==
  IF mjob.kind = "apply" THEN {row \in mrows : Expired(row, mclock) /\ row.fact \notin Secret}
                         ELSE Chosen

\* purge_expired_ids looks again at what apply selected, delete_many does not.
Doomed ==
  IF mjob.kind = "apply"
  THEN {row \in Chosen : Expired(row, mjob.now) /\ row.fact \notin Secret}
  ELSE Chosen

\* All of them in one transaction, or none.
DeleteRows ==
  /\ mat = "archived"
  /\ \/ /\ mrows' = mrows \ Doomed
        /\ mremoved' = mremoved \cup {[id |-> row.id, fact |-> row.fact, kind |-> mjob.kind,
                                       live |-> ~Expired(row, mclock)] : row \in Doomed}
     \/ UNCHANGED <<mrows, mremoved>>
  /\ mat' = "idle" /\ mjob' = NoJob
  /\ UNCHANGED marchive /\ CompactSame

GraphNext ==
  \/ \E fact \in Triples : AssertFact(fact)
  \/ \E a \in Authors : RecordReview(a)
  \/ TimeGoesOn
  \/ FactsNeedingEmbedding \/ StoreEmbeddings
  \/ SelectExpired \/ SelectDuplicates \/ SelectSuperseded \/ WriteArchive \/ DeleteRows

GraphSpec == GraphInit /\ [][GraphNext]_graphVars

-----------------------------------------------------------------------------
(* What the agents and the operator rely on *)

(* Recurring knowledge "stays one row", whoever asserts it and whatever was *)
(* deleted in between, and a row has the vector of its own fact; a topic     *)
(* that only reviews write never has two entries, nor one that expires.      *)
OneRowPerFact ==
  /\ \A row, other \in mrows : row.fact = other.fact \/ row.id = other.id => row = other
  /\ \A row \in mrows : row.vector \in {"none", row.fact}
  /\ {StrongTopic, WeakTopic} \cap mtold = {} =>
       /\ Cardinality(Of({StrongTopic, WeakTopic})) <= 1
       /\ \A row \in Of({StrongTopic, WeakTopic}) : row.expires = 0

(* "Archived before deleted": every row that a compaction removes is in an  *)
(* archive, whatever was asserted, revived or inserted since the selection;  *)
(* no fact that lives again is purged as expired, and neither the engine nor *)
(* a plan removes a credential.                                              *)
RemovedIsArchived ==
  \A gone \in mremoved :
    /\ [id |-> gone.id, fact |-> gone.fact] \in marchive
    /\ gone.kind = "apply" => ~gone.live
    /\ gone.kind \in {"apply", "curate"} => gone.fact \notin Secret

(* "Corroboration alone never asserts certainty": above the cap a row has a *)
(* confidence only that somebody gave it.                                    *)
NoBorrowedCertainty ==
  \A row \in mrows : row.conf > TopConfidence => row.conf \in Confidences

(* The three together.                                                       *)
MemoryIsKept == OneRowPerFact /\ RemovedIsArchived /\ NoBorrowedCertainty

(* "Corroboration can never LOWER a fact's confidence". It does where the    *)
(* cap is below it: see README, section 6.                                   *)
CorroborationRaises ==
  [][\A row \in mrows, new \in mrows' :
       (row.id = new.id /\ row.fact \notin {StrongTopic, WeakTopic}) => new.conf >= row.conf]_graphVars
=============================================================================
