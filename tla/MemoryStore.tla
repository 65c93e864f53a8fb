---------------------------- MODULE MemoryStore ----------------------------
(***************************************************************************)
(* The semantic memory (openhands_tools_ext/memory): curated writes of     *)
(* triples through DozerDbMemoryAdapter into the graph, its index and the  *)
(* vector store, each step a transaction of its own, from processes that   *)
(* know nothing of each other.  Nothing is ever deleted.                   *)
(***************************************************************************)
EXTENDS Naturals, FiniteSets, Sequences

CONSTANTS
  Triples,         \* claims: subject, predicate and object
  Words,           \* per claim, its triple_text: the three in lower case, joined by blanks
  Corpora,         \* names of corpora
  Default,         \* the corpus of FORGEOH_MEMORY_CORPUS, for who names none
  Curators,        \* processes that write
  TopK,            \* how many related memories a write looks at
  MaxMemories,     \* bound: writes
  MaxMemoryFaults  \* bound: calls to the database, Ollama or Qdrant that fail, processes killed

ASSUME MemoryStoreAssumption ==
  DOMAIN Words = Triples /\ Default \in Corpora /\ TopK \in Nat \ {0} /\ {MaxMemories, MaxMemoryFaults} \subseteq Nat

VARIABLES
  memories,    \* the :MemoryEvent nodes, by id
  quarantined, \* ids of the :Quarantined nodes
  points,      \* the vector store
  collections, \* the Qdrant collections that exist
  curator,     \* per process: the write it serves
  tidy,        \* history: no fault and no overlap so far, and every write was looked up in
               \* the corpus it is filed in, with all that was there among the hits
  written, memoryFaults

memoryVars ==
  <<memories, quarantined, points, collections, curator, tidy, written, memoryFaults>>

None == "none"
NoWrite == [at |-> "rest", id |-> 0, triple |-> None, corpus |-> Default, filed |-> Default,
            hits |-> {}]

MemoryInit ==
  /\ memories = [id \in {} |-> NoWrite] /\ quarantined = {} /\ points = {} /\ collections = {}
  /\ curator = [c \in Curators |-> NoWrite] /\ tidy = TRUE /\ written = 0 /\ memoryFaults = 0

MemoryFault == memoryFaults < MaxMemoryFaults /\ memoryFaults' = memoryFaults + 1

CuratorIs(c, step) == curator[c].at = step
CuratorAt(c, step) == curator' = [curator EXCEPT ![c].at = step]
Rests(c) == curator' = [curator EXCEPT ![c] = NoWrite]

PointsIn(corpus) == {p \in points : p.corpus = corpus}

\* semantic_lookup returns the TopK points that are nearest to the text; which these are the
\* model does not know, for the stored text has the citation and the attributes in it too.
Nearest(corpus) ==
  LET all == PointsIn(corpus)
  IN IF Cardinality(all) <= TopK THEN {all}
     ELSE {s \in SUBSET all : Cardinality(s) = TopK}

\* curated_write(corpus=...) looks the candidate up in the corpus it is given; where it is
\* filed is for attributes["corpus_name"] to say.
CurateAsked(c, t, corpus, filed) ==
  /\ CuratorIs(c, "rest") /\ written < MaxMemories /\ written' = written + 1
  /\ curator' = [curator EXCEPT ![c] =
       [NoWrite EXCEPT !.at = "lookup", !.id = written + 1, !.triple = t, !.corpus = corpus,
                  !.filed = filed]]
  /\ tidy' = (tidy /\ corpus = filed /\ \A o \in Curators : CuratorIs(o, "rest"))
  /\ UNCHANGED <<memories, quarantined, points, collections, memoryFaults>>

\* Of these a hit with a negative score is skipped: min_score is 0.
LooksUp(c) ==
  /\ CuratorIs(c, "lookup")
  /\ \E found \in UNION {SUBSET near : near \in Nearest(curator[c].corpus)} :
       /\ curator' = [curator EXCEPT ![c].at = "curate", ![c].hits = {p.triple : p \in found}]
       /\ tidy' = (tidy /\ found = PointsIn(curator[c].corpus))
  /\ UNCHANGED <<memories, quarantined, points, collections, written, memoryFaults>>

\* Ollama or Qdrant does not answer: search_semantic says there is nothing.
LookupDegrades(c) ==
  /\ CuratorIs(c, "lookup") /\ MemoryFault /\ tidy' = FALSE
  /\ curator' = [curator EXCEPT ![c].at = "curate", ![c].hits = {}]
  /\ UNCHANGED <<memories, quarantined, points, collections, written>>

CurateNever(hits, triple) == "keep"

\* reflect_on_candidate and curate: what is compared are the words, in whichever of the three
\* parts they are.
Curate(hits, triple) ==
  IF hits = {} THEN "keep"
  ELSE IF \E hit \in hits : Words[hit] = Words[triple] THEN "discard" ELSE "merge"

Curated(c) ==
  /\ CuratorIs(c, "curate")
  /\ IF Curate(curator[c].hits, curator[c].triple) = "discard" THEN CuratorAt(c, "discarded")
     ELSE CuratorAt(c, "guard")
  /\ UNCHANGED <<memories, quarantined, points, collections, tidy, written, memoryFaults>>

Discarded(c) ==
  /\ CuratorIs(c, "discarded") /\ Rests(c)
  /\ UNCHANGED <<memories, quarantined, points, collections, tidy, written, memoryFaults>>

\* validate_zero_trust_write, then the policy: the write is refused, set aside or let through.
Refused(c) ==
  /\ CuratorIs(c, "guard") /\ Rests(c)
  /\ UNCHANGED <<memories, quarantined, points, collections, tidy, written, memoryFaults>>

Quarantines(c) ==
  /\ CuratorIs(c, "guard") /\ Rests(c) /\ quarantined' = quarantined \cup {curator[c].id}
  /\ UNCHANGED <<memories, points, collections, tidy, written, memoryFaults>>

Allowed(c) ==
  /\ CuratorIs(c, "guard") /\ CuratorAt(c, "entities")
  /\ UNCHANGED <<memories, quarantined, points, collections, tidy, written, memoryFaults>>

\* The steps of write_event.  The two entities are nodes nothing else refers to.
GraphSteps == <<"entities", "event", "subjectEdge", "objectEdge", "index", "embed">>
Following(step) == GraphSteps[1 + CHOOSE i \in 1..5 : GraphSteps[i] = step]

Stored(c) ==
  LET w == curator[c]
      Edge == [memories EXCEPT ![w.id].edges = @ \cup {w.at}]
  IN CASE w.at = "event" ->
            [i \in DOMAIN memories \cup {w.id} |->
               IF i = w.id THEN [triple |-> w.triple, corpus |-> w.filed, edges |-> {}] ELSE memories[i]]
       [] w.at \in {"subjectEdge", "objectEdge"} -> Edge
       [] OTHER -> memories

WriteStep(c) ==
  /\ curator[c].at \in {"entities", "event", "subjectEdge", "objectEdge", "index"}
  /\ memories' = Stored(c) /\ CuratorAt(c, Following(curator[c].at))
  /\ UNCHANGED <<quarantined, points, collections, tidy, written, memoryFaults>>

\* A call raises out of write_event, what was written stays; the process may die as well.
WriteRaises(c) ==
  /\ ~CuratorIs(c, "rest") /\ MemoryFault /\ Rests(c) /\ tidy' = FALSE
  /\ UNCHANGED <<memories, quarantined, points, collections, written>>

\* embed_and_upsert.  The corpus is attributes["corpus_name"] or the default, which has
\* nothing to do with the corpus the candidate was looked up in.
Embeds(c) ==
  /\ CuratorIs(c, "embed")
  /\ CuratorAt(c, IF curator[c].filed \in collections THEN "upsert" ELSE "create")
  /\ UNCHANGED <<memories, quarantined, points, collections, tidy, written, memoryFaults>>

\* create_collection is refused when another process was faster; that write is not indexed.
CreatesCollection(c) ==
  /\ CuratorIs(c, "create") /\ collections' = collections \cup {curator[c].filed}
  /\ IF curator[c].filed \in collections THEN Rests(c) ELSE CuratorAt(c, "upsert")
  /\ UNCHANGED <<memories, quarantined, points, tidy, written, memoryFaults>>

\* Mutated: the point is filed under the corpus that was asked for.
PointElsewhere(w) == [id |-> w.id, corpus |-> w.corpus, triple |-> w.triple]
Point(w) == [id |-> w.id, corpus |-> w.filed, triple |-> w.triple]

Upserts(c) ==
  /\ CuratorIs(c, "upsert") /\ points' = points \cup {Point(curator[c])} /\ Rests(c)
  /\ UNCHANGED <<memories, quarantined, collections, tidy, written, memoryFaults>>

\* Neither failure is the caller's: it is logged and the write has succeeded.
SemanticLaneFails(c) ==
  /\ curator[c].at \in {"embed", "create", "upsert"} /\ MemoryFault /\ Rests(c) /\ tidy' = FALSE
  /\ UNCHANGED <<memories, quarantined, points, collections, written>>

MemoryNext ==
  \/ \E c \in Curators, t \in Triples, corpus, filed \in Corpora :
       CurateAsked(c, t, corpus, filed)
  \/ \E c \in Curators : LooksUp(c) \/ LookupDegrades(c) \/ Curated(c) \/ Discarded(c)
  \/ \E c \in Curators : Refused(c) \/ Quarantines(c) \/ Allowed(c)
  \/ \E c \in Curators : WriteStep(c) \/ WriteRaises(c)
  \/ \E c \in Curators : Embeds(c) \/ CreatesCollection(c) \/ Upserts(c) \/ SemanticLaneFails(c)

MemorySpec == MemoryInit /\ [][MemoryNext]_memoryVars

-----------------------------------------------------------------------------

\* The types of the state.
MemoryTypeOK ==
  /\ quarantined \subseteq 1..MaxMemories /\ DOMAIN memories \subseteq 1..MaxMemories
  /\ \A i \in DOMAIN memories : /\ memories[i].triple \in Triples
                                /\ memories[i].corpus \in Corpora
                                /\ memories[i].edges \subseteq {"subjectEdge", "objectEdge"}
  /\ points \subseteq [id : 1..MaxMemories, corpus : Corpora, triple : Triples]
  /\ collections \subseteq Corpora
  /\ \A c \in Curators : /\ curator[c].id \in 0..MaxMemories
                         /\ curator[c].triple \in Triples \cup {None}
                         /\ {curator[c].corpus, curator[c].filed} \subseteq Corpora
                         /\ curator[c].hits \subseteq Triples

\* A hit of the semantic lane names a memory that is in the graph whole, with the triple the
\* hit was embedded for and in the corpus it was written for, and never one that was set
\* aside: write_event embeds last, whatever fails on the way.
PointsNameWholeEvents ==
  /\ DOMAIN memories \cap quarantined = {}
  /\ \A p \in points : /\ p.id \in DOMAIN memories /\ p.corpus \in collections
                       /\ memories[p.id].triple = p.triple /\ memories[p.id].corpus = p.corpus
                       /\ memories[p.id].edges = {"subjectEdge", "objectEdge"}

\* A claim is only dropped as a repetition when a whole memory of the corpus that was looked
\* at has the same words, be they parted into subject, predicate and object otherwise: the
\* discard of curate loses no wording, while it may lose a claim and the corpus it was for.
DiscardsHaveATwin ==
  \A c \in Curators : CuratorIs(c, "discarded") =>
    \E p \in points : Words[p.triple] = Words[curator[c].triple] /\ p.corpus = curator[c].corpus

\* While one process writes at a time, nothing fails, and each write is looked up where it is
\* filed with the whole corpus among the hits, no corpus remembers the same words twice: what
\* ace_cycle's curation is for.
NoTwinWhenTidy ==
  tidy => \A i, j \in DOMAIN memories :
    /\ memories[i].corpus = memories[j].corpus
    /\ Words[memories[i].triple] = Words[memories[j].triple]
    => i = j

MemoryHolds == PointsNameWholeEvents /\ DiscardsHaveATwin /\ NoTwinWhenTidy
=============================================================================
