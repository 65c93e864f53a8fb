----------------------------- MODULE RepoGraph -----------------------------
(***************************************************************************)
(* RepoGraph: the parser and the indexer of openhands_tools_ext/repograph, *)
(* the Neo4j store behind them and the BFF's router.  An index request     *)
(* reads the files one after the other, resolves calls and methods, and    *)
(* replaces the stored graph in one transaction; the endpoints run in      *)
(* threads, so requests for one repository overlap.                        *)
(*                                                                         *)
(* A source file is the sequence of its interesting syntax nodes in the    *)
(* order of the walk, each on a line of its own, with its depth; files     *)
(* come and go.  PageRank is left out: what it orders by is a choice, and  *)
(* so are the rows that a limit lets through.                              *)
(***************************************************************************)
EXTENDS Naturals, Sequences, FiniteSetsExt

CONSTANTS
  Repos, Files, Names,
  TsFiles,        \* the files that are TypeScript, the others are Python
  Callers,        \* threads that serve /api/repograph/index
  GraphLimit, CallerLimit, CalleeLimit, BundleLimit,  \* the limits of the four views
  Trees,          \* per file, the contents it may have at the start
  Drafts,         \* per file, the contents somebody may give it later
  MaxEdits,       \* bound: files written or deleted
  MaxIndexes,     \* bound: index requests
  MaxGraphFaults  \* bound: unreadable files, failed transactions, restarts of the BFF

NodeKinds  == {"class", "function", "method", "call"}
Node   == [kind : NodeKinds, name : Names, depth : 0..2]
NoName == "none"

ASSUME RepoGraphAssumption ==
  /\ TsFiles \subseteq Files
  /\ {GraphLimit, CallerLimit, CalleeLimit, BundleLimit} \subseteq Nat \ {0}
  /\ Trees \in [Files -> SUBSET Seq(Node)] /\ Drafts \in [Files -> SUBSET Seq(Node)]
  /\ NoName \notin Repos \cup Names
  /\ MaxEdits \in Nat /\ MaxIndexes \in Nat /\ MaxGraphFaults \in Nat

VARIABLES
  checkout,  \* per repository, the syntax nodes of each file that is there
  neo,       \* per repository, the stored graph
  registry,  \* repositories whose path the BFF knows
  indexer,   \* per thread: the request it serves
  settled,   \* history: repositories indexed with no edit and no other request since it began
  lastCommit,  \* history: per repository, what the last commit brought: its files, and
             \* which of them had given no tags because they could not be read or parsed
  edits, indexes, graphFaults

graphVars == <<checkout, neo, registry, indexer, settled, lastCommit, edits, indexes, graphFaults>>

-----------------------------------------------------------------------------
(* The parser *)

\* The nodes the walk is inside of when it comes to node i.
Around(tree, i) == {j \in 1..(i - 1) : \A k \in (j + 1)..i : tree[k].depth > tree[j].depth}
LastLine(tree, i) ==
  Max({k \in i..Len(tree) : \A l \in (i + 1)..k : tree[l].depth > tree[i].depth})

\* ctx.class_stack: its top is the class a tag belongs to.
ClassStack(tree, i) == {j \in Around(tree, i) : tree[j].kind = "class"}
ClassOf(tree, i) ==
  IF ClassStack(tree, i) = {} THEN NoName ELSE tree[Max(ClassStack(tree, i))].name

\* A Python def is a method wherever a class is around it; a TypeScript function never is.
Category(file, tree, i) ==
  IF tree[i].kind = "function" /\ file \notin TsFiles /\ ClassOf(tree, i) # NoName
  THEN "method" ELSE tree[i].kind

Parent(file, tree, i) ==
  IF Category(file, tree, i) = "function" THEN NoName ELSE ClassOf(tree, i)

Tag(file, tree, i) ==
  [file |-> file, name |-> tree[i].name, line |-> i, category |-> Category(file, tree, i),
   last |-> LastLine(tree, i), parent |-> Parent(file, tree, i)]

-----------------------------------------------------------------------------
(* build_index over the trees that were read *)

SymbolsOf(trees) ==
  UNION {{Tag(f, trees[f], i) : i \in {j \in DOMAIN trees[f] : trees[f][j].kind # "call"}} :
           f \in DOMAIN trees}
RefsOf(trees) ==
  UNION {{[file |-> f, name |-> trees[f][i].name, line |-> i] :
            i \in {j \in DOMAIN trees[f] : trees[f][j].kind = "call"}} : f \in DOMAIN trees}
Key(s) == <<s.file, s.name, s.line>>

\* Mutated: the file itself is not preferred.
CalleesAnywhere(symbols, ref) == {s \in symbols : s.name = ref.name}

\* A symbol of the file itself is preferred, else every symbol of that name is a callee.
Callees(symbols, ref) ==
  LET candidates == {s \in symbols : s.name = ref.name}
      sameFile   == {s \in candidates : s.file = ref.file}
  IN IF sameFile # {} THEN sameFile ELSE candidates

\* class_candidates[0]: the first class of the file with the parent's name.
MethodEdges(symbols) ==
  LET Candidates(m) == {c \in symbols : /\ c.file = m.file /\ c.name = m.parent
                                        /\ c.category = "class"}
      First(m)      == CHOOSE c \in Candidates(m) : \A o \in Candidates(m) : c.line <= o.line
  IN {<<Key(m), Key(First(m))>> : m \in {s \in symbols : /\ s.category = "method"
                                                         /\ s.parent # NoName
                                                         /\ Candidates(s) # {}}}

BuildIndex(trees) ==
  LET symbols == SymbolsOf(trees)
      refs    == RefsOf(trees)
  IN [files   |-> DOMAIN trees,
      symbols |-> symbols,
      methods |-> MethodEdges(symbols),
      calls   |-> UNION {{[src |-> r.file, line |-> r.line, dst |-> Key(s)] :
                            s \in Callees(symbols, r)} : r \in refs},
      unresolved |-> {r \in refs : Callees(symbols, r) = {}}]

-----------------------------------------------------------------------------
(* Neo4jStore *)

NoGraph == [files |-> {}, symbols |-> {}, methods |-> {}, calls |-> {}, unresolved |-> {}]

\* replace_repo: what the transaction found and deleted goes, what it brings is merged in.
Without(g, gone) == [part \in DOMAIN g |-> g[part] \ gone[part]]
MergedIn(g, new) ==
  [part \in DOMAIN g |->
     IF part = "symbols"
     THEN {s \in g.symbols : \A n \in new.symbols : Key(n) # Key(s)} \cup new.symbols
     ELSE g[part] \cup new[part]]
ReplaceRepoKeeps(g, gone, new) == MergedIn(g, new)
ReplaceRepo(g, gone, new) == MergedIn(Without(g, gone), new)

\* LIMIT: the rows, or as many of them as it lets through.
Limited(rows, limit) ==
  {cut \in SUBSET rows : /\ IsFiniteSet(cut) /\ Cardinality(cut) <= limit
                         /\ Cardinality(cut) < limit => cut = rows}

\* The calls that a MATCH finds, with both of their ends, and the answers made of them.
CallRows(g) == {c \in g.calls : c.src \in g.files /\ \E s \in g.symbols : Key(s) = c.dst}
CallersOf(g, name) == Limited({c \in CallRows(g) : c.dst[2] = name}, CallerLimit)
CalleesOf(g, file) == Limited({c \in CallRows(g) : c.src = file}, CalleeLimit)

ContextBundle(g, seeds) ==
  Limited({s \in g.symbols : \/ s.file \in seeds \cap g.files
                             \/ \E c \in CallRows(g) : c.src \in seeds /\ c.dst = Key(s)},
          BundleLimit)

\* /graph: the symbols that were ranked first, their files, and the edges between these.
FullGraph(g, top) ==
  LET files == {s.file : s \in top} \cap g.files
  IN [nodes |-> {<<f>> : f \in files} \cup {Key(s) : s \in top},
      links |-> {<< <<s.file>>, Key(s)>> : s \in {t \in top : t.file \in files}}
                  \cup {<< <<c.src>>, c.dst>> : c \in {e \in g.calls :
                          e.src \in files /\ \E s \in top : Key(s) = e.dst}}]

-----------------------------------------------------------------------------
(* The router *)

Idle == [stage |-> "idle", repo |-> NoName, listed |-> {}, trees |-> <<>>, blank |-> {},
         gone |-> NoGraph, clean |-> FALSE]
NotStored == [stored |-> FALSE, files |-> {}, blank |-> {}]

\* What is on the disk: some of the files, with contents of theirs.
Checkouts(contents) ==
  UNION {{d \in [D -> UNION {contents[f] : f \in Files}] : \A f \in D : d[f] \in contents[f]} :
           D \in SUBSET Files}
With(trees, f, tree) == [g \in DOMAIN trees \cup {f} |-> IF g = f THEN tree ELSE trees[g]]

GraphInit ==
  /\ checkout \in [Repos -> Checkouts(Trees)]
  /\ neo = [r \in Repos |-> NoGraph] /\ lastCommit = [r \in Repos |-> NotStored]
  /\ registry = {} /\ indexer = [c \in Callers |-> Idle] /\ settled = {}
  /\ edits = 0 /\ indexes = 0 /\ graphFaults = 0

GraphFault == graphFaults < MaxGraphFaults /\ graphFaults' = graphFaults + 1

\* The index of a repository under way is of no one moment once another thing happens to it.
Disturbed(r) ==
  [c \in Callers |-> IF indexer[c].repo = r THEN [indexer[c] EXCEPT !.clean = FALSE]
                     ELSE indexer[c]]

\* Somebody writes a file, or deletes it.
Edited(r, f) ==
  /\ edits < MaxEdits /\ edits' = edits + 1
  /\ \/ \E tree \in Drafts[f] : checkout' = [checkout EXCEPT ![r] = With(@, f, tree)]
     \/ checkout' = [checkout EXCEPT ![r] = [g \in DOMAIN @ \ {f} |-> @[g]]]
  /\ indexer' = Disturbed(r) /\ settled' = settled \ {r}
  /\ UNCHANGED <<neo, registry, lastCommit, indexes, graphFaults>>

\* The files are listed; there may be none of a language that is supported.
IndexAsked(c, r) ==
  /\ indexer[c].stage = "idle" /\ indexes < MaxIndexes /\ indexes' = indexes + 1
  /\ indexer' = [Disturbed(r) EXCEPT ![c] =
       [Idle EXCEPT !.stage = IF DOMAIN checkout[r] = {} THEN "built" ELSE "reads",
          !.repo = r, !.listed = DOMAIN checkout[r],
          !.clean = \A o \in Callers : indexer[o].repo # r]]
  /\ UNCHANGED <<checkout, neo, registry, settled, lastCommit, edits, graphFaults>>

Gives(c, f, tree, blank) ==
  LET trees == With(indexer[c].trees, f, tree) IN
  indexer' = [indexer EXCEPT
    ![c].trees = trees, ![c].blank = blank,
    ![c].stage = IF DOMAIN trees = indexer[c].listed THEN "built" ELSE "reads"]

\* extract_tags, when the loop comes to a file: it is as it is by now.  A file that has gone,
\* cannot be read or cannot be parsed is indexed with no tags.
ReadsFile(c, f) ==
  LET there == DOMAIN checkout[indexer[c].repo] IN
  /\ indexer[c].stage = "reads" /\ f \in indexer[c].listed \ DOMAIN indexer[c].trees
  /\ \/ /\ f \in there /\ UNCHANGED graphFaults
        /\ Gives(c, f, checkout[indexer[c].repo][f], indexer[c].blank)
     \/ /\ (f \notin there /\ UNCHANGED graphFaults) \/ GraphFault
        /\ Gives(c, f, <<>>, indexer[c].blank \cup {f})
  /\ UNCHANGED <<checkout, neo, registry, settled, lastCommit, edits, indexes>>

\* _get_store has no driver, or the database refuses: the request fails and nothing is stored.
IndexFails(c) ==
  /\ indexer[c].stage \in {"built", "deleted"} /\ GraphFault
  /\ indexer' = [indexer EXCEPT ![c] = Idle]
  /\ UNCHANGED <<checkout, neo, registry, settled, lastCommit, edits, indexes>>

\* The nodes a transaction deletes are locked until it commits.
IndexDeletes(c) ==
  LET r == indexer[c].repo IN
  /\ indexer[c].stage = "built"
  /\ \A o \in Callers : indexer[o].stage = "deleted" /\ indexer[o].repo = r
                          => indexer[o].gone = NoGraph
  /\ indexer' = [indexer EXCEPT ![c].stage = "deleted", ![c].gone = neo[r]]
  /\ UNCHANGED <<checkout, neo, registry, settled, lastCommit, edits, indexes, graphFaults>>

\* The commit, whose answer may be lost: then the request fails though its graph is stored.
IndexCommits(c) ==
  LET r == indexer[c].repo IN
  /\ indexer[c].stage = "deleted"
  /\ neo' = [neo EXCEPT ![r] = ReplaceRepo(@, indexer[c].gone, BuildIndex(indexer[c].trees))]
  /\ \/ indexer' = [indexer EXCEPT ![c].stage = "stored"] /\ UNCHANGED graphFaults
     \/ indexer' = [indexer EXCEPT ![c] = Idle] /\ GraphFault
  /\ settled' = IF indexer[c].clean THEN settled \cup {r} ELSE settled \ {r}
  /\ lastCommit' = [lastCommit EXCEPT ![r] =
       [stored |-> TRUE, files |-> indexer[c].listed, blank |-> indexer[c].blank]]
  /\ UNCHANGED <<checkout, registry, indexes, edits>>

\* repograph_registry.register, then the answer.
Registers(c) ==
  /\ indexer[c].stage = "stored"
  /\ registry' = registry \cup {indexer[c].repo}
  /\ indexer' = [indexer EXCEPT ![c] = Idle]
  /\ UNCHANGED <<checkout, neo, settled, lastCommit, edits, indexes, graphFaults>>

\* The registry is memory of the process; a transaction that was open is rolled back.
BffRestarted ==
  /\ GraphFault /\ registry' = {} /\ indexer' = [c \in Callers |-> Idle]
  /\ UNCHANGED <<checkout, neo, settled, lastCommit, edits, indexes>>

GraphNext ==
  \/ \E r \in Repos, f \in Files : Edited(r, f)
  \/ \E c \in Callers, r \in Repos : IndexAsked(c, r)
  \/ \E c \in Callers, f \in Files : ReadsFile(c, f)
  \/ \E c \in Callers : IndexFails(c) \/ IndexDeletes(c) \/ IndexCommits(c) \/ Registers(c)
  \/ BffRestarted

GraphSpec == GraphInit /\ [][GraphNext]_graphVars

-----------------------------------------------------------------------------
(* Properties *)

\* The type invariant.
GraphTypeOK ==
  /\ \A r \in Repos : /\ DOMAIN checkout[r] \subseteq Files
                      /\ \A f \in DOMAIN checkout[r] : \A i \in DOMAIN checkout[r][f] :
                           checkout[r][f][i] \in Node
  /\ registry \subseteq Repos /\ settled \subseteq Repos
  /\ edits \in 0..MaxEdits /\ indexes \in 0..MaxIndexes /\ graphFaults \in 0..MaxGraphFaults
  /\ \A c \in Callers :
       /\ indexer[c].stage \in {"idle", "reads", "built", "deleted", "stored"}
       /\ DOMAIN indexer[c].trees \subseteq Files

\* A graph that was stored with nothing else going on is the index of the files as they are,
\* a file that could not be read or parsed counting as empty: replacing leaves no symbol or
\* call of an earlier index behind.
AsRead(trees, blank) == [f \in DOMAIN trees |-> IF f \in blank THEN <<>> ELSE trees[f]]
GraphIsCurrent ==
  \A r \in settled : neo[r] = BuildIndex(AsRead(checkout[r], lastCommit[r].blank))

\* What the parser and the resolution make of a settled repository: a method's class is around
\* it (when the file has one class of that name), a call goes to its own file when that has
\* the name, and a call is resolved or recorded as unresolved, never both.
EdgesAreRight ==
  \A r \in settled : LET g == neo[r] IN
    /\ \A m \in g.methods :
         LET Sym(k) == CHOOSE s \in g.symbols : Key(s) = k
             Same   == {s \in g.symbols : /\ s.file = m[2][1] /\ s.name = m[2][2]
                                          /\ s.category = "class"}
         IN Cardinality(Same) = 1
              => Sym(m[2]).line < Sym(m[1]).line /\ Sym(m[1]).last <= Sym(m[2]).last
    /\ \A c \in g.calls : c.dst[1] # c.src
         => \A s \in g.symbols : ~(s.file = c.src /\ s.name = c.dst[2])
    /\ \A u \in g.unresolved : \A c \in g.calls : c.src # u.file \/ c.line # u.line

\* What the page draws is a graph whatever was stored and however it was ranked: both ends of
\* a link are among the nodes; and the two directions of the call endpoints agree, and the
\* bundle with both: a call that one of them shows is in the others, unless they are cut.
ViewsAgree ==
  \A r \in Repos : LET g == neo[r] IN
    /\ \A top \in Limited(g.symbols, GraphLimit) :
         \A l \in FullGraph(g, top).links : {l[1], l[2]} \subseteq FullGraph(g, top).nodes
    /\ \A f \in g.files : \A c \in UNION CalleesOf(g, f) :
         /\ \A callers \in CallersOf(g, c.dst[2]) :
              Cardinality(callers) < CallerLimit => c \in callers
         /\ \A bundle \in ContextBundle(g, {f}) :
              Cardinality(bundle) < BundleLimit => \E s \in bundle : Key(s) = c.dst

\* co_changed answers for registered repositories: for each of them a graph was stored, and
\* every file that the last commit listed is still in it, whatever requests overlapped.
RegisteredIsStored ==
  \A r \in registry : lastCommit[r].stored /\ lastCommit[r].files \subseteq neo[r].files

RepoGraphHolds == GraphIsCurrent /\ EdgesAreRight /\ ViewsAgree /\ RegisteredIsStored
=============================================================================
