----------------------------- MODULE MCSession -----------------------------
(***************************************************************************)
(* What users and programs do in a session, on small instances: queries    *)
(* (Queries, with the questions of MCQuery), the ontology, the mimir       *)
(* command line, import and export of a host tree and the disk commands of *)
(* brunnr.  Init chooses the machine that runs; s1 to s9 hold its state.   *)
(***************************************************************************)
EXTENDS MCQuery

CONSTANT Machines   \* the machines explored

VARIABLES machine, s1, s2, s3, s4, s5, s6, s7, s8, s9

svars == <<machine, e, s1, s2, s3, s4, s5, s6, s7, s8, s9>>
Unused == "unused"

-----------------------------------------------------------------------------
(* A catalogue of five modules, two of them versions of the same one. *)

OO == INSTANCE OntologyOps

Lz4 == [axis \in {"compression"} |-> "lz4"]
Zstd == [axis \in {"compression"} |-> "zstd"]
Label(name, storage) == OO!Definition(name, "label", storage)
Plain(name) == Label(name, OO!NoStorage)
Mod(id, tags, imps, rels) ==
    [id |-> id, tags |-> tags, implications |-> imps, relations |-> rels]

MCCatalog ==
    { Mod("A", <<Label("a", Lz4), Plain("b")>>, <<<<"b", "a">>>>, <<>>),
      Mod("B", <<Plain("b"), Plain("c")>>, <<<<"c", "b">>>>, <<<<"c", "requires", "b">>>>),
      \* the next version of B, without its implication
      Mod("B", <<Plain("b"), Plain("c"), Label("d", Zstd)>>,
          <<<<"d", "b">>>>, <<<<"d", "alias", "c">>>>),
      \* an implication only, closing a cycle over A's
      Mod("C", <<>>, <<<<"a", "b">>>>, <<>>),
      \* refused by the relation, after a tag was registered
      Mod("D", <<Plain("x")>>, <<>>, <<<<"x", "implied-by", "b">>>>) }

O == INSTANCE Ontology WITH
        ont <- s1, next_tag_id <- s2, saved <- s3,
        Catalog <- MCCatalog, AdHocNames <- {"x"}, MaxTagId <- 5

-----------------------------------------------------------------------------
\* Two objects, two tag names, one context; three commands, killed anywhere.
M == INSTANCE MimirSession WITH
        disk <- s1, log <- s2, meant <- s3, runs <- s4,
        TagNames <- {<<"tag", "red">>, <<"tag", "blue">>}, Contexts <- {"c"},
        Paths <- {"p"}, BadPaths <- {"bad"}, Values <- {<<0, "v">>},
        MaxObj <- 2, MaxRuns <- 3

-----------------------------------------------------------------------------
(* Host trees with a hidden directory, a link back to the root and one to   *)
(* a file; files and a name that is not UTF-8 appear meanwhile.             *)

Dir == [kind |-> "dir", to |-> <<>>]
File == [kind |-> "file", to |-> <<>>]
Other == [kind |-> "other", to |-> <<>>]
Link(p) == [kind |-> "link", to |-> p]

MCTrees == {
    (<<"d">> :> Dir @@ <<"d", "f">> :> File @@ <<".h">> :> Dir @@ <<".h", "f">> :> File),
    (<<"d">> :> Dir @@ <<"d", "l">> :> Link(<<>>) @@ <<"x">> :> Other),
    (<<"d">> :> Dir @@ <<"d", "f">> :> File @@ <<"l">> :> Link(<<"d", "f">>)) }

H == INSTANCE HostTree WITH
        host <- s1, stack <- s2, out <- s3, result <- s4, changes <- s5, kept <- s6,
        include_hidden <- s7, follow_symlinks <- s8, exported <- s9,
        Trees <- MCTrees,
        Additions <- {<<<<"d">>, File>>, <<<<"d", "f">>, File>>, <<<<"u">>, File>>},
        Hidden <- {".h"}, NonUtf8 <- {"u"}, MaxLinks <- 2, MaxChanges <- 1

hostvars == <<s1, s2, s3, s4, s5, s6, s7, s8, s9>>

-----------------------------------------------------------------------------
(* Three backing files, one of them with a name too long for a descriptor.  *)

L == INSTANCE Pool WITH
        files <- s1, toml <- s2, pending <- s3, runs <- s4, torn <- s5, known <- s6,
        Paths <- {"p", "q", "long"}, LongPaths <- {"long"}, Tiers <- {"Hot"},
        Given <- {<<"q", 2>>}, DefaultCap <- 1, InlineDisks <- 2, MaxRuns <- 3, MaxTorn <- 1

-----------------------------------------------------------------------------
SessionInit ==
    /\ machine \in Machines
    /\ IF machine = "queries" THEN Init ELSE e = Unused
    /\ CASE machine = "queries" -> s1 = Unused /\ s2 = Unused /\ s3 = Unused
         [] machine = "ontology" -> O!Init
         [] machine = "mimir" -> M!Init
         [] machine = "pool" -> L!Init
         [] machine = "host" -> H!Init
    /\ machine \in {"queries", "ontology"} => s4 = Unused
    /\ machine \in {"queries", "ontology", "mimir"} => s5 = Unused /\ s6 = Unused
    /\ machine # "host" => s7 = Unused /\ s8 = Unused /\ s9 = Unused

SessionNext ==
    /\ UNCHANGED machine
    /\ \/ machine = "queries" /\ Next /\ UNCHANGED hostvars
       \/ machine = "ontology" /\ O!Next /\ UNCHANGED <<e, s4, s5, s6, s7, s8, s9>>
       \/ machine = "mimir" /\ M!Next /\ UNCHANGED <<e, s5, s6, s7, s8, s9>>
       \/ machine = "pool" /\ L!Next /\ UNCHANGED <<e, s7, s8, s9>>
       \/ machine = "host" /\ H!Next /\ UNCHANGED e

\* The import walk is a loop of one thread that waits for nothing but the
\* host's file system.
SessionSpec ==
    SessionInit /\ [][SessionNext]_svars /\ WF_hostvars(machine = "host" /\ H!walk)

-----------------------------------------------------------------------------
\* Queries: every query, and its text, is answered as a scan of the forward
\* index would answer it (AnswersExact), and the facets offered are the
\* largest overlaps (FacetsRank).
QueriesAnswered == machine = "queries" => AnswersExact /\ FacetsRank

\* Queries: a SELECT answers what its clauses say, or is refused
\* (SqlAgrees), at the prompt too (PromptAnswers).
StatementsAnswered == machine = "queries" => SqlAgrees /\ PromptAnswers

\* Ontology: graph, slots, tags and names agree whatever was installed,
\* upgraded and removed, an image of them reloads as they are, and the
\* storage policy of any set of tags is decided by one declaration.
RegistryCoherent ==
    machine = "ontology" => O!RegistryCoherent /\ O!ImageReloads /\ O!PolicyDecided

\* Ontology: implications and tags are on the record of a module installed.
RecordsCover == machine = "ontology" => O!RecordsCover

\* Ontology: the id of a defined tag does not change its name (register_tag,
\* install, upgrade, while the pool is open).
LiveIdKeepsName == [][machine = "ontology" => O!NamesKept]_svars

\* Ontology: removing a module keeps the tags another module lists (scrub:
\* "tags also registered by another installed module are kept").
SharedTagKept == [][machine = "ontology" => O!SharedKept]_svars

\* mimir: a path a projection shows is one the object's attribute records.
ProjectionBacked == machine = "mimir" => M!ProjectionBacked

\* mimir: a tag an object shows was given to it under that name.
TagsAsMeant == machine = "mimir" => M!TagsAsMeant

\* Import: a scan ends whatever is added, removed or linked under it.
ScanTerminates == <>(machine = "host" => H!Ended)

\* Import and export: a scan that answers reports every path that stayed, and
\* an export that succeeds gives exactly the imported files.
ExportFaithful == machine = "host" => H!ScanComplete /\ H!ExportFaithful

\* Pool: it opens however a command was cut short.
PoolReopens == machine = "pool" => L!PoolReopens

\* Pool: a removed disk drains in every later process.
DrainStays == machine = "pool" => L!DrainStays

\* Pool: a created pool holds nothing but what was stored in it since
\* (main.rs create: "Create a fresh pool").
CreatedPoolIsFresh == machine = "pool" => L!CreatedPoolIsFresh
=============================================================================
