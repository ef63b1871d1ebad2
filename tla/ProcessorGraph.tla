--------------------------- MODULE ProcessorGraph ---------------------------
(***************************************************************************)
(* ProcessorGraph::rebuild (processor.cpp): the processors are put in an    *)
(* order in which each comes after those whose outputs it reads, with the   *)
(* depth of its derivation; several threads may rebuild the graph.  The     *)
(* order is found without a lock, then stored under writer_mutex_.          *)
(*                                                                         *)
(* A set of processors is a function from their ids, in their order, to the *)
(* processors whose outputs they read.  That its descriptors match and      *)
(* every derived metric has one producer is checked before (Described).     *)
(***************************************************************************)
EXTENDS Integers, FiniteSets, Sequences

CONSTANTS
  Rebuilders,      \* the threads that call rebuild
  ProcessorSets    \* what they call it with: reads, and whether Described

MaxDepth == 4

VARIABLES
  graph,           \* snapshot_
  rebuilding,      \* the calls of rebuild
  installed        \* history: the generations for which rebuild succeeded

graphVars == <<graph, rebuilding, installed>>

NoRebuild == [pc |-> "idle"]

GraphInit ==
  /\ graph = [generation |-> 0, nodes |-> <<>>]
  /\ rebuilding = [t \in Rebuilders |-> NoRebuild]
  /\ installed = {}

-----------------------------------------------------------------------------
(* The loop over ready, once per processor: the first of the processors     *)
(* that wait for no other is taken, and its consumers are a level deeper.   *)

Consumers(reads, p) == {c \in DOMAIN reads : p \in reads[c]}

First(ready) == CHOOSE p \in ready : \A q \in ready : p <= q

Larger(a, b) == IF a > b THEN a ELSE b

(* Mutant: the last of the inputs gives the depth.                          *)
DeepenedLast(s, reads, p) ==
  [c \in DOMAIN reads |-> IF c \in Consumers(reads, p) THEN s.depth[p] + 1 ELSE s.depth[c]]

Deepened(s, reads, p) ==
  [c \in DOMAIN reads |-> IF c \in Consumers(reads, p)
                          THEN Larger(s.depth[c], s.depth[p] + 1) ELSE s.depth[c]]

Visited(s, reads, p) ==
  LET waits == [c \in DOMAIN reads |-> IF c \in Consumers(reads, p)
                                       THEN s.waits[c] - 1 ELSE s.waits[c]]
  IN  [nodes |-> Append(s.nodes, [processor |-> p, depth |-> s.depth[p]]),
       waits |-> waits,
       depth |-> Deepened(s, reads, p),
       ready |-> (s.ready \ {p}) \cup {c \in Consumers(reads, p) : waits[c] = 0},
       deep |-> FALSE]

Unvisited(reads) ==
  LET waits == [c \in DOMAIN reads |-> Cardinality(reads[c])]
  IN  [nodes |-> <<>>, waits |-> waits, depth |-> [c \in DOMAIN reads |-> 1],
       ready |-> {c \in DOMAIN reads : waits[c] = 0}, deep |-> FALSE]

Sorted(reads) ==
  LET state[n \in 0..Cardinality(DOMAIN reads)] ==
        IF n = 0 THEN Unvisited(reads)
        ELSE LET s == state[n - 1]
             IN  IF s.ready = {} \/ s.deep THEN s
                 ELSE IF s.depth[First(s.ready)] > MaxDepth THEN [s EXCEPT !.deep = TRUE]
                 ELSE Visited(s, reads, First(s.ready))
  IN  state[Cardinality(DOMAIN reads)]

Buildable(set) ==
  LET s == Sorted(set.reads)
  IN  set.described /\ ~s.deep /\ Len(s.nodes) = Cardinality(DOMAIN set.reads)

-----------------------------------------------------------------------------
RebuildSort(t, set, generation) ==
  /\ rebuilding[t].pc = "idle" /\ generation # 0
  /\ rebuilding' = [rebuilding EXCEPT ![t] =
       [pc |-> IF Buildable(set) THEN "store" ELSE "refused", set |-> set,
        generation |-> generation, nodes |-> Sorted(set.reads).nodes]]
  /\ UNCHANGED <<graph, installed>>

RebuildStore(t) ==
  /\ rebuilding[t].pc = "store"
  /\ \/ /\ graph.generation <= rebuilding[t].generation
        /\ graph' = [generation |-> rebuilding[t].generation, nodes |-> rebuilding[t].nodes]
        /\ installed' = installed \cup {rebuilding[t].generation}
     \/ /\ graph.generation > rebuilding[t].generation
        /\ UNCHANGED <<graph, installed>>
  /\ rebuilding' = [rebuilding EXCEPT ![t] = NoRebuild]

RebuildRefused(t) ==
  /\ rebuilding[t].pc = "refused"
  /\ rebuilding' = [rebuilding EXCEPT ![t] = NoRebuild]
  /\ UNCHANGED <<graph, installed>>

-----------------------------------------------------------------------------
(* The processors that end a chain of n that read from one another; there   *)
(* is a chain of every length if they read in a cycle.                      *)
ChainEnds(reads, n) ==
  LET ends[k \in 1..n] ==
        IF k = 1 THEN DOMAIN reads
        ELSE {c \in DOMAIN reads : reads[c] \cap ends[k - 1] # {}}
  IN  ends[n]

(* rebuild accepts exactly the processors that form no chain longer than    *)
(* four, so no cycle; each comes once and after what it reads, its depth    *)
(* is the length of the longest chain that ends in it, and the graph in use *)
(* is never older than one installed before (rebuild).                      *)
GraphExact ==
  /\ \A t \in Rebuilders : rebuilding[t].pc # "idle" =>
       LET set == rebuilding[t].set
       IN  rebuilding[t].pc = "store" <=>
             set.described /\ ChainEnds(set.reads, MaxDepth + 1) = {}
  /\ \A t \in Rebuilders : rebuilding[t].pc = "store" =>
       LET reads == rebuilding[t].set.reads
           nodes == rebuilding[t].nodes
       IN  /\ {nodes[i].processor : i \in DOMAIN nodes} = DOMAIN reads
           /\ Len(nodes) = Cardinality(DOMAIN reads)
           /\ \A i \in DOMAIN nodes : \A k \in 1..MaxDepth :
                nodes[i].processor \in ChainEnds(reads, k) <=> k <= nodes[i].depth
           /\ \A i \in DOMAIN nodes, j \in DOMAIN nodes :
                nodes[i].processor \in reads[nodes[j].processor] => i < j
  /\ \A g \in installed : g <= graph.generation

=============================================================================
