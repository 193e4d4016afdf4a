-------------------------------- MODULE Dag --------------------------------
(***************************************************************************)
(* The Dag of conductor/core/dag.py, as workflow publication uses it: the  *)
(* submitted dependency mapping is built into an adjacency list            *)
(* (from_dependencies), Kahn's algorithm orders it (topological_order),    *)
(* and when that gets stuck an iterative colouring depth-first search      *)
(* finds the cycle to report (_find_cycle). One action per iteration of    *)
(* each loop, over every submission the constants allow.                   *)
(***************************************************************************)
EXTENDS Integers, FiniteSets, Sequences, SequencesExt

CONSTANTS
    NodeOrder,      \* the keys of the submitted mapping, in insertion order
    ParentLists     \* the dependency lists a node may be submitted with

Vertices == ToSet(NodeOrder)

\* The keys of a mapping differ, and a dependency list is a list.
ASSUME SubmissionAssumption ==
    /\ NodeOrder \in Seq(Vertices)
    /\ \A i, j \in 1..Len(NodeOrder) : NodeOrder[i] = NodeOrder[j] => i = j
    /\ \A l \in ParentLists : l \in Seq(ToSet(l))

VARIABLES
    dependencies,   \* the submission: Vertices -> the list it depends on
    children,       \* _children: Vertices -> list of nodes
    parents,        \* _parents
    pc,             \* the loop that is running, or how the call ended
    line,           \* how many keys of the mapping the loop has handled
    in_degree, queue, order,        \* locals of topological_order
    colour, stack, path,            \* locals of _find_cycle
    cycle                           \* CycleError.cycle

graph == <<dependencies, children, parents, line>>
kahn == <<in_degree, queue, order>>
dfs == <<colour, stack, path>>
graph_vars == <<graph, kahn, dfs, pc, cycle>>

\* Before the call, whatever is submitted.
GraphStart ==
    /\ children = [n \in Vertices |-> <<>>]
    /\ parents = [n \in Vertices |-> <<>>]
    /\ pc = "building"
    /\ line = 0
    /\ in_degree = [n \in Vertices |-> 0]
    /\ queue = <<>>
    /\ order = <<>>
    /\ colour = [n \in Vertices |-> "white"]
    /\ stack = <<>>
    /\ path = <<>>
    /\ cycle = <<>>

GraphInit == dependencies \in [Vertices -> ParentLists] /\ GraphStart

-----------------------------------------------------------------------------
(* from_dependencies: every key is a node before the first edge is added.  *)

Node == NodeOrder[line + 1]

\* The first parent in the list that add_edge refuses, 0 when it takes them all.
FirstBad(n) ==
    LET bad == {i \in 1..Len(dependencies[n]) :
                    dependencies[n][i] \notin Vertices \/ dependencies[n][i] = n}
    IN  IF bad = {} THEN 0 ELSE CHOOSE i \in bad : \A j \in bad : i <= j

\* s.index(x)
First(s, x) == CHOOSE i \in 1..Len(s) : s[i] = x /\ \A j \in 1..(i - 1) : s[j] # x

\* The list of T's members in the order in which they first come in s, as the one
\* element of a set.
InOrder(s, T) ==
    {t \in SetToSeqs(T) :
        \A i, j \in 1..Len(t) : i < j => First(s, t[i]) < First(s, t[j])}

\* A mistake: a parent listed twice is an edge twice.
DistinctParentsKeepsAll(n) == {dependencies[n]}

\* add_edge on each parent of the list: a duplicate edge is added once.
DistinctParents(n) == InOrder(dependencies[n], ToSet(dependencies[n]))

add_edges ==
    /\ pc = "building"
    /\ line < Len(NodeOrder)
    /\ FirstBad(Node) = 0
    /\ children' = [n \in Vertices |-> IF Contains(dependencies[Node], n)
                                    THEN Append(children[n], Node)
                                    ELSE children[n]]
    /\ \E ps \in DistinctParents(Node) : parents' = [parents EXCEPT ![Node] = ps]
    /\ line' = line + 1
    /\ UNCHANGED <<dependencies, kahn, dfs, pc, cycle>>

\* UnknownNodeError, or CycleError for a task that depends on itself.
add_edge_rejected ==
    /\ pc = "building"
    /\ line < Len(NodeOrder)
    /\ FirstBad(Node) # 0
    /\ IF dependencies[Node][FirstBad(Node)] \notin Vertices
         THEN pc' = "unknown_node" /\ UNCHANGED cycle
         ELSE pc' = "cycle" /\ cycle' = <<Node, Node>>
    /\ UNCHANGED <<graph, kahn, dfs>>

-----------------------------------------------------------------------------
(* topological_order.                                                      *)

in_degrees == [n \in Vertices |-> Len(parents[n])]

start_order ==
    /\ pc = "building"
    /\ line = Len(NodeOrder)
    /\ in_degree' = in_degrees
    /\ queue' \in InOrder(NodeOrder, {n \in Vertices : in_degrees[n] = 0})
    /\ pc' = "ordering"
    /\ UNCHANGED <<graph, order, dfs, cycle>>

\* The children whose last unordered parent is node.
NewlyFree(node) ==
    InOrder(children[node], {c \in ToSet(children[node]) : in_degree[c] = 1})

order_next ==
    LET node == Head(queue)
    IN  /\ pc = "ordering"
        /\ queue # <<>>
        /\ order' = Append(order, node)
        /\ in_degree' = [n \in Vertices |-> IF Contains(children[node], n)
                                         THEN in_degree[n] - 1
                                         ELSE in_degree[n]]
        /\ \E free \in NewlyFree(node) : queue' = Tail(queue) \o free
        /\ UNCHANGED <<graph, dfs, pc, cycle>>

AllOrdered == Len(order) = Len(NodeOrder)

end_order ==
    /\ pc = "ordering"
    /\ queue = <<>>
    /\ pc' = IF AllOrdered THEN "ordered" ELSE "searching"
    /\ UNCHANGED <<graph, kahn, dfs, cycle>>

-----------------------------------------------------------------------------
(* _find_cycle. The top of the stack is its last element; indexes into a   *)
(* node's children count from 0, as in the code.                           *)

\* The for loop's next white start.
NextWhite ==
    NodeOrder[CHOOSE i \in 1..Len(NodeOrder) :
                /\ colour[NodeOrder[i]] = "white"
                /\ \A j \in 1..(i - 1) : colour[NodeOrder[j]] # "white"]

\* With no white node left, the AssertionError.
start_search ==
    /\ pc = "searching"
    /\ stack = <<>>
    /\ IF \A n \in Vertices : colour[n] # "white"
         THEN pc' = "assertion" /\ UNCHANGED dfs
         ELSE /\ stack' = <<[node |-> NextWhite, index |-> 0]>>
              /\ path' = <<NextWhite>>
              /\ colour' = [colour EXCEPT ![NextWhite] = "grey"]
              /\ UNCHANGED pc
    /\ UNCHANGED <<graph, kahn, cycle>>

Here == Last(stack)

\* A back edge: the child is still on the path.
ClosesCycle(child) == colour[child] = "grey"

visit_child ==
    /\ pc = "searching"
    /\ stack # <<>>
    /\ Here.index < Len(children[Here.node])
    /\ LET child    == children[Here.node][Here.index + 1]
           advanced == [stack EXCEPT ![Len(stack)].index = @ + 1]
       IN  IF ClosesCycle(child)
             THEN /\ cycle' = Append(SubSeq(path, First(path, child), Len(path)), child)
                  /\ pc' = "cycle"
                  /\ stack' = advanced
                  /\ UNCHANGED <<path, colour>>
             ELSE /\ IF colour[child] = "white"
                       THEN /\ colour' = [colour EXCEPT ![child] = "grey"]
                            /\ stack' = Append(advanced, [node |-> child, index |-> 0])
                            /\ path' = Append(path, child)
                       ELSE /\ stack' = advanced
                            /\ UNCHANGED <<path, colour>>
                  /\ UNCHANGED <<pc, cycle>>
    /\ UNCHANGED <<graph, kahn>>

\* A mistake: the path is not shortened when a node is finished.
ShortenedNever(s) == s

\* list.pop()
Shortened(s) == Front(s)

finish_node ==
    /\ pc = "searching"
    /\ stack # <<>>
    /\ Here.index >= Len(children[Here.node])
    /\ colour' = [colour EXCEPT ![Here.node] = "black"]
    /\ stack' = Front(stack)
    /\ path' = Shortened(path)
    /\ UNCHANGED <<graph, kahn, pc, cycle>>

GraphNext ==
    \/ add_edges \/ add_edge_rejected
    \/ start_order \/ order_next \/ end_order
    \/ start_search \/ visit_child \/ finish_node

\* One thread runs the call to its end.
GraphSpec == GraphInit /\ [][GraphNext]_graph_vars /\ WF_graph_vars(GraphNext)

-----------------------------------------------------------------------------
(* Properties. The reference looks only at the submission.                 *)

Edge(p, n) == Contains(dependencies[n], p)

\* Every set of tasks has one that waits for none of them.
Acyclic ==
    \A S \in (SUBSET Vertices) \ {{}} : \E n \in S : \A p \in S : ~Edge(p, n)

\* An order is returned only for a submission without a cycle, and it starts
\* no task before one it depends on and leaves none out.
OrderIsTopological ==
    pc = "ordered" =>
        /\ Acyclic
        /\ ToSet(order) = Vertices
        /\ \A i, j \in 1..Len(order) :
             /\ order[i] = order[j] => i = j
             /\ Edge(order[i], order[j]) => i < j

\* The cycle a CycleError names is one of the submission's: closed, every step
\* an edge, and no node on it twice.
CycleIsReal ==
    pc = "cycle" =>
        /\ Len(cycle) >= 2
        /\ cycle[1] = cycle[Len(cycle)]
        /\ \A i \in 1..(Len(cycle) - 1) :
             /\ Edge(cycle[i], cycle[i + 1])
             /\ \A j \in 1..(Len(cycle) - 1) : cycle[i] = cycle[j] => i = j

\* Whichever of the two topological_order gives is right of the submission.
AnswerIsRight == OrderIsTopological /\ CycleIsReal

\* How a call may end: with an order, or with an error for what the submission is.
Judged ==
    \/ pc = "ordered"
    \/ pc = "unknown_node" /\ \E n \in Vertices : ~(ToSet(dependencies[n]) \subseteq Vertices)
    \/ pc = "cycle" /\ ~Acyclic

\* A submission is never refused without reason: the search that follows a stuck
\* order always ends with a cycle, never in the AssertionError.
EverySubmissionIsJudged == <>Judged
=============================================================================
