---------------------------- MODULE LongestPath ----------------------------
(***************************************************************************)
(* ASA/proj2/longest_path.cpp: the strongly connected components of a      *)
(* graph after Kosaraju and Sharir, a graph without cycles made from them, *)
(* and the longest path in that.  adjList[v] holds the neighbours of v in  *)
(* the order of the input; a search carries the set visited along.         *)
(***************************************************************************)
EXTENDS Naturals, Sequences, SequencesExt

Vertices(adjList) == DOMAIN adjList

addEdge(adjList, v, w) == [adjList EXCEPT ![v] = Append(@, w)]

\* Vertices are put on the stack as they are left; its top comes first.
RECURSIVE dfs1(_, _, _)
dfs1(adjList, s, i) ==
  LET Visit(t, j) == IF j \in t.visited THEN t ELSE dfs1(adjList, t, j)
      below == FoldLeft(Visit, [s EXCEPT !.visited = @ \union {i}], adjList[i])
  IN  [below EXCEPT !.stack = <<i>> \o @]

\* (Faulty variant for mutation: the edges keep their direction.)
ReverseNot(adjList) == adjList

reverse(adjList) ==
  LET From(t, i) == FoldLeft(LAMBDA u, j : addEdge(u, j, i), t, adjList[i])
  IN  FoldLeftDomain(From, [v \in Vertices(adjList) |-> <<>>], adjList)

RECURSIVE dfs2(_, _, _)
dfs2(transposed, s, i) ==
  LET Visit(t, j) == IF j \in t.visited THEN t ELSE dfs2(transposed, t, j)
  IN  FoldLeft(Visit, [s EXCEPT !.visited = @ \union {i}, !.sccArray[i] = s.sccCounter], transposed[i])

\* The first half of transformToDAG: sccArray and sccCounter.
Components(adjList) ==
  LET First(s, i)  == IF i \in s.visited THEN s ELSE dfs1(adjList, s, i)
      Second(s, i) == IF i \in s.visited THEN s
                      ELSE LET t == dfs2(reverse(adjList), s, i) IN [t EXCEPT !.sccCounter = @ + 1]
      mystack == FoldLeftDomain(First, [visited |-> {}, stack |-> <<>>], adjList).stack
  IN  FoldLeft(Second, [visited |-> {}, sccArray |-> [v \in Vertices(adjList) |-> 0], sccCounter |-> 1], mystack)

\* (Faulty variant for mutation: the last vertex is left out.)
DagShort(adjList, c) ==
  [i \in 1 .. c.sccCounter |->
     IF i + 1 < c.sccCounter THEN SelectSeq(adjList[i], LAMBDA j : c.sccArray[i] # c.sccArray[j]) ELSE <<>>]

\* The second half: the edges that leave their component, between vertices
\* still, of as many vertices as there are components.
Dag(adjList, c) ==
  [i \in 1 .. c.sccCounter |->
     IF i < c.sccCounter THEN SelectSeq(adjList[i], LAMBDA j : c.sccArray[i] # c.sccArray[j]) ELSE <<>>]

\* dp[i] = longest path from i on.  A vertex without a place in dag is read from
\* memory behind it: outside says that this has happened.
RECURSIVE dfs(_, _, _)
dfs(dag, s, vertex) ==
  LET Visit(t, nei) ==
        IF nei \notin DOMAIN dag THEN [t EXCEPT !.outside = TRUE]
        ELSE LET u == IF nei \in t.visited THEN t ELSE dfs(dag, t, nei)
             IN  [u EXCEPT !.dp[vertex] = Max({@, u.dp[nei] + 1})]
  IN  FoldLeft(Visit, [s EXCEPT !.visited = @ \union {vertex}], dag[vertex])

findLongestPath(dag) ==
  LET Start(s, vertex) == IF vertex \in s.visited \/ vertex = Len(dag) THEN s ELSE dfs(dag, s, vertex)
      s == FoldLeftDomain(Start, [visited |-> {}, dp |-> [i \in DOMAIN dag |-> 0], outside |-> FALSE], dag)
  IN  [longest |-> Max(Range(s.dp)), outside |-> s.outside]

LongestPathOf(adjList) == findLongestPath(Dag(adjList, Components(adjList)))
=============================================================================
