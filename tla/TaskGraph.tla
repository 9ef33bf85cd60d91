------------------------------- MODULE TaskGraph -------------------------------
(***************************************************************************)
(* The body of a runbook or of a blueprint's action, from the program the  *)
(* user writes to the DAG the server runs and back: compilation            *)
(* (builtins/models/node_visitor.py, create_edges of runbook.py), `calm    *)
(* decompile` (get_task_order of decompile/action.py and runbook.py,       *)
(* task_tree.py, decompile_helpers.py), and compilation of the text that   *)
(* gives.  Tasks are numbered; scripts, targets, variables and the names   *)
(* of the generated meta tasks are left out.                               *)
(***************************************************************************)
EXTENDS Naturals, SequencesExt

CONSTANTS
    Program     \* bound: the programs that are written

VARIABLES
    entity,     \* what the program is the body of
    program,    \* the program, as the user wrote it
    stage,      \* how far it has come
    payload,    \* the DAG compiled from the program
    text,       \* the program decompiled from that DAG
    recompiled  \* the DAG compiled from that text

vars == <<entity, program, stage, payload, text, recompiled>>

-----------------------------------------------------------------------------
(* A program is a sequence of lines, as Python reads it: the block a line   *)
(* opens are the lines below it that are indented deeper.  The items of a   *)
(* block are tasks, `with parallel():` over tasks ("together"), `with      *)
(* parallel() as p:` over `with branch(p):` blocks, decisions d over `if    *)
(* d.ok:` and `else:`, and loops; or there is a `pass`.                     *)

\* A line; var numbers the variable that `as` names, or that branch or if uses.
Line(indent, word, name, var) == [indent |-> indent, word |-> word, name |-> name, var |-> var]

Calls == {"task", "decision", "loop"}       \* what has a name
Special == {"decision", "loop"}             \* what generates meta tasks
Visitors == {"branch", "if", "else", "loop"}    \* whose block a visitor of its own takes
Items == Calls \cup {"together", "parallel"}

Encloses(t, i, k) == i < k /\ \A l \in (i + 1) .. k : t[l].indent > t[i].indent
Within(t, i, k) == i = k \/ Encloses(t, i, k)
Child(t, i, k) == Encloses(t, i, k) /\ t[k].indent = t[i + 1].indent
\* i and k are lines of the same block, and i comes first.
Level(t, i, k) ==
    /\ i < k /\ t[i].indent = t[k].indent
    /\ \A l \in (i + 1) .. k : t[l].indent >= t[i].indent
Inside(t, words, k) == \E i \in 1 .. (k - 1) : t[i].word \in words /\ Encloses(t, i, k)

\* Python can parse it.
Legible(t) ==
    /\ t # <<>> /\ t[1].indent = 0
    /\ \A k \in 2 .. Len(t) : t[k].indent > t[k - 1].indent \/ \E i \in 1 .. (k - 1) : Level(t, i, k)
    /\ \A k \in DOMAIN t :
           t[k].word \notin {"task", "pass"} <=> k < Len(t) /\ t[k + 1].indent > t[k].indent

\* i comes before k in a block whose items follow one another.
Precedes(t, i, k) ==
    /\ Level(t, i, k) /\ t[i].word \in Items /\ t[k].word \in Items
    /\ ~Inside(t, {"together"}, i)

\* The names of some lines, as they are written.
NamesOf(t, lines) ==
    LET order == SelectSeq([k \in DOMAIN t |-> k], LAMBDA k : k \in lines)
    IN [i \in DOMAIN order |-> t[order[i]].name]

-----------------------------------------------------------------------------
(* Compilation.                                                            *)

\* What stands in a block: `with parallel` over tasks or over branches that
\* use its variable, a decision over its two paths.
WellFormed(t) ==
    \A k \in DOMAIN t :
        LET block == {l \in DOMAIN t : Child(t, k, l)}
            Uses(l, word) == t[l].word = word /\ t[l].var = t[k].var
        IN /\ t[k].word = "together" => \A l \in block : t[l].word = "task"
           /\ t[k].word = "parallel" => \A l \in block : Uses(l, "branch")
           /\ t[k].word = "decision" =>
                  \E i, j \in block : i < j /\ block = {i, j} /\ Uses(i, "if") /\ Uses(j, "else")
           /\ t[k].word \in {"branch", "if", "else"} =>
                  \E i \in DOMAIN t : Child(t, i, k) /\ t[i].word = IF t[k].word = "branch" THEN "parallel" ELSE "decision"

\* The GetCallNodes that visits a line: that of the innermost block with one
\* of its own, or else the outermost, 0.
Visitor(t, k) == Max({0} \cup {i \in 1 .. (k - 1) : t[i].word \in Visitors /\ Encloses(t, i, k)})
IsRunbook(t, k) == entity = "runbook" \/ Visitor(t, k) # 0
IsMetatask(t, k) == Visitor(t, k) # 0 /\ t[Visitor(t, k)].word # "branch"
IsBranchPresent(t) == \E k \in DOMAIN t : t[k].word = "branch"

\* visit_With: whether every block is one the visitor takes where it stands.
Accepts(t) ==
    /\ WellFormed(t)
    /\ \A k \in DOMAIN t :
           CASE t[k].word = "together" -> ~IsRunbook(t, k) /\ ~IsBranchPresent(t)
             [] t[k].word = "parallel" -> (IsRunbook(t, k) \/ IsBranchPresent(t)) /\ ~IsMetatask(t, k)
             [] t[k].word = "branch" -> \E l \in DOMAIN t : Child(t, k, l) /\ t[l].word \in Items
             [] t[k].word \in Special -> IsRunbook(t, k)
             [] OTHER -> TRUE

\* The tasks of the graph: those outside decisions and loops.
GraphLines(t) == {k \in DOMAIN t : t[k].word \in Calls /\ ~Inside(t, Special, k)}

\* create_edges: the tasks just before k, whose edges lead to it.  They are
\* those of the last item before k or before a block k is in, because
\* create_edges hands them down to the first tasks of branches.
\* Mutant: they are not handed down.
From_NoFromTask(t, k) ==
    LET prior == {i \in 1 .. (k - 1) :
                     \E b \in (i + 1) .. k : t[b].word # "parallel" /\ Within(t, b, k) /\ Precedes(t, i, b)}
    IN {f \in GraphLines(t) : prior # {} /\ Within(t, Max(prior), f)}
From(t, k) ==
    LET prior == {i \in 1 .. (k - 1) : \E b \in (i + 1) .. k : Within(t, b, k) /\ Precedes(t, i, b)}
    IN {f \in GraphLines(t) : prior # {} /\ Within(t, Max(prior), f)}

CreateEdges(t) ==
    FlattenSeq([k \in DOMAIN t |->
        LET from == IF k \in GraphLines(t) THEN From(t, k) ELSE {}
        IN FlattenSeq([f \in DOMAIN t |->
               IF f \in from THEN << <<t[f].name, t[k].name>> >> ELSE <<>>])])

\* Where it raises: an item after a parallel block with branches.
\* Mutant: the tasks before a parallel block are taken for the ones after it.
Raises_Before(t) == \E i, k \in DOMAIN t : t[k].word = "parallel" /\ Precedes(t, i, k)
Raises(t) == \E i, k \in DOMAIN t : t[i].word = "parallel" /\ Precedes(t, i, k)

\* The decisions and loops with the tasks of their paths, which
\* handle_meta_create makes the children of meta tasks.
Block(t, b) == NamesOf(t, {k \in DOMAIN t : t[k].word \in Calls /\ Child(t, b, k)})
Paths(t, k) ==
    IF t[k].word = "loop" THEN <<Block(t, k)>>
    ELSE FlattenSeq([b \in DOMAIN t |-> IF Child(t, k, b) THEN <<Block(t, b)>> ELSE <<>>])
MetaTasks(t) ==
    {[word |-> t[k].word, name |-> t[k].name, paths |-> Paths(t, k)] :
        k \in {l \in DOMAIN t : t[l].word \in Special}}

\* runbook.__get__: the visitor, then create_edges, then the dag task.  In the
\* code a decision comes after what is in it; nothing reads that order.
Fails(t) == ~Legible(t) \/ ~Accepts(t) \/ Raises(t)
Compiled(t) ==
    LET tasks == {k \in DOMAIN t : t[k].word \in Calls}
    IN [edges |-> CreateEdges(t),
        child |-> NamesOf(t, IF entity = "runbook" THEN GraphLines(t) ELSE tasks),
        tasks |-> NamesOf(t, tasks),
        metas |-> MetaTasks(t)]
NoPayload == [edges |-> <<>>, child |-> <<>>, tasks |-> <<>>, metas |-> {}]

-----------------------------------------------------------------------------
(* Decompilation.                                                          *)

Root == 0
WordOf(dag, t) == IF \E m \in dag.metas : m.name = t
                  THEN (CHOOSE m \in dag.metas : m.name = t).word ELSE "task"
PathsOf(dag, t) == (CHOOSE m \in dag.metas : m.name = t).paths

\* get_task_order: the tasks outside decisions and loops, ...
\* Mutant: the tasks inside decisions and loops stay in the task list.
GraphTasks_All(dag) == dag.tasks
GraphTasks(dag) ==
    SelectSeq(dag.tasks, LAMBDA t : \A m \in dag.metas : \A j \in DOMAIN m.paths : ~Contains(m.paths[j], t))

Successors(dag, t) ==
    LET out == SelectSeq(dag.edges, LAMBDA e : e[1] = t) IN [i \in DOMAIN out |-> out[i][2]]

Sources(dag) ==
    SelectSeq(GraphTasks(dag), LAMBDA t : \A i \in DOMAIN dag.edges : dag.edges[i][2] # t)

\* ... and task_child_map: the children of a task at a depth, as <<task, depth,
\* child>>, ...
ChildrenOf(map, key) ==
    LET out == SelectSeq(map, LAMBDA e : <<e[1], e[2]>> = key) IN [i \in DOMAIN out |-> out[i][3]]

\* ... found by taking the (task, depth) keys from a queue.
TaskChildMap(dag) ==
    LET start == [i \in DOMAIN Sources(dag) |-> <<Root, 0, Sources(dag)[i]>>]
        Put(acc, entry) ==
            LET key == <<entry[1], entry[2]>>
            IN [map |-> Append(acc.map, entry),
                queue |-> IF ChildrenOf(acc.map, key) = <<>> THEN Append(acc.queue, key) ELSE acc.queue]
        walk[queue \in Seq(Nat \X Nat), map \in Seq(Nat \X Nat \X Nat)] ==
            IF queue = <<>> THEN map
            ELSE LET children == ChildrenOf(map, Head(queue))
                     entries == FlattenSeq([i \in DOMAIN children |->
                         LET out == Successors(dag, children[i])
                         IN [j \in DOMAIN out |-> <<children[i], Head(queue)[2] + 1, out[j]>>]])
                     next == FoldLeft(Put, [map |-> map, queue |-> Tail(queue)], entries)
                 IN walk[next.queue, next.map]
    IN walk[<< <<Root, 0>> >>, start]

\* IndentHelper.generate_indents: a task, a decision or a loop with what is in
\* it; opener is the `if` or the `else` above the first task of a path.
Lines(dag, task, start) ==
    LET lines[t \in Nat, indent \in Nat, depth \in Nat, opener \in {"", "if", "else"}] ==
            LET Path(j, in, word) ==
                    LET path == PathsOf(dag, t)[j]
                    IN FlattenSeq([i \in DOMAIN path |->
                           lines[path[i], in, depth + 1, IF i = 1 THEN word ELSE ""]])
                above == IF opener = "" THEN <<>> ELSE <<Line(indent - 1, opener, 0, depth - 1)>>
            IN above \o
               CASE WordOf(dag, t) = "task" -> <<Line(indent, "task", t, 0)>>
                 [] WordOf(dag, t) = "decision" ->
                        <<Line(indent, "decision", t, depth)>>
                        \o Path(1, indent + 2, "if") \o Path(2, indent + 2, "else")
                 [] WordOf(dag, t) = "loop" -> <<Line(indent, "loop", t, 0)>> \o Path(1, indent + 1, "")
    IN lines[task, start, 0, ""]

\* generate_task_tree; task_tree.py.jinja2 writes a line for each indent it sets.
Decompiled(dag) ==
    LET map == TaskChildMap(dag)
        tree[visited \in SUBSET Nat, current \in Nat, parent \in Nat, depth \in Nat, parentIndent \in Nat] ==
            LET isBranchRequired == current # Root /\ Len(ChildrenOf(map, <<parent, depth - 1>>)) > 1
                isFirst == parent \notin visited
                indent == IF isBranchRequired THEN parentIndent + 2 ELSE parentIndent
                here == IF current = Root THEN <<>>
                        ELSE (IF isBranchRequired /\ isFirst
                              THEN <<Line(parentIndent, "parallel", 0, depth - 1)>> ELSE <<>>)
                             \o (IF isBranchRequired
                                 THEN <<Line(parentIndent + 1, "branch", 0, depth - 1)>> ELSE <<>>)
                             \o Lines(dag, current, indent)
                Visit(acc, child) ==
                    LET below == tree[acc.visited, child, current, depth + 1, indent]
                    IN [visited |-> below.visited, lines |-> acc.lines \o below.lines]
            IN FoldLeft(Visit,
                        [visited |-> IF current = Root THEN visited ELSE visited \cup {parent}, lines |-> here],
                        ChildrenOf(map, <<current, depth>>))
    IN tree[{}, Root, Root, 0, 0].lines

\* A decision without tasks on one of its paths has no such key (task_tree.py:35).
PathMissing(dag) ==
    \E m \in dag.metas : m.word = "decision" /\ \E j \in DOMAIN m.paths : m.paths[j] = <<>>

\* What is written can be parsed, puts into its blocks what belongs there, and
\* gives every task a name of its own: references and dictionaries go by name.
ASSUME ProgramAssumption ==
    \A t \in Program :
        /\ t \in Seq([indent : Nat, word : Items \cup Visitors \cup {"pass"}, name : Nat, var : Nat])
        /\ Legible(t) /\ WellFormed(t)
        /\ \A i, k \in DOMAIN t : t[i].word \in Calls /\ t[k].word \in Calls =>
               t[i].name # Root /\ (t[i].name = t[k].name => i = k)

-----------------------------------------------------------------------------
(* `calm compile` or `calm create`, `calm decompile`, and `calm compile` on *)
(* the file decompile wrote.                                               *)

Init ==
    /\ entity \in {"runbook", "action"}
    /\ program \in Program
    /\ stage = "written"
    /\ payload = NoPayload /\ text = <<>> /\ recompiled = NoPayload

Compile ==
    /\ stage = "written" /\ ~Fails(program)
    /\ stage' = "compiled"
    /\ payload' = Compiled(program)
    /\ UNCHANGED <<entity, program, text, recompiled>>

Reject ==
    /\ stage = "written" /\ Fails(program)
    /\ stage' = "rejected"
    /\ UNCHANGED <<entity, program, payload, text, recompiled>>

Decompile ==
    /\ stage = "compiled" /\ ~PathMissing(payload)
    /\ stage' = "decompiled"
    /\ text' = Decompiled(payload)
    /\ UNCHANGED <<entity, program, payload, recompiled>>

DecompileFails ==   \* KeyError
    /\ stage = "compiled" /\ PathMissing(payload)
    /\ stage' = "failed"
    /\ UNCHANGED <<entity, program, payload, text, recompiled>>

Recompile ==
    /\ stage = "decompiled" /\ ~Fails(text)
    /\ stage' = "recompiled"
    /\ recompiled' = Compiled(text)
    /\ UNCHANGED <<entity, program, payload, text>>

RecompileFails ==
    /\ stage = "decompiled" /\ Fails(text)
    /\ stage' = "unreadable"
    /\ UNCHANGED <<entity, program, payload, text, recompiled>>

Next == Compile \/ Reject \/ Decompile \/ DecompileFails \/ Recompile \/ RecompileFails

Spec == Init /\ [][Next]_vars

-----------------------------------------------------------------------------
\* What the program says must happen first: the order between the tasks of
\* the graph that writing one after the other means.
Before(t) ==
    {<<t[p[1]].name, t[p[2]].name>> :
        p \in {q \in GraphLines(t) \X GraphLines(t) :
                  \E i, k \in DOMAIN t : Precedes(t, i, k) /\ Within(t, i, q[1]) /\ Within(t, k, q[2])}}

\* The pairs of names a path of edges leads from and to: whatever set holds
\* all that the first and its own members have edges to, holds the second.
Reach(edges, names) ==
    {p \in names \X names :
        \A closed \in SUBSET names :
            (\A e \in edges : e[1] \in {p[1]} \cup closed => e[2] \in closed) => p[2] \in closed}

\* The edges create_edges makes put the tasks in the order the program does:
\* no order is lost, and nothing waits that need not.
EdgesKeepOrder ==
    stage = "compiled" =>
        Reach(ToSet(payload.edges), {program[k].name : k \in GraphLines(program)}) = Before(program)

\* A program that puts nothing after a parallel block with branches, leaves no
\* branch empty and uses only what its entity supports is compiled.
Plain ==
    \A k \in DOMAIN program :
        /\ program[k].word = "parallel" =>
               /\ \A l \in DOMAIN program : Level(program, k, l) => program[l].word = "pass"
               /\ ~Inside(program, Special, k)
        /\ program[k].word = "branch" => \E l \in DOMAIN program : Child(program, k, l) /\ program[l].word # "pass"
Uses(words) == \E k \in DOMAIN program : program[k].word \in words
Supported ==
    CASE entity = "runbook" -> ~Uses({"together"})
      [] entity = "action" -> ~Uses(Special) /\ ~(Uses({"parallel"}) /\ Uses({"together"}))
PlainProgramsCompile == stage = "rejected" => ~(Plain /\ Supported)

\* What decompile promises, for the programs its documentation supports (no
\* task with two parents; no decision or loop in an action) and without an
\* empty path or loop: the text compiles to the payload it came from.
IsTree == \A i, j \in DOMAIN payload.edges : payload.edges[i][2] = payload.edges[j][2] => i = j
NothingEmpty == \A m \in payload.metas : \A j \in DOMAIN m.paths : m.paths[j] # <<>>
Same(d, e) ==
    /\ ToSet(d.edges) = ToSet(e.edges) /\ Len(d.edges) = Len(e.edges)
    /\ ToSet(d.tasks) = ToSet(e.tasks) /\ Len(d.tasks) = Len(e.tasks)
    /\ d.metas = e.metas
DecompileKeepsProgram ==
    (stage \in {"failed", "recompiled", "unreadable"} /\ Supported /\ IsTree /\ NothingEmpty) =>
        stage = "recompiled" /\ Same(payload, recompiled)
=============================================================================
