------------------------------- MODULE CallTree -------------------------------
(***************************************************************************)
(* The "call" analysis of nested-trace (call_class in two-event.c): from   *)
(* two(A, B), "in function A, call function B", and two(A, NULL), "first   *)
(* call A", it keeps one tree of functions.  A function has one place in   *)
(* the tree, under the caller seen last; before a function moves the tree  *)
(* is printed.  Recursive calls do not move anything.                      *)
(***************************************************************************)
EXTENDS Naturals, Sequences, FiniteSets, SequencesExt

CONSTANT Functions      \* the traced functions

VARIABLES
  parents,        \* caller->parent
  callees,       \* caller->callee_head
  caller_head,   \* the roots
  depth,         \* caller->depth
  recursive,     \* caller->recursive
  calls,         \* call_class->calls, whether it is not 0
  called,        \* history: functions that were called
  shown          \* history: the calls since the last print, <<NoOne, A>> for a first call

vars == <<parents, callees, caller_head, depth, recursive, calls, called, shown>>

NoOne == "none"

(* mutation: only a function that calls itself is recursive *)
IsItself(caller, callee) == caller = callee

(* call_recursive(): the callee is the caller or one of its ancestors. *)
RECURSIVE IsAncestor(_, _)
IsAncestor(caller, callee) ==
  caller # NoOne /\ (caller = callee \/ IsAncestor(parents[caller], callee))

(* call_update_depth(): the depths below f, which gets depth d. *)
RECURSIVE UpdateDepth(_, _, _)
UpdateDepth(dep, f, d) ==
  FoldLeft(LAMBDA acc, g : UpdateDepth(acc, g, d + 1), [dep EXCEPT ![f] = d], callees[f])

(* call_class_print(): the tree is printed if there were calls. *)
Printed(history) == IF calls THEN {} ELSE history

(* call_link() of two(A, NULL): A becomes a root. *)
FirstCall(a) ==
  LET linked == parents[a] # NoOne
  IN  /\ callees' = IF linked THEN [callees EXCEPT ![parents[a]] = Remove(@, a)] ELSE callees
      /\ parents' = [parents EXCEPT ![a] = NoOne]
      /\ depth' = IF linked THEN UpdateDepth(depth, a, 0) ELSE depth
      /\ caller_head' = IF Contains(caller_head, a) THEN caller_head ELSE Append(caller_head, a)
      /\ shown' = (IF linked THEN Printed(shown) ELSE shown) \cup {<<NoOne, a>>}
      /\ calls' = TRUE
      /\ called' = called \cup {a}
      /\ UNCHANGED recursive

(* call_link() of two(A, B): B moves below A. *)
Call(a, b) ==
  LET rec   == IsAncestor(a, b)
      moves == parents[b] # a /\ ~rec
      old   == parents[b]
      left  == IF old = NoOne THEN callees ELSE [callees EXCEPT ![old] = Remove(@, b)]
      first == old # NoOne \/ Contains(caller_head, b)
  IN  /\ a \in called
      /\ recursive' = [recursive EXCEPT ![a] = rec]
      /\ callees' = IF moves THEN [left EXCEPT ![a] = Append(@, b)] ELSE callees
      /\ caller_head' = IF moves THEN Remove(caller_head, b) ELSE caller_head
      /\ parents' = IF moves THEN [parents EXCEPT ![b] = a] ELSE parents
      /\ depth' = IF moves THEN UpdateDepth(depth, b, depth[a] + 1) ELSE depth
      /\ shown' = (IF moves /\ first THEN Printed(shown) ELSE shown)
                    \cup (IF rec THEN {} ELSE {<<a, b>>})
      /\ calls' = TRUE
      /\ called' = called \cup {b}

(* call_print_header(), at every interval. *)
PrintHeader ==
  /\ calls
  /\ shown' = {} /\ calls' = FALSE
  /\ UNCHANGED <<parents, callees, caller_head, depth, recursive, called>>

Init ==
  /\ parents = [f \in Functions |-> NoOne]
  /\ callees = [f \in Functions |-> << >>]
  /\ caller_head = << >>
  /\ depth = [f \in Functions |-> 0]
  /\ recursive = [f \in Functions |-> FALSE]
  /\ calls = FALSE /\ called = {} /\ shown = {}

Next == \/ \E a \in Functions : FirstCall(a)
        \/ \E a, b \in Functions : Call(a, b)
        \/ PrintHeader
-----------------------------------------------------------------------------
(* call_class_iterate(): the functions as they are printed, with depths.   *)
RECURSIVE Walk(_)
Walk(f) == FoldLeft(LAMBDA acc, g : acc \o Walk(g), <<f>>, callees[f])
WholeTree == FoldLeft(LAMBDA acc, f : acc \o Walk(f), << >>, caller_head)

RECURSIVE Level(_)
Level(f) == IF parents[f] = NoOne THEN 0 ELSE 1 + Level(parents[f])

(* Whatever calls are seen, call_link() keeps a forest: printing it ends,  *)
(* shows every function that was called exactly once and indents it by the *)
(* number of its callers in the tree.  No call gets lost between two       *)
(* prints: every first call and every call that is not recursive is in the *)
(* tree, because call_link() prints the tree before it moves a function    *)
(* that already has a place.                                               *)
TreePrinted ==
  /\ Len(WholeTree) = Cardinality(called) /\ ToSet(WholeTree) = called
  /\ \A f \in called : depth[f] = Level(f)
  /\ \A e \in shown : IF e[1] = NoOne THEN Contains(caller_head, e[2]) ELSE parents[e[2]] = e[1]
=============================================================================
