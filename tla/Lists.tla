-------------------------------- MODULE Lists --------------------------------
(* The lists of lib_lists: nodes in memory linked by next and, in a doubly linked list,
   by prev.  An operator takes the memory (with the head, "list" in the code) and returns
   it changed; the functions that may fail return it unchanged.  A client calls the
   exported functions one after the other; `expected` is what a sequence would be after
   the same calls.  Sorting takes one step per pass over the list, the do-while loop of
   sort_internal; every other call is one step. *)
EXTENDS Integers, Sequences, FiniteSets, SequencesExt

CONSTANTS Nodes,        \* the nodes of a client: 1, 2, ...
          ValueOf,      \* the value a node carries, which a client sorts by and compares
          Comparators   \* the comparison functions it sorts with: "lt" and "le"

ASSUME ListAssumption == Nodes \subseteq Nat \ {0} /\ ValueOf \in [Nodes -> Int]

VARIABLES mem,          \* [doubly, head, next, prev]
          expected,     \* the sequence of nodes the calls should have made
          sorting,      \* the comparator of the sort in progress
          passes        \* and the passes it has made

listVars == <<mem, expected, sorting, passes>>

Nil == 0
NotSorting == "none"

(* The nodes from the head on, as far as next leads. *)
Walk(m) ==
    LET from[k \in 0..Cardinality(Nodes)] ==
          IF k = 0 THEN m.head ELSE IF from[k - 1] = Nil THEN Nil ELSE m.next[from[k - 1]]
        flist_size == Cardinality({k \in 0..Cardinality(Nodes) : from[k] # Nil})
    IN  [k \in 1..flist_size |-> from[k - 1]]

InList(m) == ToSet(Walk(m))

(* Writes through a pointer that may be Nil are guarded in the code: Nil is no index. *)
SetPrev(m, n, p) == IF m.doubly /\ n # Nil THEN [m EXCEPT !.prev[n] = p] ELSE m

push_front_internal(m, node) ==
    LET linked == [m EXCEPT !.next[node] = m.head, !.head = node]
    IN  SetPrev(SetPrev(linked, m.head, node), node, Nil)

pop_front_internal(m) ==
    IF m.head = Nil THEN m
    ELSE SetPrev([m EXCEPT !.head = m.next[m.head]], m.next[m.head], Nil)

push_back_internal(m, node) ==
    IF m.head = Nil
    THEN SetPrev([m EXCEPT !.next[node] = Nil, !.head = node], node, Nil)
    ELSE LET last == Last(Walk(m))
         IN  SetPrev([m EXCEPT !.next[node] = Nil, !.next[last] = node], node, last)

(* The insertion as it would be if the node that follows kept its old predecessor. *)
insert_after_internal_Slip(m, ref, node) ==
    [SetPrev(m, node, ref) EXCEPT !.next[node] = m.next[ref], !.next[ref] = node]

insert_after_internal(m, ref, node) ==
    LET back == SetPrev(SetPrev(m, m.next[ref], node), node, ref)
    IN  [back EXCEPT !.next[node] = m.next[ref], !.next[ref] = node]

remove_internal(m, node) ==
    LET it == CHOOSE n \in InList(m) : m.next[n] = node
    IN  CASE m.head = Nil \/ node \notin InList(m) -> m
          [] node = m.head -> pop_front_internal(m)
          [] OTHER -> [SetPrev(m, m.next[node], m.prev[node]) EXCEPT !.next[it] = m.next[node]]

(* The loop reads the next node before it removes the current one. *)
remove_if_internal(m, value) ==
    LET Step(acc, node) == IF ValueOf[node] = value THEN remove_internal(acc, node) ELSE acc
    IN  FoldLeft(Step, m, Walk(m))

(* Each node that stays removes the equal ones right behind it. *)
unique_internal(m) ==
    LET Step(acc, node) ==
          LET before == CHOOSE n \in InList(acc) : acc.next[n] = node
          IN  IF node # acc.head /\ ValueOf[before] = ValueOf[node]
              THEN remove_internal(acc, node) ELSE acc
    IN  FoldLeft(Step, m, Walk(m))

reverse_internal(m) ==
    LET Step(acc, node) ==
          [last |-> node,
           m |-> SetPrev([acc.m EXCEPT !.next[node] = acc.last, !.head = node],
                         node, m.next[node])]
    IN  FoldLeft(Step, [last |-> Nil, m |-> m], Walk(m)).m

flist_pop_back(m) ==
    LET w == Walk(m)
    IN  IF Len(w) <= 1 THEN pop_front_internal(m)
        ELSE [m EXCEPT !.next[w[Len(w) - 1]] = Nil]

(* A node is put before the head only in a list whose head it is. *)
list_insert_before(m, ref, node) ==
    CASE m.prev[ref] # Nil -> insert_after_internal(m, m.prev[ref], node)
      [] m.head = ref -> push_front_internal(m, node)
      [] OTHER -> m

InOrder(cmp, a, b) == IF cmp = "lt" THEN ValueOf[a] < ValueOf[b] ELSE ValueOf[a] <= ValueOf[b]

(* One pass: the neighbours at every place in turn, swapped unless in order. *)
sort_internal_pass(m, cmp) ==
    LET Step(acc, k) ==
          LET w == Walk(acc.m)
              a == w[k]
              b == w[k + 1]
              c == acc.m.next[b]
              hooked == IF k = 1 THEN [acc.m EXCEPT !.head = b]
                                 ELSE [acc.m EXCEPT !.next[w[k - 1]] = b]
              swapped == [hooked EXCEPT !.next[a] = c, !.next[b] = a]
          IN  IF InOrder(cmp, a, b) THEN acc
              ELSE [sorted |-> FALSE,
                    m |-> SetPrev(SetPrev(SetPrev(swapped, b, acc.m.prev[a]), a, b), c, a)]
    IN  FoldLeft(Step, [sorted |-> TRUE, m |-> m], [k \in 1..(Len(Walk(m)) - 1) |-> k])

(***************************************************************************)
(* A client.  A node is in the list at most once, as the interface asks.   *)
(***************************************************************************)
ListInit ==
    /\ mem \in [doubly : BOOLEAN, head : {Nil},
                 next : {[n \in Nodes |-> Nil]}, prev : {[n \in Nodes |-> Nil]}]
    /\ expected = <<>>
    /\ sorting = NotSorting
    /\ passes = 0

(* The memory and the sequence after a call.  The client resets the links of the nodes
   that are out of the list ("must have node->next == NULL", lists.h). *)
Reset(m, links) == [n \in Nodes |-> IF n \in InList(m) THEN links[n] ELSE Nil]
Call(m, seq) ==
    /\ sorting = NotSorting
    /\ mem' = [m EXCEPT !.next = Reset(m, @), !.prev = Reset(m, @)]
    /\ expected' = seq
    /\ UNCHANGED <<sorting, passes>>

Loose == Nodes \ InList(mem)
PlaceOf(node) == CHOOSE i \in DOMAIN expected : expected[i] = node
Kept(T(_)) == SelectSeq(expected, T)

PushFront == \E n \in Loose : Call(push_front_internal(mem, n), <<n>> \o expected)
PushBack == \E n \in Loose : Call(push_back_internal(mem, n), Append(expected, n))
PopFront == Call(pop_front_internal(mem), IF expected = <<>> THEN <<>> ELSE Tail(expected))
PopBack == Call(flist_pop_back(mem), IF expected = <<>> THEN <<>> ELSE Front(expected))
InsertAfter ==
    \E n \in Loose, ref \in ToSet(expected) :
        Call(insert_after_internal(mem, ref, n), InsertAt(expected, PlaceOf(ref) + 1, n))
InsertBefore ==
    /\ mem.doubly
    /\ \E n \in Loose, ref \in ToSet(expected) :
         Call(list_insert_before(mem, ref, n), InsertAt(expected, PlaceOf(ref), n))
RemoveNode == \E n \in Nodes : Call(remove_internal(mem, n), Kept(LAMBDA x : x # n))
RemoveIf ==
    \E v \in Range(ValueOf) :
        Call(remove_if_internal(mem, v), Kept(LAMBDA x : ValueOf[x] # v))
Unique ==
    LET first == {i \in DOMAIN expected :
                    i = 1 \/ ValueOf[expected[i]] # ValueOf[expected[i - 1]]}
        nth(k) == CHOOSE i \in first : Cardinality({j \in first : j < i}) = k - 1
    IN  Call(unique_internal(mem), [k \in 1..Cardinality(first) |-> expected[nth(k)]])
ListReverse == Call(reverse_internal(mem), Reverse(expected))
(* flist_clear *)
Clear == Call([mem EXCEPT !.head = Nil], <<>>)

(* flist_sort or list_sort is called *)
Sort(cmp) ==
    /\ sorting = NotSorting
    /\ sorting' = cmp
    /\ UNCHANGED <<mem, expected, passes>>

SortPass ==
    LET pass == sort_internal_pass(mem, sorting)
        Before(i, j) == \/ ValueOf[expected[i]] < ValueOf[expected[j]]
                        \/ ValueOf[expected[i]] = ValueOf[expected[j]] /\ i < j
        nth(k) == CHOOSE i \in DOMAIN expected :
                    Cardinality({j \in DOMAIN expected : Before(j, i)}) = k - 1
    IN  /\ sorting # NotSorting
        /\ mem' = pass.m
        /\ sorting' = IF pass.sorted THEN NotSorting ELSE sorting
        /\ passes' = IF pass.sorted THEN 0 ELSE passes + 1
        /\ expected' = IF pass.sorted THEN [k \in DOMAIN expected |-> expected[nth(k)]]
                                      ELSE expected

ListNext ==
    \/ PushFront \/ PushBack \/ PopFront \/ PopBack \/ InsertAfter \/ InsertBefore
    \/ RemoveNode \/ RemoveIf \/ Unique \/ ListReverse \/ Clear
    \/ \E cmp \in Comparators : Sort(cmp)
    \/ SortPass

ListSpec == ListInit /\ [][ListNext]_listVars

(***************************************************************************)
(* Properties                                                              *)
(***************************************************************************)
(* Sorting ends: exchanging neighbours orders n nodes within n passes, after which
   sort_internal must see that nothing is left to do (lists.h of the comparison: "return
   true if a < b", of the call: "true on success"). *)
SortEnds == sorting # NotSorting => passes <= Len(expected)

(* Whatever was called before, the nodes reached from the head are the sequence that the
   same calls make of a sequence (sorted stably when sorting ends, which it does), and in
   a doubly linked list prev is the other direction of next, the head's being NULL: push,
   insert, remove, unique, sort and reverse leave no link behind. *)
ListMirrors ==
    LET w == Walk(mem)
    IN  /\ sorting = NotSorting => w = expected
        /\ ToSet(w) = ToSet(expected) /\ Len(w) = Len(expected)
        /\ mem.doubly => \A i \in DOMAIN w : mem.prev[w[i]] = IF i = 1 THEN Nil ELSE w[i - 1]
        /\ SortEnds
=============================================================================
