---------------------------- MODULE IntrusiveList ----------------------------
(***************************************************************************)
(* detail::intrusive_list: singly linked lists with a head and a tail,     *)
(* whose nodes belong to their users.  A wait queue and its resume_*       *)
(* functions hold several lists at once and move nodes between them, so    *)
(* the module has a set of lists over one set of nodes.                    *)
(*                                                                         *)
(* contents is what the other modules take a list for, a sequence of       *)
(* nodes.  No step reads it except to say what a user may ask: a node is   *)
(* given to push_back only while it is in no list.                         *)
(***************************************************************************)
EXTENDS Naturals, Sequences

CONSTANTS Node, List

nullptr == CHOOSE p : p \notin Node

VARIABLES next,             \* node -> the node after it
          m_head, m_tail,   \* list -> its first and its last node
          contents          \* list -> the sequence of nodes it stands for

listVars == <<next, m_head, m_tail, contents>>

ListTypeOK == /\ next \in [Node -> Node \cup {nullptr}]
              /\ m_head \in [List -> Node \cup {nullptr}]
              /\ m_tail \in [List -> Node \cup {nullptr}]
              /\ contents \in [List -> Seq(Node)]

ListInit == /\ next = [x \in Node |-> nullptr]
            /\ m_head = [l \in List |-> nullptr]
            /\ m_tail = [l \in List |-> nullptr]
            /\ contents = [l \in List |-> <<>>]

Linked(x) == \E l \in List : \E i \in 1..Len(contents[l]) : contents[l][i] = x
empty(l) == m_head[l] = nullptr

-----------------------------------------------------------------------------
push_back(l, x) ==
    /\ ~Linked(x)
    /\ \/ /\ m_tail[l] # nullptr
          /\ next' = [next EXCEPT ![m_tail[l]] = x]
          /\ UNCHANGED m_head
       \/ /\ m_tail[l] = nullptr
          /\ m_head' = [m_head EXCEPT ![l] = x]
          /\ UNCHANGED next
    /\ m_tail' = [m_tail EXCEPT ![l] = x]
    /\ contents' = [contents EXCEPT ![l] = Append(@, x)]

(* On an empty list pop_front() returns nullptr and changes nothing. *)
pop_front(l) ==
    /\ ~empty(l)
    /\ m_head' = [m_head EXCEPT ![l] = next[m_head[l]]]
    /\ m_tail' = [m_tail EXCEPT ![l] = IF next[m_head[l]] = nullptr
                                         THEN nullptr ELSE @]
    /\ next' = [next EXCEPT ![m_head[l]] = nullptr]
    /\ contents' = [contents EXCEPT ![l] = Tail(@)]

swap(k, l) ==
    /\ m_head' = [m_head EXCEPT ![k] = m_head[l], ![l] = m_head[k]]
    /\ m_tail' = [m_tail EXCEPT ![k] = m_tail[l], ![l] = m_tail[k]]
    /\ contents' = [contents EXCEPT ![k] = contents[l], ![l] = contents[k]]
    /\ UNCHANGED next

(* The move constructor makes list k, which has no nodes before, of list l. *)
move(k, l) ==
    /\ k # l /\ contents[k] = <<>>
    /\ m_head' = [m_head EXCEPT ![k] = m_head[l], ![l] = nullptr]
    /\ m_tail' = [m_tail EXCEPT ![k] = m_tail[l], ![l] = nullptr]
    /\ contents' = [contents EXCEPT ![k] = contents[l], ![l] = <<>>]
    /\ UNCHANGED next

ListNext == \E k, l \in List : \/ \E x \in Node : push_back(l, x)
                               \/ pop_front(l)
                               \/ swap(k, l)
                               \/ move(k, l)

ListSpec == ListInit /\ [][ListNext]_listVars

-----------------------------------------------------------------------------
(* intrusive_list.hpp:109-117: the pointers of a list are those of its     *)
(* sequence, from the head along next to the tail.                         *)
Represents(l) ==
    LET s == contents[l] IN
    /\ s = <<>> => m_head[l] = nullptr /\ m_tail[l] = nullptr
    /\ s # <<>> => m_head[l] = s[1] /\ m_tail[l] = s[Len(s)]
    /\ \A i \in 1..Len(s) : next[s[i]] = IF i = Len(s) THEN nullptr ELSE s[i + 1]
ListsRepresent == \A l \in List : Represents(l)

(* wait_queue.cpp:48-55 moves nodes from one list to another: no node is   *)
(* in two places.                                                          *)
NoNodeTwice ==
    \A k, l \in List : \A i \in 1..Len(contents[k]), j \in 1..Len(contents[l]) :
        contents[k][i] = contents[l][j] => k = l /\ i = j

(* intrusive_list.hpp:68: the assertion of push_back, for every node that  *)
(* it may be given.                                                        *)
UnlinkedReset == \A x \in Node : ~Linked(x) => next[x] = nullptr

(* intrusive_list.hpp:114-117. *)
AssertInvariants ==
    \A l \in List : /\ empty(l) <=> m_tail[l] = nullptr
                    /\ m_tail[l] # nullptr => next[m_tail[l]] = nullptr
=============================================================================
