------------------------------- MODULE Trie -------------------------------
(***************************************************************************)
(* indexing/trie_index/trie_index.cpp.  A node is the sequence of the      *)
(* characters on the way to it; the root is the empty one.                 *)
(***************************************************************************)
EXTENDS Integers, Sequences

CONSTANTS Word          \* words: sequences of characters

VARIABLES trNodes,      \* the nodes that exist
          trEnds        \* those with is_end_of_word

trVars == <<trNodes, trEnds>>

TrInit == trNodes = {<<>>} /\ trEnds = {}

-----------------------------------------------------------------------------
Prefix(w, d) == SubSeq(w, 1, d)
Prefixes(w) == {Prefix(w, d) : d \in 0 .. Len(w)}
Children(x) == {y \in trNodes : Len(y) = Len(x) + 1 /\ Prefix(y, Len(x)) = x}

trInsert(w) ==
  /\ trNodes' = trNodes \cup Prefixes(w)
  /\ trEnds' = trEnds \cup {w}

starts_with(p) == p \in trNodes
get_words_with_prefix(p) ==
  IF p \in trNodes THEN {x \in trEnds : Len(x) >= Len(p) /\ Prefix(x, Len(p)) = p} ELSE {}

ChildrenOnly(x) == TRUE
NotAWord(x) == x \notin trEnds
\* remove_helper on the way back: the node at depth d of the word is deleted if it
\* has no children left and, above the end of the word, ends no word itself.
Deleted(w) ==
  LET gone[d \in 0 .. Len(w)] ==
        IF d = Len(w) THEN Children(w) = {}
        ELSE gone[d + 1] /\ Children(Prefix(w, d)) = {Prefix(w, d + 1)} /\ NotAWord(Prefix(w, d))
  IN  {Prefix(w, d) : d \in {e \in 1 .. Len(w) : gone[e]}}

trRemove(w) ==
  /\ w \in trEnds
  /\ trEnds' = trEnds \ {w}
  /\ trNodes' = trNodes \ Deleted(w)

TrNext == \E w \in Word : trInsert(w) \/ trRemove(w)

-----------------------------------------------------------------------------
\* Whatever was inserted and removed before, starts_with holds exactly for the
\* prefixes of the words that are left, and get_words_with_prefix gives exactly
\* those: a removal leaves no dead branch and takes no other word's node.
TrieIsTight ==
  \A p \in UNION {Prefixes(w) : w \in Word} \ {<<>>} :
    LET words == {w \in trEnds : p \in Prefixes(w)}
    IN  starts_with(p) = (words # {}) /\ get_words_with_prefix(p) = words
=============================================================================
