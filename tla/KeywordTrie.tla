----------------------------- MODULE KeywordTrie -----------------------------
(***************************************************************************)
(* The keyword trie of common/stringx/trie.go.  NewTrie adds its words one *)
(* at a time; Filter finds every keyword occurrence in a text, collects   *)
(* the keywords and masks their characters with '*'.  A node of the trie  *)
(* is named by its path from the root (a node is the child of its path's  *)
(* front under its last rune); nodes is the set of nodes and ends the set *)
(* with end = true.  Texts and words are sequences of runes; a scope      *)
(* [start, stop] covers text[start..stop] (1-based; the code's            *)
(* scope{start - 1, stop}).  Filter changes nothing and is an operator.   *)
(***************************************************************************)
EXTENDS Integers, Sequences, SequencesExt

CONSTANTS
    Runes,    \* the runes texts and words are made of
    Star,     \* '*'
    MaxWord,  \* bound: length of a word
    MaxText   \* bound: length of a text

ASSUME Star \notin Runes

Words == SeqOf(Runes, MaxWord)
Texts == SeqOf(Runes, MaxText)

VARIABLES
    nodes,  \* the trie's nodes, by path
    ends,   \* nodes with end = true
    added   \* words passed to add so far (for the reference only)

vars == <<nodes, ends, added>>

\* The child of node p under rune r, if p.children holds one.
hasChild(p, r) == Append(p, r) \in nodes

\* A mutant of findKeywordScopes' inner loop that skips a rune with no
\* grandchild (continue) instead of stopping (break).
RECURSIVE walkSkip(_, _, _, _)
walkSkip(chars, start, j, p) ==
    IF j > Len(chars) THEN <<>>
    ELSE IF ~hasChild(p, chars[j]) THEN walkSkip(chars, start, j + 1, p)
    ELSE LET q == Append(p, chars[j])
         IN  (IF q \in ends THEN <<[start |-> start, stop |-> j]>> ELSE <<>>)
               \o walkSkip(chars, start, j + 1, q)

\* The walk down from node p along chars[j..]: a scope for each node
\* passed that ends a word; the walk stops at the first missing child.
RECURSIVE walk(_, _, _, _)
walk(chars, start, j, p) ==
    IF j > Len(chars) \/ ~hasChild(p, chars[j]) THEN <<>>
    ELSE LET q == Append(p, chars[j])
         IN  (IF q \in ends THEN <<[start |-> start, stop |-> j]>> ELSE <<>>)
               \o walk(chars, start, j + 1, q)

\* findKeywordScopes: for each i whose rune is a child of the root, the
\* walk from the root starting there (start = i; reset after each i).
RECURSIVE scopesFrom(_, _)
scopesFrom(chars, i) ==
    IF i > Len(chars) THEN <<>>
    ELSE walk(chars, i, i, <<>>) \o scopesFrom(chars, i + 1)

findKeywordScopes(chars) == scopesFrom(chars, 1)

\* collectKeywords: the distinct strings the scopes cover.
collectKeywords(chars, scopes) ==
    {SubSeq(chars, sc.start, sc.stop) : sc \in ToSet(scopes)}

\* replaceWithAsterisk over every scope, overlaps included.
replaceWithAsterisk(chars, scopes) ==
    [i \in 1..Len(chars) |->
        IF \E sc \in ToSet(scopes) : sc.start <= i /\ i <= sc.stop THEN Star ELSE chars[i]]

\* Filter(text): an empty text is returned as is with no keywords.
Filter(text) ==
    IF Len(text) = 0
    THEN [sentence |-> text, keywords |-> {}, found |-> FALSE]
    ELSE LET scopes == findKeywordScopes(text)
             keywords == collectKeywords(text, scopes)
         IN  [sentence |-> replaceWithAsterisk(text, scopes),
              keywords |-> keywords, found |-> keywords # {}]

-----------------------------------------------------------------------------
\* new(Node): the root alone.
Init ==
    /\ nodes = {<<>>}
    /\ ends = {}
    /\ added = {}

\* add(word): an empty word returns at once; otherwise every node on the
\* word's path exists afterwards (created where children is nil or lacks
\* the rune) and the last one ends a word.
add(word) ==
    /\ Len(word) > 0
    /\ nodes' = nodes \cup Prefixes(word)
    /\ ends' = ends \cup {word}
    /\ added' = added \cup {word}

Next == \E w \in Words : add(w)

Spec == Init /\ [][Next]_vars

-----------------------------------------------------------------------------
\* What Filter is meant to compute, stated without the trie: every
\* occurrence of an added word in the text is a keyword, and exactly the
\* characters of some occurrence are masked.
Occurrences(text) ==
    {<<i, j>> \in (1..Len(text)) \X (1..Len(text)) :
        i <= j /\ SubSeq(text, i, j) \in added}

RefFilter(text) ==
    LET occ == Occurrences(text)
        keywords == {SubSeq(text, o[1], o[2]) : o \in occ}
    IN  [sentence |-> [i \in 1..Len(text) |->
                         IF \E o \in occ : o[1] <= i /\ i <= o[2] THEN Star ELSE text[i]],
         keywords |-> keywords, found |-> keywords # {}]

\* Type invariant.
TypeOK ==
    /\ nodes \subseteq Words /\ ends \subseteq nodes \ {<<>>}
    /\ added \subseteq Words

\* For every set of words NewTrie can be given and every text, Filter
\* masks exactly the characters of the words' occurrences and reports
\* exactly the words that occur: the trie walk of findKeywordScopes
\* misses no occurrence (overlapping ones, ones sharing a start, a word
\* inside another) and invents none.
FilterMatchesReference ==
    \A text \in Texts : Filter(text) = RefFilter(text)
=============================================================================
