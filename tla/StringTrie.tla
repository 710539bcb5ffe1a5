----------------------------- MODULE StringTrie -----------------------------
(* util/trie.hpp: words are inserted into a tree of prefixes, which is then    *)
(* compiled to states that look strings up.  A string is a sequence of         *)
(* characters, a character a number.  A node of the tree is named by its path, *)
(* the prefixes from the root down to it put together: its own prefix is what  *)
(* it adds to its parent's path.  A leaf has no prefix and only says that a    *)
(* word ends above it: word_index keeps it.                                    *)
EXTENDS Integers, Sequences, SequencesExt

CONSTANTS
  WordLists,   \* the lists of words a trie is made of
  Strings,     \* the strings that are looked up
  Modulus      \* 2^32 in the code: unsigned results wrap there

\* a prefix is kept as a C string: no word has the character 0
Characters == Nat \ {0}

ASSUME TrieAssumption ==
  /\ Modulus \in Nat
  /\ WordLists \subseteq Seq(Seq(Characters))
  /\ \A list \in WordLists : Len(list) + 2 < Modulus
  /\ Strings \subseteq Seq(Nat)

Unset == Modulus - 1    \* -1U

Positions(s) == 1..Len(s)
First(S)     == CHOOSE i \in S : \A j \in S : i <= j

\* operator< of string_view
Less(a, b) ==
  \/ IsStrictPrefix(a, b)
  \/ \E i \in Positions(a) \cap Positions(b) :
       a[i] < b[i] /\ SubSeq(a, 1, i - 1) = SubSeq(b, 1, i - 1)

Arranged(list) ==
  {[i \in Positions(list) |-> list[p[i]]] : p \in Bijection(Positions(list), Positions(list))}

\* Mutant: the words are inserted as they come.
Unsorted(list) == Arranged(list)

\* what std::ranges::sort may make of a list
Sorted(list) ==
  {s \in Arranged(list) : \A i, j \in Positions(s) : i < j => ~Less(s[j], s[i])}

\* the position of a word among the words given, plus one
word_idx(list, word) == First({i \in Positions(list) : list[i] = word})

VARIABLES
  words,        \* the words given
  sorted_words, \* in the order they are inserted
  transitions,  \* per node, its children
  word_index,   \* per node, the index of its leaf, or 0
  inserted,     \* how many words are in the tree
  node,         \* where the walk through the tree is
  pc,           \* "insert", "visit" or "answered"
  str,          \* the string looked up
  matched, found \* what matches and find return for it

tree     == <<words, sorted_words, transitions, word_index, inserted>>
trieVars == <<tree, node, pc, str, matched, found>>

TrieInit ==
  /\ words \in WordLists
  /\ sorted_words \in Sorted(words)
  /\ transitions = [n \in {<<>>} |-> {}]
  /\ word_index = [n \in {<<>>} |-> 0]
  /\ inserted = 0 /\ node = <<>> /\ pc = "insert"
  /\ str = <<>> /\ matched = FALSE /\ found = Unset

-----------------------------------------------------------------------------
(* ParsedState::make                                                          *)

word == sorted_words[inserted + 1]

Inserting == pc = "insert" /\ inserted < Len(sorted_words)
Reading   == Inserting /\ Len(node) < Len(word)

\* the children that go on as a string does
Branches(n, s) == {c \in transitions[n] : c[Len(n) + 1] = s[Len(n) + 1]}

\* std::mismatch, which is given no end of the word and needs a mismatch before it
mismatch(prefix, s) ==
  First({n \in 0..Len(prefix) : n = Len(prefix) \/ n >= Len(s) \/ prefix[n + 1] # s[n + 1]})

NextWord ==
  /\ inserted' = inserted + 1
  /\ node' = <<>>
  /\ UNCHANGED <<words, sorted_words, pc, str, matched, found>>

\* The loop ends: the walk has come to the end of the word.
Finish ==
  /\ Inserting /\ Len(node) = Len(word)
  /\ NextWord
  /\ UNCHANGED <<transitions, word_index>>

\* No child goes on with the word: a new one does, with a leaf.
Grow ==
  /\ Reading /\ Branches(node, word) = {}
  /\ transitions' = [n \in DOMAIN transitions \cup {word} |->
                       CASE n = word -> {}
                         [] n = node -> transitions[n] \cup {word}
                         [] OTHER -> transitions[n]]
  /\ word_index' = [n \in DOMAIN transitions \cup {word} |->
                      IF n = word THEN word_idx(words, word) ELSE word_index[n]]
  /\ NextWord

\* Mutant: what came after the prefix is lost.
divided_bare(child, upper) ==
  [n \in DOMAIN transitions \cup {upper} |->
     CASE n = upper -> {child}
       [] n = node -> (transitions[n] \ {child}) \cup {upper}
       [] n = child -> {}
       [] OTHER -> transitions[n]]

\* A prefix the word leaves halfway is divided: the node keeps the first part,
\* and a new one below it the rest with all that was there.
divided(child, upper) ==
  [n \in DOMAIN transitions \cup {upper} |->
     CASE n = upper -> {child}
       [] n = node -> (transitions[n] \ {child}) \cup {upper}
       [] OTHER -> transitions[n]]

Descend ==
  /\ Reading
  /\ \E child \in Branches(node, word) :
       LET upper == SubSeq(child, 1, mismatch(child, word)) IN
       /\ IF upper = child THEN UNCHANGED <<transitions, word_index>>
          ELSE /\ transitions' = divided(child, upper)
               /\ word_index' = [n \in DOMAIN transitions \cup {upper} |->
                                   IF n = upper THEN 0 ELSE word_index[n]]
       /\ node' = upper
  /\ UNCHANGED <<words, sorted_words, inserted, pc, str, matched, found>>

-----------------------------------------------------------------------------
(* Root::matches and Root::find, of the states the tree is converted to.      *)

\* Nothing is made of a root without transitions.
Find(s) ==
  /\ pc # "visit" /\ inserted = Len(sorted_words) /\ transitions[<<>>] # {}
  /\ str' = s /\ node' = <<>>
  /\ matched' = FALSE
  /\ IF s = <<>> THEN pc' = "answered" /\ found' = Unset
     ELSE pc' = "visit" /\ UNCHANGED found
  /\ UNCHANGED tree

\* A state of one character is compared without starts_with, after a test that
\* turns away longer strings if a word ends there.
accepts(child) ==
  IF Len(child) = Len(node) + 1
  THEN /\ word_index[child] # 0 => Len(str) = Len(child)
       /\ str[Len(child)] = child[Len(child)]
  ELSE IsPrefix(child, str)

Visit ==
  /\ pc = "visit"
  /\ \E child \in transitions[node] :
       /\ accepts(child)
       /\ node' = child
       /\ IF Len(child) = Len(str)
          THEN /\ pc' = "answered"
               /\ matched' = (word_index[child] # 0)
               /\ found' = (word_index[child] + Modulus - 1) % Modulus
          ELSE UNCHANGED <<pc, matched, found>>
  /\ UNCHANGED <<tree, str>>

\* No visitor was called: what is returned is -1U, less one.
Miss ==
  /\ pc = "visit" /\ \A child \in transitions[node] : ~accepts(child)
  /\ pc' = "answered" /\ found' = Unset - 1
  /\ UNCHANGED <<tree, node, str, matched>>

TrieNext == Finish \/ Grow \/ Descend \/ Visit \/ Miss \/ \E s \in Strings : Find(s)

TrieSpec == TrieInit /\ [][TrieNext]_trieVars

-----------------------------------------------------------------------------
(* What a trie promises.                                                     *)

\* The node a word ends at has one character of its own: the trie divides right
\* before the last character, because another word ends or turns off there.
OneLetterNode(list, w) ==
  LET q == Front(w) IN
  \/ q = <<>>
  \/ \E i \in Positions(list) : IsPrefix(q, list[i]) /\ ~IsPrefix(w, list[i])

\* Words the lookup cannot reach: they extend a word that ends at such a node.
Hidden(list, s) ==
  \E i \in Positions(list) :
    list[i] # <<>> /\ IsStrictPrefix(list[i], s) /\ OneLetterNode(list, list[i])

Findable(list, s) == s # <<>> /\ Contains(list, s) /\ ~Hidden(list, s)

\* Comparing a word with a prefix already in the trie never runs past the end
\* of the word, which nothing in the comparison itself prevents.
NeverOverreads ==
  Reading => \A child \in Branches(node, word) : ~IsStrictPrefix(word, child)

\* A lookup returns the first position of the string among the words, and
\* something that is no position for a string that is not among them; the words
\* the lookup cannot reach are those called hidden, and no others.
LookupExact ==
  pc = "answered" =>
    IF Findable(words, str) THEN matched /\ found = word_idx(words, str) - 1
    ELSE ~matched /\ found >= Len(words)
=============================================================================
